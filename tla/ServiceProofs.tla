---------------------------- MODULE ServiceProofs ----------------------------
(***************************************************************************)
(* Proofs about the system log and its task, the keep-alive of the MQTT    *)
(* client, the client of the weather station, select and poll of the       *)
(* shell, the commands of the shell and the decoder of MQTT packets, for   *)
(* every size of their buffers and tables, every interval and resolution   *)
(* of time, and every number of records, messages, descriptors, characters *)
(* and bytes.                                                              *)
(***************************************************************************)
EXTENDS LogTask, KeepAlive, Client, FdSelect, ShellCommand, MqttCodec,
        FiniteSetTheorems, SequenceTheorems, WellFoundedInduction, TLAPS

----------------------------------------------------------------------------
(* The system log: it loses no record silently, for every size of the      *)
(* buffer.                                                                 *)

Slots == 0 .. LogBufferSize - 1

\* The inductive invariant: the ring and the last read.
LogOK == RingOK /\ GapsCounted /\ taken \in [num : Int, lost : Nat, before : Int]

\* Going round from a slot meets every slot once, and comes back.
LEMMA SlotFacts ==
  ASSUME NEW h \in Slots
  PROVE  /\ NextIndex(h) \in Slots
         /\ Slot(h, 0) = h /\ Slot(h, LogBufferSize) = h
         /\ \A i \in Slots : Slot(h, i) \in Slots
         /\ \A i, j \in Slots : Slot(h, i) = Slot(h, j) => i = j
         /\ \A i \in Slots : Slot(h, i + 1) = NextIndex(Slot(h, i))
         /\ \A i \in Slots : Slot(NextIndex(h), i) = Slot(h, i + 1)
BY LogAssumption DEF Slots, Slot, NextIndex

\* What the steps use of the invariant.
LEMMA RingFacts ==
  ASSUME LogOK
  PROVE  /\ LogBufferSize \in Nat \ {0} /\ stored \in Nat /\ lost \in Nat
         /\ head \in Slots /\ count \in 0 .. LogBufferSize
         /\ tail \in Slots /\ tail = Slot(head, count)
         /\ logBuffer \in [Slots -> Nat]
         /\ \A i \in 0 .. count - 1 : logBuffer[Slot(head, i)] = stored - count + 1 + i
         /\ lost > 0 => count = LogBufferSize
         /\ taken \in [num : Int, lost : Nat, before : Int] /\ taken.num + lost + count = stored
<1>1. /\ LogBufferSize \in Nat \ {0} /\ stored \in Nat /\ lost \in Nat
      /\ head \in Slots /\ count \in 0 .. LogBufferSize
      /\ tail = Slot(head, count) /\ logBuffer \in [Slots -> Nat]
  BY LogAssumption DEF LogOK, RingOK, Slots
<1>2. tail \in Slots
  <2>1. CASE count = LogBufferSize
    BY <1>1, <2>1, SlotFacts
  <2>2. CASE count # LogBufferSize
    <3>1. count \in Slots
      BY <1>1, <2>2 DEF Slots
    <3> QED
      BY <1>1, <3>1, SlotFacts
  <2> QED
    BY <2>1, <2>2
<1> QED
  BY <1>1, <1>2 DEF LogOK, RingOK

LEMMA LogInitOK == LogInit => LogOK
BY LogAssumption DEF LogInit, LogOK, RingOK, GapsCounted, Slot

\* A record is put behind the others while there is room.
LEMMA RoomOK ==
  ASSUME LogOK, count < LogBufferSize,
         logBuffer' = [logBuffer EXCEPT ![tail] = stored + 1], stored' = stored + 1,
         tail' = NextIndex(tail), count' = count + 1, head' = head, lost' = lost, taken' = taken
  PROVE  LogOK'
<1>1. /\ LogBufferSize \in Nat \ {0} /\ count \in Slots /\ head \in Slots /\ stored \in Nat
      /\ tail = Slot(head, count) /\ tail \in Slots /\ logBuffer \in [Slots -> Nat]
  <2>1. LogBufferSize \in Nat \ {0} /\ count \in 0 .. LogBufferSize
    BY RingFacts
  <2>2. count \in Slots
    BY <2>1 DEF Slots
  <2> QED
    BY <2>1, <2>2, RingFacts
<1>2. /\ \A i \in Slots : Slot(head, i) \in Slots
      /\ \A i, j \in Slots : Slot(head, i) = Slot(head, j) => i = j
      /\ Slot(head, count + 1) = NextIndex(Slot(head, count))
  BY <1>1, SlotFacts
<1>3. tail' = Slot(head', count') /\ logBuffer' \in [Slots -> Nat]
  BY <1>1, <1>2
<1>4. ASSUME NEW i \in 0 .. count' - 1
      PROVE  logBuffer'[Slot(head', i)] = stored' - count' + 1 + i
  <2>0. i \in Slots
    BY <1>1 DEF Slots
  <2>1. i \in Slots /\ Slot(head, i) \in Slots
    BY <1>2, <2>0
  <2>2. CASE i = count
    BY <1>1, <2>1, <2>2
  <2>3. CASE i # count
    <3>1. i \in 0 .. count - 1 /\ Slot(head, i) # tail
      BY <1>1, <1>2, <2>1, <2>3 DEF Slots
    <3>2. logBuffer'[Slot(head, i)] = logBuffer[Slot(head, i)]
      BY <1>1, <2>1, <3>1
    <3>3. logBuffer[Slot(head, i)] = stored - count + 1 + i
      BY <3>1, RingFacts
    <3> QED
      BY <1>1, <3>1, <3>2, <3>3 DEF Slots
  <2> QED
    BY <2>2, <2>3
<1>5. count' \in 0 .. LogBufferSize /\ lost' \in Nat /\ stored' \in Nat /\ (lost' > 0 => count' = LogBufferSize)
  <2>1. lost \in Nat /\ (lost > 0 => count = LogBufferSize)
    BY RingFacts
  <2> QED
    BY <1>1, <2>1 DEF Slots
<1>6. taken'.num + lost' + count' = stored' /\ taken' \in [num : Int, lost : Nat, before : Int]
  <2>1. taken \in [num : Int, lost : Nat, before : Int]
    BY RingFacts
  <2>2. taken.num + lost + count = stored
    BY RingFacts
  <2>3. taken.num \in Int /\ lost \in Nat /\ count \in Nat
    BY <1>1, <2>1, RingFacts DEF Slots
  <2>4. taken.num + lost + (count + 1) = stored + 1
    BY <1>1, <2>2, <2>3
  <2> QED
    BY <2>1, <2>4
<1>7. GapsCounted'
  BY DEF LogOK, GapsCounted
<1> QED
  BY <1>1, <1>3, <1>4, <1>5, <1>6, <1>7 DEF LogOK, RingOK, Slots

\* A full buffer loses its first record to the new one.
LEMMA FullOK ==
  ASSUME LogOK, count = LogBufferSize, Overwrite,
         logBuffer' = [logBuffer EXCEPT ![tail] = stored + 1], stored' = stored + 1,
         tail' = NextIndex(tail), taken' = taken
  PROVE  LogOK'
<1>1. /\ LogBufferSize \in Nat \ {0} /\ head \in Slots /\ stored \in Nat
      /\ tail = head /\ logBuffer \in [Slots -> Nat]
  BY RingFacts, SlotFacts
<1>2. count' = count /\ head' = NextIndex(head) /\ lost' = lost + 1 /\ tail' = head'
  BY <1>1 DEF Overwrite
<1>3. head' \in Slots /\ tail' = Slot(head', count') /\ logBuffer' \in [Slots -> Nat]
  <2>1. head' \in Slots /\ Slot(head', LogBufferSize) = head'
    BY <1>1, <1>2, SlotFacts
  <2> QED
    BY <1>1, <1>2, <2>1
<1>0. /\ \A i \in Slots : Slot(head, i) \in Slots
      /\ \A i, j \in Slots : Slot(head, i) = Slot(head, j) => i = j
      /\ Slot(head, 0) = head
  BY <1>1, SlotFacts
<1>4. ASSUME NEW i \in 0 .. count' - 1
      PROVE  logBuffer'[Slot(head', i)] = stored' - count' + 1 + i
  <2>1. i \in Slots /\ Slot(head', i) = Slot(head, i + 1)
    BY <1>1, <1>2, SlotFacts DEF Slots
  <2>2. CASE i = LogBufferSize - 1
    <3>1. Slot(head', i) = tail
      BY <1>1, <2>1, <2>2, SlotFacts
    <3> QED
      BY <1>1, <1>2, <2>2, <3>1
  <2>3. CASE i # LogBufferSize - 1
    <3>1. i + 1 \in Slots /\ i + 1 \in 0 .. count - 1 /\ 0 \in Slots
      BY <1>1, <2>1, <2>3 DEF Slots
    <3>2. Slot(head, i + 1) \in Slots /\ Slot(head, i + 1) # tail
      <4>1. i + 1 # 0
        BY <2>1 DEF Slots
      <4> QED
        BY <1>0, <1>1, <3>1, <4>1
    <3>3. logBuffer'[Slot(head, i + 1)] = logBuffer[Slot(head, i + 1)]
      BY <1>1, <3>2
    <3>4. logBuffer[Slot(head, i + 1)] = stored - count + 1 + (i + 1)
      BY <3>1, RingFacts
    <3> QED
      BY <1>1, <1>2, <2>1, <3>3, <3>4 DEF Slots
  <2> QED
    BY <2>2, <2>3
<1>5. count' \in 0 .. LogBufferSize /\ lost' \in Nat /\ stored' \in Nat /\ (lost' > 0 => count' = LogBufferSize)
  BY <1>1, <1>2, RingFacts
<1>6. taken'.num + lost' + count' = stored' /\ taken' \in [num : Int, lost : Nat, before : Int]
  BY <1>1, <1>2, RingFacts
<1>7. GapsCounted'
  BY DEF LogOK, GapsCounted
<1> QED
  BY <1>1, <1>2, <1>3, <1>4, <1>5, <1>6, <1>7 DEF LogOK, RingOK, Slots

LEMMA WriteOK ==
  ASSUME LogOK, NEW p, eSysLog_write(p)
  PROVE  LogOK'
<1>1. CASE p \notin logMask
  BY <1>1 DEF LogOK, RingOK, GapsCounted, Slot, eSysLog_write, buffer
<1>2. CASE p \in logMask /\ count < LogBufferSize
  <2>1. /\ logBuffer' = [logBuffer EXCEPT ![tail] = stored + 1] /\ stored' = stored + 1
        /\ tail' = NextIndex(tail) /\ count' = count + 1
        /\ head' = head /\ lost' = lost /\ taken' = taken
    BY <1>2, RingFacts DEF eSysLog_write
  <2> QED
    BY <1>2, <2>1, RoomOK
<1>3. CASE p \in logMask /\ count >= LogBufferSize
  <2>1. count = LogBufferSize /\ Overwrite
    BY <1>3, RingFacts DEF eSysLog_write
  <2> QED
    BY <1>3, <2>1, FullOK DEF eSysLog_write
<1> QED
  BY <1>1, <1>2, <1>3, RingFacts

\* The first record is taken, and with it the account of the lost ones.
LEMMA ReadOK ==
  ASSUME LogOK, eSysLog_read
  PROVE  LogOK'
<1>1. /\ count > 0 /\ count' = count - 1 /\ head' = NextIndex(head) /\ lost' = 0
      /\ taken' = [num |-> logBuffer[head], lost |-> lost, before |-> taken.num]
      /\ logBuffer' = logBuffer /\ tail' = tail /\ stored' = stored
  BY DEF eSysLog_read
<1>2. /\ LogBufferSize \in Nat \ {0} /\ count \in 1 .. LogBufferSize /\ count' \in Slots
      /\ head \in Slots /\ stored \in Nat /\ lost \in Nat
  <2>1. LogBufferSize \in Nat \ {0} /\ count \in 0 .. LogBufferSize
    BY RingFacts
  <2>2. count \in 1 .. LogBufferSize /\ count' \in Slots
    BY <1>1, <2>1 DEF Slots
  <2> QED
    BY <2>1, <2>2, RingFacts
<1>3. Slot(head, 0) = head /\ head' \in Slots /\ \A i \in Slots : Slot(head', i) = Slot(head, i + 1)
  BY <1>1, <1>2, SlotFacts
<1>4. logBuffer[head] = stored - count + 1
  <2>1. 0 \in 0 .. count - 1
    BY <1>2
  <2> QED
    BY <1>2, <1>3, <2>1, RingFacts
<1>5. GapsCounted' /\ taken' \in [num : Int, lost : Nat, before : Int] /\ taken'.num = logBuffer[head]
  BY <1>1, <1>2, <1>4, RingFacts DEF GapsCounted
<1>6. tail' = Slot(head', count')
  BY <1>1, <1>2, <1>3, RingFacts
<1>7. ASSUME NEW i \in 0 .. count' - 1
      PROVE  logBuffer'[Slot(head', i)] = stored' - count' + 1 + i
  <2>1. i \in Slots /\ i + 1 \in 0 .. count - 1
    BY <1>1, <1>2 DEF Slots
  <2>2. logBuffer[Slot(head, i + 1)] = stored - count + 1 + (i + 1)
    BY <2>1, RingFacts
  <2> QED
    BY <1>1, <1>2, <1>3, <2>1, <2>2 DEF Slots
<1>8. taken'.num + lost' + count' = stored' /\ count' \in 0 .. LogBufferSize
  BY <1>1, <1>2, <1>4, <1>5
<1>9. logBuffer' \in [Slots -> Nat] /\ stored' \in Nat /\ lost' \in Nat /\ ~ (lost' > 0)
  BY <1>1, RingFacts
<1> QED
  BY <1>3, <1>5, <1>6, <1>7, <1>8, <1>9 DEF LogOK, RingOK, Slots

\* All records are taken; only the first of them can report a loss.
LEMMA FlushOK ==
  ASSUME LogOK, eSysLog_flush
  PROVE  LogOK'
<1>1. /\ LogBufferSize \in Nat \ {0} /\ count \in 1 .. LogBufferSize /\ head \in Slots
      /\ stored \in Nat /\ lost \in Nat
  BY RingFacts DEF eSysLog_flush
<1>2. logBuffer[Slot(head, count - 1)] = stored
  <2>1. count - 1 \in 0 .. count - 1
    BY <1>1
  <2> QED
    BY <1>1, <2>1, RingFacts
<1>3. ASSUME count # 1 PROVE logBuffer[Slot(head, count - 2)] = stored - 1
  <2>1. count - 2 \in 0 .. count - 1
    BY <1>1, <1>3
  <2> QED
    BY <1>1, <2>1, RingFacts
<1>4. GapsCounted' /\ taken' \in [num : Int, lost : Nat, before : Int] /\ taken'.num = stored
  BY <1>1, <1>2, <1>3, RingFacts DEF eSysLog_flush, GapsCounted
<1>5. tail \in Slots /\ head' = tail /\ tail' = Slot(head', 0)
  BY RingFacts, SlotFacts DEF eSysLog_flush
<1>6. /\ logBuffer' = logBuffer /\ logBuffer \in [0 .. LogBufferSize - 1 -> Nat]
      /\ count' = 0 /\ lost' = 0 /\ stored' = stored
  BY DEF eSysLog_flush, LogOK, RingOK
<1>7. RingOK'
  BY <1>1, <1>4, <1>5, <1>6 DEF RingOK, Slots
<1> QED
  BY <1>4, <1>7 DEF LogOK

\* A change of the masks does not touch the buffer.
LEMMA MaskOK ==
  ASSUME LogOK, UNCHANGED buffer
  PROVE  LogOK'
BY DEF LogOK, RingOK, GapsCounted, buffer

\* The invariant holds for every buffer size and every use of the log
\* (tSysLog.c).
THEOREM LogStaysOK == LogSpec => []LogOK
<1>1. ASSUME LogOK, [LogNext]_logvars
      PROVE  LogOK'
  BY <1>1, WriteOK, ReadOK, FlushOK, MaskOK DEF LogNext, SysLogCalls, eSysLog_mask, logvars, buffer
<1> QED
  BY <1>1, LogInitOK, PTL DEF LogSpec

\* The ring holds the records stored last, whatever its size.
THEOREM RingStaysOK == LogSpec => []RingOK
<1>1. LogOK => RingOK
  BY DEF LogOK
<1> QED
  BY <1>1, LogStaysOK, PTL

\* The log task, the port and the callers of eLogTask_flush use the buffer only
\* through its functions.
LEMMA TaskUsesLog == TaskSpec => LogSpec
<1>1. TaskInit => LogInit
  BY DEF TaskInit
<1>2. ASSUME [TaskNext]_taskvars PROVE [LogNext]_logvars
  <2>1. CASE LogTaskStep
    BY <2>1 DEF LogTaskStep, Started, TakeRecord, logtask_putc, Sleep, WakeUp,
                LogNext, SysLogCalls, eSysLog_write
  <2>2. CASE PortSends \/ UNCHANGED taskvars
    BY <2>2 DEF PortSends, taskvars
  <2>3. CASE \E f \in Flushers : FlusherStep(f) \/ \E n \in Counts : eLogTask_flush(f, n)
    BY <2>3 DEF FlusherStep, Looked, AllSent, NotSent, eLogTask_flush
  <2>4. CASE SysLogCalls
    BY <2>4 DEF LogNext
  <2> QED
    BY <1>2, <2>1, <2>2, <2>3, <2>4 DEF TaskNext
<1> QED
  BY <1>1, <1>2, PTL DEF TaskSpec, LogSpec

\* The reader of the log can always tell which records are missing
\* (tSysLog.c, VAR_lost), with the log task as the reader.
THEOREM NoSilentLoss == TaskSpec => []GapsCounted
<1>1. LogOK => GapsCounted
  BY DEF LogOK
<1> QED
  BY <1>1, TaskUsesLog, LogStaysOK, PTL

\* The log keeps the last records in order and counts every other one, with the log
\* task as the reader (eSysLog_write, eSysLog_read).
THEOREM LogIsKept == TaskSpec => []LogKept
<1>1. LogOK => LogKept
  BY DEF LogOK, LogKept
<1> QED
  BY <1>1, TaskUsesLog, LogStaysOK, PTL

----------------------------------------------------------------------------
(* The keep-alive: the tick counter is never fast, so that no alarm is     *)
(* false, and loses less than half of the time, so that PINGREQ is never   *)
(* later than twice the interval.                                          *)

\* A quotient and what it leaves out (tickcounter_get_current_ms divides by 1000).
LEMMA DivFacts ==
  ASSUME NEW s \in Nat, NEW m \in Nat \ {0}
  PROVE  s \div m \in Nat /\ m * (s \div m) <= s /\ s < m * (s \div m) + m
BY SMT

\* Products distribute over sums and stay natural numbers.
LEMMA Distribute ==
  ASSUME NEW m \in Nat, NEW a \in Nat, NEW b \in Nat
  PROVE  m * (a + b) = m * a + m * b /\ {m * a, m * b, m * (a + b)} \subseteq Nat
BY SMT

\* Products are monotone.
LEMMA MulMono ==
  ASSUME NEW m \in Nat, NEW a \in Nat, NEW b \in Nat, a <= b
  PROVE  m * a <= m * b
BY SMT

\* A number of milliseconds that makes at least n seconds, and one that makes fewer.
LEMMA WholeSeconds ==
  ASSUME NEW x \in Nat, NEW m \in Nat \ {0}, NEW n \in Nat
  PROVE  /\ x \div m > n => m * (n + 1) <= x
         /\ ~ (x \div m >= n) => x < m * n
<1> DEFINE q == x \div m
<1>1. q \in Nat /\ m * q <= x /\ x < m * q + m
  BY DivFacts
<1> HIDE DEF q
<1>2. CASE q > n
  <2>1. m * (n + 1) <= m * q
    BY <1>1, <1>2, MulMono
  <2> QED BY <1>1, <1>2, <2>1 DEF q
<1>3. CASE q < n
  <2>1. m * (q + 1) <= m * n /\ m * (q + 1) = m * q + m * 1
    BY <1>1, <1>3, MulMono, Distribute
  <2>2. x < m * n
    BY <1>1, <2>1
  <2> QED BY <1>1, <1>3, <2>2 DEF q
<1>4. CASE q = n
  BY <1>4 DEF q
<1> QED BY <1>1, <1>2, <1>3, <1>4

\* The values the bounds may take.
LEMMA Bounds ==
  /\ MS \in Nat \ {0} /\ SEC \in Nat \ {0} /\ keepAliveInterval \in Nat \ {0}
  /\ MaxIdle \in Nat /\ MaxIdle >= MS /\ MaxDown \in Nat /\ MaxSend \in Nat /\ Jump \in Nat
  /\ maxPingRespTime \in Nat
BY KeepAliveAssumption DEF maxPingRespTime

----------------------------------------------------------------------------
\* Types.

Ages == Nat \cup {NONE}

KeepTypeOK ==
  /\ conn \in {"down", "connecting", "up", "noping"}
  /\ since \in Nat /\ sendAge \in Nat /\ idle \in Nat /\ quiet \in Nat
  /\ pingAge \in Ages /\ waited \in Ages
  /\ hub \in {"answers", "silent"} /\ resp \in BOOLEAN

\* Ages stay ages as time passes.
LEMMA LaterType ==
  ASSUME NEW age \in Ages, NEW d \in Nat
  PROVE  Later(age, d) \in Ages /\ (Later(age, d) = NONE <=> age = NONE)
BY DEF Later, Ages, NONE

\* What mqtt_client_dowork does after xio_dowork keeps the types.
LEMMA KeepsAliveType ==
  ASSUME KeepTypeOK, NEW ping \in Ages, NEW wait \in Ages, KeepsAlive(ping, wait)
  PROVE  KeepTypeOK'
<1>1. Elapsed \in Nat /\ \A d \in 0 .. MaxSend : d \div MS \in Nat /\ d \in Nat
  BY Bounds, DivFacts DEF KeepTypeOK, Elapsed
<1>2. Later(ping, Elapsed) \in Ages
  BY <1>1, LaterType
<1>3. idle' = 0 /\ resp' = FALSE /\ hub' \in {"answers", "silent"}
  BY DEF KeepsAlive, KeepTypeOK
<1>4. CASE NoPingResponse(ping)
  BY <1>3, <1>4 DEF KeepTypeOK, NoPingResponse, Ages, NONE
<1>5. CASE SendPing(ping)
  <2>1. PICK d \in 0 .. MaxSend : sendAge' = d \div MS /\ quiet' = d /\ waited' = d
    BY <1>5 DEF SendPing
  <2>2. pingAge' = 0 /\ since' = 0 /\ conn' = "up"
    BY <1>5 DEF SendPing
  <2>3. sendAge' \in Nat /\ quiet' \in Nat /\ waited' \in Ages /\ pingAge' \in Ages /\ since' \in Nat
    BY <1>1, <2>1, <2>2 DEF Ages
  <2> QED BY <1>3, <2>2, <2>3 DEF KeepTypeOK
<1>6. CASE NothingDue(ping, wait)
  <2>1. sendAge' = sendAge + Elapsed /\ pingAge' = Later(ping, Elapsed) /\ since' = 0
        /\ quiet' = quiet /\ waited' = wait /\ conn' = "up"
    BY <1>6 DEF NothingDue
  <2>2. sendAge' \in Nat /\ quiet' \in Nat /\ since' \in Nat
    BY <1>1, <2>1 DEF KeepTypeOK
  <2> QED BY <1>2, <1>3, <2>1, <2>2 DEF KeepTypeOK
<1> QED BY <1>4, <1>5, <1>6 DEF KeepsAlive

\* The variables have their types at first.
LEMMA KeepInitType == KeepInit => KeepTypeOK
<1> SUFFICES ASSUME KeepInit PROVE KeepTypeOK
  OBVIOUS
<1>1. conn = "down" /\ hub = "answers" /\ resp = FALSE
  BY DEF KeepInit
<1>2. since = 0 /\ sendAge = 0 /\ idle = 0 /\ quiet = 0 /\ pingAge = NONE /\ waited = NONE
  BY DEF KeepInit
<1> QED BY <1>1, <1>2 DEF KeepTypeOK, Ages

\* The variables keep their types.
LEMMA KeepTypeStep ==
  ASSUME KeepTypeOK, [KeepNext]_kvars
  PROVE  KeepTypeOK'
<1>1. CASE DoWork
  BY <1>1, KeepsAliveType DEF DoWork, KeepTypeOK, Ages, NONE
<1>2. CASE Connack
  BY <1>2, KeepsAliveType DEF Connack, KeepTypeOK
<1>3. CASE SendMessage \/ Connect
  <2>1. Elapsed \in Nat
    BY Bounds, DivFacts DEF KeepTypeOK, Elapsed
  <2>2. Later(pingAge, Elapsed) \in Ages
    BY <2>1, LaterType DEF KeepTypeOK
  <2> QED BY <1>3, <2>2 DEF KeepTypeOK, SendMessage, Connect, SendPacketItem
<1>4. CASE Lose \/ Answer \/ FallSilent \/ UNCHANGED kvars
  BY <1>4 DEF KeepTypeOK, Lose, Answer, FallSilent, kvars, Ages, NONE
<1>5. CASE Time
  <2>1. Later(waited, 1) \in Ages
    BY LaterType DEF KeepTypeOK
  <2> QED BY <1>5, <2>1 DEF KeepTypeOK, Time
<1>6. CASE SetTime
  BY <1>6, Bounds DEF KeepTypeOK, SetTime
<1> QED BY <1>1, <1>2, <1>3, <1>4, <1>5, <1>6 DEF KeepNext

----------------------------------------------------------------------------
\* The tick counter loses less than half of the time.

\* Nothing was read since the last packet, or what was read since counts for more
\* than half, and PINGREQ was not yet due at the last reading.
QuietOK ==
  /\ conn = "connecting" => quiet <= since /\ sendAge = 0
  /\ conn = "up" =>
       /\ idle <= MaxIdle
       /\ \/ quiet <= since /\ quiet <= idle
          \/ /\ quiet <= 2 * (MS * sendAge) + (MS - 1) + idle /\ idle <= since
             /\ sendAge < SEC * keepAliveInterval \/ quiet <= MaxSend + idle

\* QuietOK bounds the time without a packet.
LEMMA QuietBound ==
  ASSUME KeepTypeOK, QuietOK
  PROVE  PingWithinTwice
<1> SUFFICES ASSUME conn = "up"
             PROVE  quiet < 2 * keepAliveInterval * SEC * MS + MaxIdle + MaxSend
  BY DEF PingWithinTwice
<1> DEFINE limit == SEC * keepAliveInterval
<1>1. limit \in Nat \ {0} /\ limit * MS \in Nat \ {0} /\ MS * limit = limit * MS
  BY Bounds
<1>2. 2 * keepAliveInterval * SEC * MS = 2 * (limit * MS)
  BY Bounds
<1> HIDE DEF limit
<1>3. CASE quiet <= since /\ quiet <= idle
  BY <1>1, <1>2, <1>3, Bounds DEF QuietOK, KeepTypeOK
<1>4. CASE quiet <= MaxSend + idle
  BY <1>1, <1>2, <1>4, Bounds DEF QuietOK, KeepTypeOK
<1>5. CASE quiet <= 2 * (MS * sendAge) + (MS - 1) + idle /\ sendAge < limit
  <2>1. MS * (sendAge + 1) <= MS * limit /\ MS * (sendAge + 1) = MS * sendAge + MS * 1
    BY <1>1, <1>5, Bounds, MulMono, Distribute DEF KeepTypeOK
  <2>2. MS * sendAge \in Nat
    BY Bounds DEF KeepTypeOK
  <2> QED BY <1>1, <1>2, <1>5, <2>1, <2>2, Bounds DEF QuietOK, KeepTypeOK
<1> QED BY <1>3, <1>4, <1>5 DEF QuietOK, limit

\* mqtt_client_dowork keeps QuietOK when it has just got CONNACK, and when the
\* application has slept for a millisecond since the last call.
LEMMA KeepsAliveQuiet ==
  ASSUME KeepTypeOK, QuietOK, NEW ping \in Ages, NEW wait \in Ages, KeepsAlive(ping, wait),
         conn = "connecting" \/ (conn = "up" /\ idle >= MS)
  PROVE  QuietOK'
<1>1. Elapsed \in Nat /\ MS * Elapsed <= since /\ since < MS * Elapsed + MS /\ MS * Elapsed \in Nat
  BY Bounds, DivFacts DEF KeepTypeOK, Elapsed
<1>2. idle' = 0
  BY DEF KeepsAlive
<1>3. CASE NoPingResponse(ping)
  BY <1>3 DEF NoPingResponse, QuietOK
<1>4. CASE SendPing(ping)
  <2>1. PICK d \in 0 .. MaxSend : sendAge' = d \div MS /\ since' = 0 /\ quiet' = d
    BY <1>4 DEF SendPing
  <2>2. d < MS * (d \div MS) + MS /\ MS * (d \div MS) \in Nat /\ d \in Nat
    BY Bounds, DivFacts
  <2>3. quiet' <= 2 * (MS * sendAge') + (MS - 1) + idle' /\ quiet' <= MaxSend + idle'
    BY <1>2, <2>1, <2>2, Bounds
  <2> QED BY <1>2, <1>4, <2>1, <2>3, Bounds DEF SendPing, QuietOK
<1>5. CASE NothingDue(ping, wait)
  <2>1. conn' = "up" /\ since' = 0 /\ quiet' = quiet /\ sendAge' = sendAge + Elapsed
    BY <1>5 DEF NothingDue
  <2>2. MS * (sendAge + Elapsed) = MS * sendAge + MS * Elapsed /\ MS * sendAge \in Nat
    BY <1>1, Bounds, Distribute DEF KeepTypeOK
  <2>3. sendAge' < SEC * keepAliveInterval
    BY <1>1, <1>5, <2>1, Bounds, WholeSeconds DEF NothingDue, PingDue, KeepTypeOK
  <2>4. quiet <= 2 * (MS * sendAge + MS * Elapsed) + (MS - 1)
    <3>1. CASE quiet <= since
      BY <1>1, <2>2, <3>1, Bounds DEF KeepTypeOK
    <3>2. CASE conn = "up" /\ quiet <= 2 * (MS * sendAge) + (MS - 1) + idle /\ idle <= since
      <4>1. Elapsed # 0
        BY <1>1, <3>2, Bounds DEF KeepTypeOK
      <4>2. MS * 1 <= MS * Elapsed
        BY <1>1, <4>1, Bounds, MulMono
      <4> QED BY <1>1, <2>2, <3>2, <4>2, Bounds DEF KeepTypeOK
    <3> QED BY <3>1, <3>2 DEF QuietOK
  <2> QED BY <1>2, <2>1, <2>2, <2>3, <2>4, Bounds DEF QuietOK, KeepTypeOK
<1> QED BY <1>3, <1>4, <1>5 DEF KeepsAlive

\* Every step keeps QuietOK.
LEMMA QuietStep ==
  ASSUME KeepTypeOK, QuietOK, [KeepNext]_kvars
  PROVE  QuietOK'
<1>1. CASE DoWork
  BY <1>1, KeepsAliveQuiet DEF DoWork, KeepTypeOK, Ages, NONE
<1>2. CASE Connack
  BY <1>2, KeepsAliveQuiet DEF Connack, KeepTypeOK
<1>3. CASE SendMessage
  BY <1>3 DEF SendMessage, SendPacketItem, QuietOK, KeepTypeOK
<1>4. CASE Connect
  BY <1>4 DEF Connect, SendPacketItem, QuietOK
<1>5. CASE Lose
  BY <1>5 DEF Lose, QuietOK
<1>6. CASE Answer \/ FallSilent \/ UNCHANGED kvars
  BY <1>6 DEF Answer, FallSilent, kvars, QuietOK
<1>7. CASE Time
  <2>1. CASE conn = "up"
    BY <1>7, <2>1, Bounds DEF Time, QuietOK, KeepTypeOK
  <2>2. CASE conn # "up"
    BY <1>7, <2>2 DEF Time, QuietOK, KeepTypeOK
  <2> QED BY <2>1, <2>2
<1>8. CASE SetTime
  BY <1>8, Bounds DEF SetTime, QuietOK, KeepTypeOK
<1> QED BY <1>1, <1>2, <1>3, <1>4, <1>5, <1>6, <1>7, <1>8 DEF KeepNext

\* However the time is set and whatever is lost: a connected client sends something
\* within twice the keep-alive interval (mqtt_client_dowork).
THEOREM PingsInTime == KeepSpec => []PingWithinTwice
<1>1. KeepInit => KeepTypeOK /\ QuietOK
  BY KeepInitType DEF KeepInit, QuietOK
<1>2. KeepTypeOK /\ QuietOK /\ [KeepNext]_kvars => (KeepTypeOK /\ QuietOK)'
  BY KeepTypeStep, QuietStep
<1>3. KeepTypeOK /\ QuietOK => PingWithinTwice
  BY QuietBound
<1> QED BY <1>1, <1>2, <1>3, PTL DEF KeepSpec

----------------------------------------------------------------------------
\* The tick counter is never fast.

\* timeSincePing belongs to a PINGREQ of this connection, and no more time has
\* passed by the tick counter than in reality.
WaitedOK ==
  /\ waited = NONE => pingAge = NONE
  /\ waited # NONE => conn = "up" /\ pingAge # NONE /\ MS * pingAge + since <= waited

\* Every step keeps WaitedOK, if nobody sets the time.
LEMMA WaitedStep ==
  ASSUME KeepTypeOK, WaitedOK, Jump = 0, LossWhilePinging = FALSE, [KeepNext]_kvars
  PROVE  WaitedOK'
<1>1. Elapsed \in Nat /\ MS * Elapsed <= since
  BY Bounds, DivFacts DEF KeepTypeOK, Elapsed
<1>2. ASSUME pingAge # NONE
      PROVE  /\ pingAge \in Nat /\ waited \in Nat /\ MS * pingAge \in Nat
             /\ Later(pingAge, Elapsed) = pingAge + Elapsed
             /\ MS * (pingAge + Elapsed) = MS * pingAge + MS * Elapsed
             /\ MS * (pingAge + Elapsed) <= waited
  <2>1. pingAge \in Nat /\ waited \in Nat
    BY <1>2 DEF WaitedOK, KeepTypeOK, Ages
  <2>2. MS * (pingAge + Elapsed) = MS * pingAge + MS * Elapsed /\ MS * pingAge \in Nat
        /\ MS * Elapsed \in Nat
    BY <1>1, <2>1, Bounds, Distribute
  <2> QED BY <1>1, <1>2, <2>1, <2>2 DEF WaitedOK, KeepTypeOK, Later
<1>2a. ASSUME pingAge # NONE, pingAge' = Later(pingAge, Elapsed), since' = 0, waited' = waited,
              conn' = "up"
       PROVE  WaitedOK'
  <2>1. pingAge' = pingAge + Elapsed /\ MS * pingAge' <= waited /\ MS * pingAge' \in Nat
    BY <1>2, <1>2a, <1>1, Bounds
  <2>2. pingAge' # NONE /\ waited \in Nat
    BY <1>1, <1>2, <1>2a DEF NONE
  <2> QED BY <1>2a, <2>1, <2>2 DEF WaitedOK
<1>3. ASSUME NEW ping \in Ages, NEW wait \in Ages, KeepsAlive(ping, wait),
             \/ ping = NONE /\ wait = NONE
             \/ ping = pingAge /\ wait = waited
      PROVE  WaitedOK'
  <2>1. CASE NoPingResponse(ping)
    BY <2>1 DEF NoPingResponse, WaitedOK, NONE
  <2>2. CASE SendPing(ping)
    <3>1. PICK d \in 0 .. MaxSend : pingAge' = 0 /\ since' = 0 /\ waited' = d /\ conn' = "up"
      BY <2>2 DEF SendPing
    <3> QED BY <3>1, Bounds DEF WaitedOK, NONE
  <2>3. CASE NothingDue(ping, wait)
    <3>1. pingAge' = Later(ping, Elapsed) /\ since' = 0 /\ waited' = wait /\ conn' = "up"
      BY <2>3 DEF NothingDue
    <3>2. CASE ping = NONE /\ wait = NONE
      BY <3>1, <3>2 DEF WaitedOK, Later
    <3>3. CASE ping = pingAge /\ wait = waited /\ pingAge = NONE
      BY <3>1, <3>3 DEF WaitedOK, Later
    <3>4. CASE ping = pingAge /\ wait = waited /\ pingAge # NONE
      BY <1>2a, <3>1, <3>4
    <3> QED BY <1>3, <3>2, <3>3, <3>4
  <2> QED BY <1>3, <2>1, <2>2, <2>3 DEF KeepsAlive
<1>4. CASE DoWork
  BY <1>3, <1>4 DEF DoWork, KeepTypeOK, Ages, NONE
<1>5. CASE Connack
  BY <1>3, <1>5 DEF Connack, KeepTypeOK
<1>6. CASE SendMessage
  <2>1. pingAge' = Later(pingAge, Elapsed) /\ since' = 0 /\ waited' = waited /\ conn' = "up"
    BY <1>6 DEF SendMessage, SendPacketItem
  <2>2. CASE pingAge = NONE
    BY <2>1, <2>2 DEF WaitedOK, Later
  <2>3. CASE pingAge # NONE
    BY <1>2a, <2>1, <2>3
  <2> QED BY <2>2, <2>3
<1>7. CASE Connect
  BY <1>7 DEF Connect, SendPacketItem, WaitedOK, Later
<1>8. CASE Lose
  BY <1>8 DEF Lose, WaitedOK
<1>9. CASE Answer \/ FallSilent \/ UNCHANGED kvars
  BY <1>9 DEF Answer, FallSilent, kvars, WaitedOK
<1>10. CASE Time
  <2>1. CASE waited = NONE
    BY <1>10, <2>1 DEF Time, WaitedOK, Later
  <2>2. CASE waited # NONE
    <3>1. waited' = waited + 1 /\ waited' # NONE /\ since' = since + 1
      BY <1>10, <2>2 DEF Time, Later, KeepTypeOK, Ages, NONE
    <3> QED BY <1>2, <1>10, <2>2, <3>1 DEF Time, WaitedOK, KeepTypeOK
  <2> QED BY <2>1, <2>2
<1>11. CASE SetTime
  BY <1>11 DEF SetTime, KeepTypeOK
<1> QED BY <1>4, <1>5, <1>6, <1>7, <1>8, <1>9, <1>10, <1>11 DEF KeepNext

\* A step that reports NO_PING_RESPONSE has good reason to.
LEMMA AlarmRight ==
  ASSUME KeepTypeOK, WaitedOK, [KeepNext]_kvars, conn' = "noping", conn # "noping"
  PROVE  ~ resp /\ waited >= (maxPingRespTime + 1) * SEC * MS
<1>1. PICK ping \in Ages : ResponseOverdue(ping) /\ (ping = NONE \/ (ping = pingAge /\ ~ resp))
  <2>1. CASE DoWork
    BY <2>1 DEF DoWork, KeepsAlive, NoPingResponse, SendPing, NothingDue, KeepTypeOK, Ages
  <2>2. CASE Connack
    <3>1. pingAge = NONE
      BY <2>2 DEF Connack, WaitedOK
    <3> QED BY <2>2, <3>1 DEF Connack, KeepsAlive, NoPingResponse, SendPing, NothingDue, Ages
  <2>3. ~ (SendMessage \/ Connect \/ Lose \/ Answer \/ FallSilent \/ Time \/ SetTime \/ UNCHANGED kvars)
    BY DEF SendMessage, Connect, Lose, Answer, FallSilent, Time, SetTime, kvars
  <2> QED BY <2>1, <2>2, <2>3 DEF KeepNext
<1>2. pingAge # NONE /\ ~ resp /\ Later(pingAge, Elapsed) \div SEC > maxPingRespTime
  BY <1>1 DEF ResponseOverdue
<1>3. pingAge \in Nat /\ waited \in Nat /\ MS * pingAge + since <= waited
  BY <1>2 DEF WaitedOK, KeepTypeOK, Ages
<1>4. Elapsed \in Nat /\ MS * Elapsed <= since
  BY Bounds, DivFacts DEF KeepTypeOK, Elapsed
<1> DEFINE x == pingAge + Elapsed
           n == SEC * (maxPingRespTime + 1)
<1>5. x \in Nat /\ n \in Nat /\ n <= x
  BY <1>2, <1>3, <1>4, Bounds, WholeSeconds DEF Later
<1>6. MS * x = MS * pingAge + MS * Elapsed /\ {MS * pingAge, MS * Elapsed} \subseteq Nat
  BY <1>3, <1>4, Bounds, Distribute
<1>7. (maxPingRespTime + 1) * SEC * MS = MS * n /\ MS * n \in Nat
  BY Bounds
<1> HIDE DEF x, n
<1>8. MS * n <= MS * x
  BY <1>5, Bounds, MulMono
<1> QED BY <1>2, <1>3, <1>4, <1>6, <1>7, <1>8 DEF KeepTypeOK

\* If nobody sets the time and no connection is lost between PINGREQ and its answer,
\* no alarm is false (mqtt_client_dowork).
THEOREM NoAlarmIsFalse ==
  ASSUME Jump = 0, LossWhilePinging = FALSE
  PROVE  KeepSpec => NoFalseAlarm
<1>1. KeepInit => KeepTypeOK /\ WaitedOK
  BY KeepInitType DEF KeepInit, WaitedOK
<1>2. KeepTypeOK /\ WaitedOK /\ [KeepNext]_kvars => (KeepTypeOK /\ WaitedOK)'
  BY KeepTypeStep, WaitedStep
<1>3. KeepTypeOK /\ WaitedOK /\ [KeepNext]_kvars =>
        (conn' = "noping" /\ conn # "noping" =>
           ~ resp /\ waited >= (maxPingRespTime + 1) * SEC * MS)
  BY AlarmRight
<1> QED BY <1>1, <1>2, <1>3, PTL DEF KeepSpec, NoFalseAlarm

----------------------------------------------------------------------------
(* The weather station client.                                             *)

Entry == [messageHandle : 0 .. MaxMessages, messageTrackingId : Nat]

ClientTypes ==
  /\ msg_id \in Nat /\ created \in 0 .. MaxMessages
  /\ messages \in [0 .. MESSAGE_COUNT - 1 -> Entry]
  /\ number \in [Handles -> Nat] /\ freed \in [Handles -> Nat]
  /\ accepted \subseteq 1 .. created /\ pending \subseteq accepted
  /\ printed.message \in 0 .. created

\* A message that is not confirmed yet still has its entry of the ring.
EntriesKept ==
  \A m \in pending :
    messages[MsgPos(number[m])] = [messageHandle |-> m, messageTrackingId |-> number[m]]

ClientInv == ClientTypes /\ EntriesKept /\ TrackingRight /\ HandlesFreedOnce

LEMMA Position ==
  ASSUME NEW n \in Nat
  PROVE  MsgPos(n) \in 0 .. MESSAGE_COUNT - 1
BY ClientAssumption DEF MsgPos

LEMMA ClientStarts ==
  ASSUME ClientInit
  PROVE  ClientInv
<1>1. accepted = {} /\ pending = {}  BY DEF ClientInit, Core!Init
<1>2. ClientTypes
  <2>1. [messageHandle |-> NoHandle, messageTrackingId |-> 0] \in Entry
    BY ClientAssumption DEF Entry, NoHandle
  <2>2. messages \in [0 .. MESSAGE_COUNT - 1 -> Entry]  BY <2>1 DEF ClientInit
  <2>3. number \in [Handles -> Nat] /\ freed \in [Handles -> Nat]  BY DEF ClientInit
  <2>4. msg_id \in Nat /\ created \in 0 .. MaxMessages
    BY ClientAssumption DEF ClientInit
  <2>5. printed.message \in 0 .. created  BY DEF ClientInit, NoHandle
  <2>6. QED  BY <1>1, <2>2, <2>3, <2>4, <2>5 DEF ClientTypes
<1>3. QED
  BY <1>1, <1>2 DEF ClientInit, ClientInv, EntriesKept, TrackingRight, HandlesFreedOnce, NoHandle

\* What the entry written over held is not needed any more; the new message is not
\* among those that were accepted.
LEMMA NextMessageKeeps ==
  ASSUME Prompt, ClientInv, NextMessage, NEW S, S \subseteq {created + 1},
         accepted' = accepted \cup S, pending' = pending \cup S
  PROVE  ClientInv'
<1> DEFINE m == created + 1
           entry == [messageHandle |-> m, messageTrackingId |-> msg_id]
<1>1. /\ created \in Nat /\ m \in Handles /\ m \notin accepted /\ m \notin pending
      /\ msg_id \in Nat /\ entry \in Entry /\ MsgPos(msg_id) \in 0 .. MESSAGE_COUNT - 1
  BY ClientAssumption, Position DEF ClientInv, ClientTypes, NextMessage, Handles, Entry
<1>2. /\ created' = m /\ messages' = [messages EXCEPT ![MsgPos(msg_id)] = entry]
      /\ number' = [number EXCEPT ![m] = msg_id] /\ msg_id' = msg_id + 1
      /\ inRun' = inRun /\ freed' = freed /\ printed' = printed
  BY DEF NextMessage
<1> HIDE DEF entry
<1>3. ClientTypes'
  <2>1. /\ messages \in [0 .. MESSAGE_COUNT - 1 -> Entry]
        /\ number \in [Handles -> Nat] /\ freed \in [Handles -> Nat]
        /\ accepted \subseteq 1 .. created /\ pending \subseteq accepted
        /\ printed.message \in 0 .. created
    BY DEF ClientInv, ClientTypes
  <2>2. messages' \in [0 .. MESSAGE_COUNT - 1 -> Entry]  BY <1>1, <1>2, <2>1
  <2>3. number' \in [Handles -> Nat]  BY <1>1, <1>2, <2>1
  <2>4. msg_id' \in Nat /\ created' \in 0 .. MaxMessages
    BY <1>1, <1>2, ClientAssumption DEF Handles
  <2>5. S \subseteq 1 .. created'  BY <1>1, <1>2
  <2>6. 1 .. created \subseteq 1 .. created'  BY <1>1, <1>2
  <2>7. accepted' \subseteq 1 .. created' /\ pending' \subseteq accepted'
    BY <2>1, <2>5, <2>6
  <2>8. printed'.message \in 0 .. created'  BY <1>1, <1>2, <2>1
  <2>9. freed' \in [Handles -> Nat]  BY <1>2, <2>1
  <2>10. QED  BY <2>2, <2>3, <2>4, <2>7, <2>8, <2>9 DEF ClientTypes
<1>4. EntriesKept'
  <2>1. ASSUME NEW n \in pending
        PROVE  messages'[MsgPos(number'[n])] =
                 [messageHandle |-> n, messageTrackingId |-> number'[n]]
    <3>1. n \in Handles /\ n # m /\ number[n] \in Nat
      BY <1>1, ClientAssumption DEF ClientInv, ClientTypes, Handles
    <3>2. number'[n] = number[n]  BY <1>2, <3>1
    <3>3. MsgPos(number[n]) # MsgPos(msg_id)
      BY DEF NextMessage, EntryMayBeReused
    <3>4. messages'[MsgPos(number[n])] = messages[MsgPos(number[n])]
      BY <1>2, <3>1, <3>3, Position DEF ClientInv, ClientTypes
    <3>5. QED  BY <3>2, <3>4 DEF ClientInv, EntriesKept
  <2>2. messages'[MsgPos(number'[m])] = [messageHandle |-> m, messageTrackingId |-> number'[m]]
    BY <1>1, <1>2 DEF ClientInv, ClientTypes, entry
  <2>3. QED  BY <2>1, <2>2 DEF EntriesKept
<1>5. TrackingRight'
  <2>0. printed.message \in 0 .. created /\ created \in 0 .. MaxMessages
    BY DEF ClientInv, ClientTypes
  <2>1. printed.message # NoHandle => printed.message \in Handles /\ printed.message # m
    BY <1>1, <2>0, ClientAssumption DEF Handles, NoHandle
  <2>2. QED  BY <1>2, <2>1 DEF ClientInv, TrackingRight
<1>6. HandlesFreedOnce'
  BY <1>1, <1>2 DEF ClientInv, HandlesFreedOnce
<1>7. QED  BY <1>3, <1>4, <1>5, <1>6 DEF ClientInv

\* The callback finds the handle and the number of its own message.
LEMMA ConfirmedKeeps ==
  ASSUME ClientInv, NEW m \in Handles, NEW r, Confirmed(m, r)
  PROVE  ClientInv'
<1>1. /\ m \in pending /\ pending' = pending \ {m} /\ accepted' = accepted
      /\ UNCHANGED client
  BY DEF Confirmed, Core!Confirm
<1>2. messages[MsgPos(number[m])] = [messageHandle |-> m, messageTrackingId |-> number[m]]
  BY <1>1 DEF ClientInv, EntriesKept
<1>3. m # NoHandle /\ m \in 1 .. created
  BY <1>1 DEF Handles, NoHandle, ClientInv, ClientTypes
<1>4. printed' = [message |-> m, id |-> number[m]] /\ freed' = [freed EXCEPT ![m] = @ + 1]
  BY <1>2, <1>3 DEF Confirmed, SendConfirmationCallback
<1>5. ClientTypes'
  BY <1>1, <1>3, <1>4 DEF ClientInv, ClientTypes, client, Handles
<1>6. EntriesKept' /\ TrackingRight'
  BY <1>1, <1>4 DEF ClientInv, EntriesKept, TrackingRight, client
<1>7. HandlesFreedOnce'
  <2>1. freed[m] = 0 /\ freed \in [Handles -> Nat] /\ m \in accepted
    BY <1>1 DEF ClientInv, ClientTypes, HandlesFreedOnce
  <2>2. ASSUME NEW n \in Handles
        PROVE  freed'[n] = (IF n \in accepted' \ pending' THEN 1 ELSE 0)
    <3>1. CASE n = m  BY <1>1, <1>4, <2>1, <3>1
    <3>2. CASE n # m  BY <1>1, <1>4, <2>1, <3>2 DEF ClientInv, HandlesFreedOnce
    <3>3. QED  BY <3>1, <3>2
  <2>3. QED  BY <2>2 DEF HandlesFreedOnce
<1>8. QED  BY <1>5, <1>6, <1>7 DEF ClientInv

LEMMA ClientKeeps ==
  ASSUME Prompt, ClientInv, [ClientNext]_clvars
  PROVE  ClientInv'
<1>1. CASE UNCHANGED clvars
  BY <1>1 DEF clvars, client, ClientInv, ClientTypes, EntriesKept, TrackingRight,
              HandlesFreedOnce
<1>2. CASE Run \/ Quit
  <2>1. msg_id' \in Nat
    BY <1>2 DEF Run, Quit, ClientInv, ClientTypes
  <2>2. UNCHANGED <<messages, created, number, freed, printed, accepted, pending>>
    BY <1>2 DEF Run, Quit
  <2>3. QED
    BY <2>1, <2>2 DEF ClientInv, ClientTypes, EntriesKept, TrackingRight, HandlesFreedOnce
<1>3. CASE SendEvent
  BY <1>3, NextMessageKeeps DEF SendEvent, Core!Accept
<1>4. CASE SendRefused
  <2>1. NextMessage /\ accepted' = accepted \cup {} /\ pending' = pending \cup {}
    BY <1>4 DEF SendRefused
  <2>2. QED  BY <2>1, NextMessageKeeps
<1>5. CASE CreateFails
  <2> DEFINE p == MsgPos(msg_id)
             entry == [messages[p] EXCEPT !.messageHandle = NoHandle]
  <2>1. /\ p \in 0 .. MESSAGE_COUNT - 1 /\ messages \in [0 .. MESSAGE_COUNT - 1 -> Entry]
        /\ messages' = [messages EXCEPT ![p] = entry]
        /\ UNCHANGED <<inRun, msg_id, created, number, freed, printed, accepted, pending>>
    BY <1>5, Position DEF CreateFails, ClientInv, ClientTypes
  <2>2. entry \in Entry
    BY <2>1, ClientAssumption DEF Entry, NoHandle
  <2> HIDE DEF entry
  <2>3. ClientTypes'  BY <2>1, <2>2 DEF ClientInv, ClientTypes
  <2>4. EntriesKept'
    <3>1. ASSUME NEW n \in pending
          PROVE  messages'[MsgPos(number[n])] = messages[MsgPos(number[n])]
      <4>1. MsgPos(number[n]) # p  BY <1>5 DEF CreateFails, EntryMayBeReused
      <4>2. number[n] \in Nat  BY ClientAssumption DEF ClientInv, ClientTypes, Handles
      <4>3. QED  BY <2>1, <4>1, <4>2, Position
    <3>2. QED  BY <2>1, <3>1 DEF ClientInv, EntriesKept
  <2>5. QED  BY <2>1, <2>3, <2>4 DEF ClientInv, TrackingRight, HandlesFreedOnce
<1>6. ASSUME NEW m \in Handles, HubReceives(m)  PROVE ClientInv'
  BY <1>6 DEF HubReceives, Core!Reach, client, ClientInv, ClientTypes, EntriesKept,
              TrackingRight, HandlesFreedOnce
<1>7. QED
  BY <1>1, <1>2, <1>3, <1>4, <1>5, <1>6, ConfirmedKeeps DEF ClientNext

\* While the entry of a message is not used again before the message is confirmed, every
\* callback is given the entry of its own message, and destroys the handle of
\* that message, once (client.c, SendConfirmationCallback), for every size of the ring
\* and every number of messages.
THEOREM CallbacksGetTheirMessage ==
  ASSUME Prompt
  PROVE  ClientSpec => []MessagesOK
<1>1. ClientInit => ClientInv  BY ClientStarts
<1>2. ClientInv /\ [ClientNext]_clvars => ClientInv'  BY ClientKeeps
<1>3. ClientInv => MessagesOK  BY DEF ClientInv, MessagesOK
<1>4. QED  BY <1>1, <1>2, <1>3, PTL DEF ClientSpec

----------------------------------------------------------------------------
(* select and poll.                                                        *)

FdPlaces == {"idle", "check", "decide", "wait", "clear", "collect", "done"}
Sets == [read : SUBSET FD, write : SUBSET FD, error : SUBSET FD]

FdTypes ==
  /\ window \in [FD -> Nat] /\ len \in [FD -> Nat]
  /\ readevt \in [FD -> Nat] /\ writeevt \in [FD -> Nat]
  /\ fdPc \in [at : FdPlaces, fd : FD]
  /\ call \in [fn : {"select", "poll"}, req : Sets, tmout : Nat]
  /\ evts \in Sets /\ ready \in Sets
  /\ answer \in [ret : {"none", "zero", "some", "error"}, read : SUBSET FD]
  /\ FdTypeOK

\* The sets of a pass: what the caller asked for, or nothing in a pass that follows.
SetsOfPass ==
  /\ fdPc.at \in {"check", "decide"} =>
       evts = call.req \/ (evts = Nothing /\ waitptn = {})
  /\ fdPc.at \in {"wait", "clear"} => evts = Nothing
  /\ fdPc.at \in {"collect", "done"} => evts.error = {}

\* What a pass has found readable has data until the call returns.
FoundHasData ==
  /\ fdPc.at \in {"check", "decide"} => \A f \in ready.read : len[f] > 0
  /\ fdPc.at \in {"collect", "done"} => \A f \in evts.read : len[f] > 0

\* A socket that the caller looked at in vain sets its flag, or has done so.
WillBeTold ==
  /\ fdPc.at = "check" =>
       \A f \in evts.read \ ready.read : f < fdPc.fd => f \in flag \cup receiving
  /\ fdPc.at = "decide" =>
       \A f \in evts.read \ ready.read : f \in flag \cup receiving
  /\ fdPc.at = "wait" =>
       \A f \in waitptn \cap (call.req.read \ ready.read) : f \in flag \cup receiving

FdInv == FdTypes /\ SetsOfPass /\ FoundHasData /\ WillBeTold /\ ReportedHasData

LEMMA FdStarts ==
  ASSUME FdInit
  PROVE  FdInv
<1>1. Nothing \in Sets  BY DEF Nothing, Sets
<1>2. fdPc \in [at : FdPlaces, fd : FD] /\ fdPc.at = "idle"
  BY FdAssumption DEF FdInit, At, FdPlaces, FD
<1>3. call \in [fn : {"select", "poll"}, req : Sets, tmout : Nat]
  BY <1>1 DEF FdInit
<1>4. answer.read = {} /\ answer \in [ret : {"none", "zero", "some", "error"}, read : SUBSET FD]
  BY DEF FdInit, NoAnswer
<1>5. FdTypeOK  BY DEF FdInit, FdTypeOK
<1>6. FdTypes  BY <1>1, <1>2, <1>3, <1>4, <1>5 DEF FdInit, FdTypes
<1>7. QED
  BY <1>2, <1>4, <1>6 DEF FdInv, SetsOfPass, FoundHasData, WillBeTold, ReportedHasData

\* Sockets that know of more, and flags and receives that stay or become flags,
\* disturb nothing.
LEMMA MoreData ==
  ASSUME FdInv, FdTypes', UNCHANGED <<fdPc, call, locals, answer>>,
         \A f \in FD : len'[f] >= len[f],
         flag \cup receiving \subseteq flag' \cup receiving'
  PROVE  FdInv'
<1>1. /\ fdPc' = fdPc /\ call' = call /\ evts' = evts /\ waitptn' = waitptn
      /\ ready' = ready /\ answer' = answer
  BY DEF locals
<1>2. ASSUME NEW f \in FD, len[f] > 0  PROVE len'[f] > 0
  BY <1>2 DEF FdInv, FdTypes
<1>3. ready.read \subseteq FD /\ evts.read \subseteq FD /\ answer.read \subseteq FD
  BY DEF FdInv, FdTypes, Sets
<1>4. SetsOfPass'  BY <1>1 DEF FdInv, SetsOfPass
<1>5. FoundHasData' /\ ReportedHasData'
  BY <1>1, <1>2, <1>3 DEF FdInv, FoundHasData, ReportedHasData
<1>6. WillBeTold'  BY <1>1 DEF FdInv, WillBeTold
<1>7. QED  BY <1>4, <1>5, <1>6 DEF FdInv

LEMMA ArriveKeeps ==
  ASSUME FdInv, NEW f \in FD, Arrive(f)
  PROVE  FdInv'
<1>1. /\ window \in [FD -> Nat] /\ len \in [FD -> Nat] /\ readevt \in [FD -> Nat]
      /\ window' = [window EXCEPT ![f] = @ + 1] /\ receiving' = receiving \ {f}
      /\ UNCHANGED <<writeevt, fdPc, call, locals, answer>> /\ FdTypeOK
  BY DEF FdInv, FdTypes, Arrive
<1>2. CASE f \in receiving
  <2>1. /\ len' = [len EXCEPT ![f] = @ + window'[f]]
        /\ readevt' = [readevt EXCEPT ![f] = IF @ = 0 THEN 1 ELSE @]
        /\ flag' = flag \cup {f}
    BY <1>2 DEF Arrive, socket_tcp_callback
  <2>2. window[f] = 0 /\ len[f] = 0 /\ window'[f] = 1  BY <1>1, <1>2 DEF FdTypeOK
  <2>3. FdTypeOK'
    BY <1>1, <2>1, <2>2 DEF FdTypeOK, locals
  <2>4. FdTypes'
    BY <1>1, <2>1, <2>2, <2>3 DEF FdInv, FdTypes, locals
  <2>5. QED  BY <1>1, <2>1, <2>2, <2>4, MoreData
<1>3. CASE f \notin receiving
  <2>1. UNCHANGED <<len, readevt, flag>>  BY <1>3 DEF Arrive
  <2>2. FdTypeOK'  BY <1>1, <1>3, <2>1 DEF FdTypeOK, locals
  <2>3. FdTypes'  BY <1>1, <2>1, <2>2 DEF FdInv, FdTypes, locals
  <2>4. QED  BY <1>1, <1>3, <2>1, <2>3, MoreData
<1>4. QED  BY <1>2, <1>3

LEMMA ReadKeeps ==
  ASSUME FdInv, NEW f \in FD, NEW n \in 1 .. MAXDATA, shell_recvfrom(f, n)
  PROVE  FdInv'
<1> DEFINE chunk == IF len[f] > 0 THEN len[f] ELSE window[f]
<1>1. /\ window \in [FD -> Nat] /\ len \in [FD -> Nat] /\ readevt \in [FD -> Nat]
      /\ n \in Nat \ {0} /\ FdTypeOK
  BY FdAssumption DEF FdInv, FdTypes
<1>2. /\ chunk \in Nat /\ chunk <= window[f] /\ n <= chunk
      /\ len' = [len EXCEPT ![f] = chunk - n]
      /\ window' = [window EXCEPT ![f] = @ - n]
      /\ readevt' = [readevt EXCEPT ![f] = IF @ # 0 THEN @ - 1 ELSE @]
      /\ UNCHANGED <<receiving, writeevt, flag, fdPc, call, locals>>
      /\ fdPc.at = "idle" /\ f \notin receiving
      /\ answer' = [answer EXCEPT !.read = @ \ {f}]
  BY <1>1 DEF shell_recvfrom, FdTypeOK
<1> HIDE DEF chunk
<1>3. FdTypeOK'  BY <1>1, <1>2 DEF FdTypeOK, locals
<1>4. /\ answer'.read = answer.read \ {f} /\ answer.read \subseteq FD
      /\ answer' \in [ret : {"none", "zero", "some", "error"}, read : SUBSET FD]
  BY <1>2 DEF FdInv, FdTypes
<1>5. FdTypes'  BY <1>1, <1>2, <1>3, <1>4 DEF FdInv, FdTypes, locals
<1>6. ReportedHasData'
  BY <1>1, <1>2, <1>4 DEF FdInv, ReportedHasData
<1>7. QED
  BY <1>2, <1>5, <1>6 DEF FdInv, SetsOfPass, FoundHasData, WillBeTold

LEMMA SendKeeps ==
  ASSUME FdInv, NEW f \in FD, shell_sendto(f)
  PROVE  FdInv'
<1>1. /\ writeevt \in [FD -> Nat] /\ writeevt' = [writeevt EXCEPT ![f] = @ - 1]
      /\ writeevt[f] = 1 /\ FdTypeOK
      /\ UNCHANGED <<window, receiving, len, readevt, flag, fdPc, call, locals, answer>>
  BY DEF FdInv, FdTypes, FdTypeOK, shell_sendto
<1>2. FdTypeOK'  BY <1>1 DEF FdTypeOK, locals
<1>3. FdTypes'  BY <1>1, <1>2 DEF FdInv, FdTypes, locals
<1>4. QED  BY <1>1, <1>3, MoreData DEF FdInv, FdTypes

\* A pass over the sets of the call, or over nothing, starts.
LEMMA PassStarts ==
  ASSUME FdInv, NEW e \in Sets, Pass(e), UNCHANGED <<socket, flag>>,
         e = call'.req \/ e = Nothing,
         call' \in [fn : {"select", "poll"}, req : Sets, tmout : Nat],
         answer' = answer \/ answer' = NoAnswer
  PROVE  FdInv'
<1>1. /\ evts' = e /\ waitptn' = e.error /\ ready' = Nothing
      /\ fdPc'.at = "check" /\ fdPc'.fd = 0 /\ fdPc' \in [at : FdPlaces, fd : FD]
      /\ window' = window /\ receiving' = receiving /\ len' = len /\ readevt' = readevt
      /\ writeevt' = writeevt /\ flag' = flag
  BY FdAssumption DEF Pass, At, FdPlaces, FD, socket
<1>2. Nothing \in Sets /\ Nothing.read = {} /\ Nothing.error = {}  BY DEF Nothing, Sets
<1>3. answer' \in [ret : {"none", "zero", "some", "error"}, read : SUBSET FD]
  BY DEF FdInv, FdTypes, NoAnswer
<1>4. FdTypeOK'  BY <1>1 DEF FdInv, FdTypes, FdTypeOK, Sets
<1>5. FdTypes'  BY <1>1, <1>2, <1>3, <1>4 DEF FdInv, FdTypes
<1>6. ReportedHasData'  BY <1>1 DEF FdInv, ReportedHasData, NoAnswer
<1>7. SetsOfPass'  BY <1>1, <1>2 DEF SetsOfPass
<1>8. FoundHasData'  BY <1>1, <1>2 DEF FoundHasData
<1>9. WillBeTold'
  <2>1. \A f \in evts'.read : ~ (f < 0)  BY <1>1 DEF Sets, FD
  <2>2. QED  BY <1>1, <2>1 DEF WillBeTold
<1>10. QED  BY <1>5, <1>6, <1>7, <1>8, <1>9 DEF FdInv

\* The call returns with what has data.
LEMMA CallEnds ==
  ASSUME FdInv, UNCHANGED <<socket, call, locals>>, flag' \subseteq FD,
         fdPc' = At("idle", 0),
         answer' \in [ret : {"none", "zero", "some", "error"}, read : SUBSET FD],
         \A f \in answer'.read : len[f] > 0
  PROVE  FdInv'
<1>1. /\ fdPc'.at = "idle" /\ fdPc' \in [at : FdPlaces, fd : FD] /\ UNCHANGED locals
      /\ window' = window /\ receiving' = receiving /\ len' = len /\ readevt' = readevt
      /\ writeevt' = writeevt
  BY FdAssumption DEF At, FdPlaces, FD, socket
<1>2. FdTypeOK'  BY <1>1 DEF FdInv, FdTypes, FdTypeOK, locals
<1>3. FdTypes'  BY <1>1, <1>2 DEF FdInv, FdTypes, locals
<1>4. QED
  BY <1>1, <1>3 DEF FdInv, ReportedHasData, SetsOfPass, FoundHasData, WillBeTold

LEMMA ReturnsKeeps ==
  ASSUME FdInv, NEW s \in Sets, NEW n, Returns(s, n), \A f \in s.read : len[f] > 0,
         UNCHANGED <<socket, flag>>
  PROVE  FdInv'
<1>1. call \in [fn : {"select", "poll"}, req : Sets, tmout : Nat]
  BY DEF FdInv, FdTypes
<1>2. CASE call.fn = "poll" /\ s.read \cup s.write = {}
  <2>1. Pass(call.req) /\ call' = call /\ answer' = answer  BY <1>2 DEF Returns
  <2>2. QED  BY <1>1, <2>1, PassStarts
<1>3. CASE ~ (call.fn = "poll" /\ s.read \cup s.write = {})
  <2>1. /\ answer'.read \subseteq s.read
        /\ answer' \in [ret : {"none", "zero", "some", "error"}, read : SUBSET FD]
        /\ fdPc' = At("idle", 0) /\ UNCHANGED <<call, locals>>
    BY <1>3 DEF Returns, Sets, locals
  <2>2. flag' \subseteq FD  BY DEF FdInv, FdTypes, FdTypeOK
  <2>3. QED  BY <2>1, <2>2, CallEnds
<1>4. QED  BY <1>2, <1>3

LEMMA CalledKeeps ==
  ASSUME FdInv, NEW fn \in {"select", "poll"}, NEW req \in Requests, NEW t \in Timeouts,
         Called(fn, req, t)
  PROVE  FdInv'
<1>1. req \in Sets /\ t \in Nat  BY FdAssumption DEF Sets
<1>2. call' = [fn |-> fn, req |-> req, tmout |-> t]  BY DEF Called
<1>3. QED  BY <1>1, <1>2, PassStarts DEF Called

LEMMA CheckKeeps ==
  ASSUME FdInv, Check
  PROVE  FdInv'
<1> DEFINE f == fdPc.fd
           toRead == f \in evts.read
           isReadable == toRead /\ len[f] > 0
<1>1. /\ f \in FD /\ fdPc.at = "check" /\ window \in [FD -> Nat] /\ len \in [FD -> Nat]
      /\ readevt \in [FD -> Nat] /\ writeevt \in [FD -> Nat] /\ FdTypeOK
      /\ ready \in Sets
  BY DEF FdInv, FdTypes, Check
<1>2. /\ waitptn' \in {waitptn, waitptn \cup {f}}
      /\ evts = Nothing => waitptn' = waitptn
      /\ ready'.read = (IF isReadable THEN ready.read \cup {f} ELSE ready.read)
      /\ ready' \in Sets
      /\ UNCHANGED <<window, call, evts, answer>>
  <2>1. UNCHANGED <<window, call, evts, answer>>  BY DEF Check
  <2>2. waitptn' \in {waitptn, waitptn \cup {f}} /\ (evts = Nothing => waitptn' = waitptn)
    BY DEF Check, tcp_fd_readable, Nothing
  <2>3. ready' = [ready EXCEPT !.read = ready'.read, !.write = ready'.write]
    BY <1>1 DEF Check, Sets
  <2>4. ready'.read = (IF isReadable THEN ready.read \cup {f} ELSE ready.read)
    BY <1>1 DEF Check, tcp_fd_readable, Sets
  <2>5. ready'.read \subseteq FD /\ ready'.write \subseteq FD
    BY <1>1 DEF Check, Sets
  <2>6. ready' \in Sets  BY <1>1, <2>3, <2>5 DEF Sets
  <2>7. QED  BY <2>1, <2>2, <2>4, <2>6
<1>3. /\ fdPc' \in [at : FdPlaces, fd : FD]
      /\ \/ fdPc'.at = "check" /\ fdPc'.fd = f + 1
         \/ fdPc'.at = "decide" /\ f = LASTFD
  BY <1>1, FdAssumption DEF Check, Next_fd, At, FdPlaces, FD
<1>4. /\ writeevt' = [writeevt EXCEPT ![f] = 1] \/ writeevt' = writeevt
  BY <1>1 DEF Check
<1>5. /\ FdTypeOK' /\ len' \in [FD -> Nat] /\ readevt' \in [FD -> Nat]
      /\ \A g \in FD : len'[g] >= len[g]
      /\ flag \cup receiving \subseteq flag' \cup receiving'
      /\ toRead /\ ~ isReadable => f \in flag' \cup receiving'
  <2>1. CASE toRead /\ ~ isReadable /\ f \notin receiving /\ window[f] > 0
    <3>1. /\ len' = [len EXCEPT ![f] = @ + window[f]]
          /\ readevt' = [readevt EXCEPT ![f] = IF @ = 0 THEN 1 ELSE @]
          /\ flag' = flag \cup {f} /\ receiving' = receiving
      BY <2>1 DEF Check, ReceiveNonBlocking, socket_tcp_callback, tcp_fd_readable
    <3>2. len[f] = 0  BY <1>1, <2>1
    <3>3. \A g \in FD : /\ len'[g] \in 0 .. window'[g] /\ readevt'[g] \in 0 .. 1
                        /\ readevt'[g] = 1 => len'[g] > 0
      BY <1>1, <1>2, <2>1, <3>1, <3>2 DEF FdTypeOK
    <3>4. \A g \in FD : writeevt'[g] \in 0 .. 1  BY <1>1, <1>4 DEF FdTypeOK
    <3>5. FdTypeOK'  BY <1>1, <1>2, <3>1, <3>3, <3>4 DEF FdTypeOK
    <3>6. QED  BY <1>1, <2>1, <3>1, <3>2, <3>5
  <2>2. CASE toRead /\ ~ isReadable /\ ~ (f \notin receiving /\ window[f] > 0)
    <3>1. receiving' = receiving \cup {f} /\ UNCHANGED <<len, readevt, flag>>
      BY <2>2 DEF Check, ReceiveNonBlocking, tcp_fd_readable
    <3>2. FdTypeOK'  BY <1>1, <1>2, <1>4, <2>2, <3>1 DEF FdTypeOK
    <3>3. QED  BY <1>1, <2>2, <3>1, <3>2
  <2>3. CASE ~ (toRead /\ ~ isReadable)
    <3>1. /\ readevt' = [readevt EXCEPT ![f] = IF isReadable /\ @ = 0 THEN 1 ELSE @]
          /\ UNCHANGED <<receiving, len, flag>>
      BY <2>3 DEF Check, tcp_fd_readable
    <3>2. FdTypeOK'  BY <1>1, <1>2, <1>4, <3>1 DEF FdTypeOK
    <3>3. QED  BY <1>1, <2>3, <3>1, <3>2
  <2>4. QED  BY <2>1, <2>2, <2>3
<1>6. writeevt' \in [FD -> Nat]  BY <1>1, <1>4
<1> HIDE DEF f
<1>7. FdTypes'  BY <1>1, <1>2, <1>3, <1>5, <1>6 DEF FdInv, FdTypes
<1>8. ReportedHasData'
  BY <1>1, <1>2, <1>5 DEF FdInv, FdTypes, ReportedHasData
<1>9. SetsOfPass'  BY <1>1, <1>2, <1>3 DEF FdInv, SetsOfPass
<1>10. FoundHasData'  BY <1>1, <1>2, <1>3, <1>5 DEF FdInv, FoundHasData, Sets
<1>11. WillBeTold'
  <2>1. /\ \A g \in evts.read : g \in Nat /\ g <= LASTFD
        /\ f \in Nat /\ LASTFD \in Nat
    BY <1>1, FdAssumption DEF FdInv, FdTypes, Sets, FD
  <2>2. ASSUME NEW g \in evts.read \ ready'.read, g < f \/ g = f
        PROVE  g \in flag' \cup receiving'
    <3>1. CASE g = f  BY <1>2, <1>5, <2>2, <3>1
    <3>2. CASE g < f  BY <1>1, <1>2, <1>5, <2>2, <3>2 DEF FdInv, WillBeTold, f
    <3>3. QED  BY <2>2, <3>1, <3>2
  <2>3. CASE fdPc'.at = "check" /\ fdPc'.fd = f + 1
    <3>1. \A g \in evts.read : g < f + 1 => g < f \/ g = f  BY <2>1
    <3>2. \A g \in evts'.read \ ready'.read : g < fdPc'.fd => g \in flag' \cup receiving'
      BY <1>2, <2>2, <2>3, <3>1
    <3>3. QED  BY <2>3, <3>2 DEF WillBeTold
  <2>4. CASE fdPc'.at = "decide" /\ f = LASTFD
    <3>1. \A g \in evts.read : g < f \/ g = f  BY <2>1, <2>4
    <3>2. \A g \in evts'.read \ ready'.read : g \in flag' \cup receiving'
      BY <1>2, <2>2, <3>1
    <3>3. QED  BY <2>4, <3>2 DEF WillBeTold
  <2>5. QED  BY <1>3, <2>3, <2>4
<1>12. QED  BY <1>7, <1>8, <1>9, <1>10, <1>11 DEF FdInv

LEMMA DecideKeeps ==
  ASSUME FdInv, Decide
  PROVE  FdInv'
<1>1. CASE waitptn = {}
  BY <1>1, ReturnsKeeps DEF Decide, FdInv, FdTypes, FoundHasData
<1>2. CASE waitptn # {}
  <2>1. /\ fdPc.at = "decide" /\ fdPc'.at = "wait" /\ fdPc' \in [at : FdPlaces, fd : FD]
        /\ flag' = flag \cup ready.read \cup ready.write /\ evts' = Nothing
        /\ UNCHANGED <<call, waitptn, ready, answer>>
        /\ UNCHANGED <<window, receiving, len, readevt, writeevt>>
    BY <1>2, FdAssumption DEF Decide, At, FdPlaces, FD, socket
  <2>2. Nothing \in Sets  BY DEF Nothing, Sets
  <2>3. FdTypeOK'  BY <2>1 DEF FdInv, FdTypes, FdTypeOK, Sets
  <2>4. FdTypes'  BY <2>1, <2>2, <2>3 DEF FdInv, FdTypes
  <2>5. WillBeTold'
    <3>1. evts = call.req  BY <1>2, <2>1 DEF FdInv, SetsOfPass
    <3>2. QED  BY <2>1, <3>1 DEF FdInv, WillBeTold
  <2>6. QED
    BY <2>1, <2>4, <2>5 DEF FdInv, SetsOfPass, FoundHasData, ReportedHasData
<1>3. QED  BY <1>1, <1>2

\* The steps of the wait.
LEMMA WaitKeeps ==
  ASSUME FdInv, WaitEnds \/ WaitTimesOut \/ Clear
  PROVE  FdInv'
<1>1. /\ fdPc' \in [at : FdPlaces, fd : FD]
      /\ UNCHANGED <<socket, call, evts, waitptn, ready, answer>>
      /\ \/ fdPc.at = "wait" /\ fdPc'.at \in {"clear", "collect"}
         \/ fdPc.at = "clear" /\ fdPc'.at = "collect"
      /\ flag' \subseteq flag
  BY FdAssumption DEF WaitEnds, WaitTimesOut, Clear, At, FdPlaces, FD, locals
<1>2. UNCHANGED <<window, receiving, len, readevt, writeevt>>  BY <1>1 DEF socket
<1>3. FdTypeOK'  BY <1>1, <1>2 DEF FdInv, FdTypes, FdTypeOK
<1>4. FdTypes'  BY <1>1, <1>2, <1>3 DEF FdInv, FdTypes
<1>5. Nothing.read = {} /\ Nothing.error = {}  BY DEF Nothing
<1>6. QED
  BY <1>1, <1>2, <1>4, <1>5 DEF FdInv, SetsOfPass, FoundHasData, WillBeTold, ReportedHasData

LEMMA FailKeeps ==
  ASSUME FdInv, NEW r \in {"zero", "error"}, ReturnError(r), UNCHANGED <<socket, flag>>
  PROVE  FdInv'
<1>1. answer' = [ret |-> r, read |-> {}]  BY DEF ReturnError, NoAnswer
<1>2. flag' \subseteq FD  BY DEF FdInv, FdTypes, FdTypeOK
<1>3. /\ answer' \in [ret : {"none", "zero", "some", "error"}, read : SUBSET FD]
      /\ \A f \in answer'.read : len[f] > 0
  BY <1>1
<1>4. fdPc' = At("idle", 0) /\ UNCHANGED <<call, locals>>  BY DEF ReturnError
<1>5. QED  BY <1>2, <1>3, <1>4, CallEnds

LEMMA CollectKeeps ==
  ASSUME FdInv, Collect
  PROVE  FdInv'
<1> DEFINE f == fdPc.fd
           hasRead == f \in waitptn /\ readevt[f] # 0
           hasWrite == f \in waitptn /\ writeevt[f] # 0
<1>1. /\ f \in FD /\ fdPc.at = "collect" /\ readevt \in [FD -> Nat] /\ writeevt \in [FD -> Nat]
      /\ FdTypeOK /\ evts \in Sets
  BY DEF FdInv, FdTypes, Collect
<1>2. /\ readevt' = [readevt EXCEPT ![f] = IF hasRead THEN @ - 1 ELSE @]
      /\ writeevt' = [writeevt EXCEPT ![f] = IF hasWrite THEN @ - 1 ELSE @]
      /\ UNCHANGED <<window, receiving, len, flag, call, waitptn, ready, answer>>
  BY DEF Collect
<1>3. /\ evts' \in Sets /\ evts'.error = evts.error
      /\ evts'.read = (IF hasRead THEN evts.read \cup {f} ELSE evts.read)
  BY <1>1 DEF Collect, Sets
<1>4. fdPc' \in [at : FdPlaces, fd : FD] /\ fdPc'.at \in {"collect", "done"}
  BY <1>1, FdAssumption DEF Collect, Next_fd, At, FdPlaces, FD
<1>5. hasRead => len[f] > 0  BY <1>1 DEF FdTypeOK
<1> HIDE DEF f
<1>6. FdTypeOK'  BY <1>1, <1>2 DEF FdTypeOK
<1>7. FdTypes'  BY <1>1, <1>2, <1>3, <1>4, <1>6 DEF FdInv, FdTypes, FdTypeOK
<1>8. FoundHasData'  BY <1>1, <1>2, <1>3, <1>4, <1>5 DEF FdInv, FoundHasData
<1>9. QED
  BY <1>1, <1>2, <1>3, <1>4, <1>7, <1>8 DEF FdInv, SetsOfPass, WillBeTold, ReportedHasData

LEMMA DoneKeeps ==
  ASSUME FdInv, NEW elapse \in 0 .. TMO_FEVR, Done(elapse)
  PROVE  FdInv'
<1> DEFINE n == Cardinality(evts.read) + Cardinality(evts.write)
<1>1. fdPc.at = "done" /\ UNCHANGED <<socket, flag>> /\ evts \in Sets /\ evts.error = {}
  BY DEF Done, FdInv, FdTypes, SetsOfPass
<1>2. CASE n > 0 /\ Returns(evts, n)
  BY <1>1, <1>2, ReturnsKeeps DEF FdInv, FoundHasData
<1>3. CASE ReturnError("zero")
  BY <1>1, <1>3, FailKeeps
<1>4. CASE n = 0 /\ Pass(evts) /\ UNCHANGED <<call, answer>>
  <2>1. IsFiniteSet(FD)
    <3>1. 0 \in Int /\ LASTFD \in Int  BY FdAssumption
    <3>2. IsFiniteSet(0 .. LASTFD)  BY <3>1, FS_Interval
    <3>3. QED  BY <3>2 DEF FD
  <2>2. IsFiniteSet(evts.read) /\ IsFiniteSet(evts.write)  BY <1>1, <2>1, FS_Subset DEF Sets
  <2>3. Cardinality(evts.read) \in Nat /\ Cardinality(evts.write) \in Nat
    BY <2>2, FS_CardinalityType
  <2>4. Cardinality(evts.read) = 0 /\ Cardinality(evts.write) = 0  BY <1>4, <2>3
  <2>5. evts.read = {} /\ evts.write = {}  BY <2>2, <2>4, FS_EmptySet
  <2>6. evts = Nothing  BY <1>1, <2>5 DEF Sets, Nothing
  <2>7. QED  BY <1>1, <1>4, <2>6, PassStarts DEF FdInv, FdTypes
<1>5. QED  BY <1>2, <1>3, <1>4 DEF Done

LEMMA FdKeeps ==
  ASSUME FdInv, [FdNext]_fdvars
  PROVE  FdInv'
<1>1. CASE UNCHANGED fdvars
  <2>1. UNCHANGED <<window, receiving, len, readevt, writeevt, flag, fdPc, call, evts, waitptn,
                    ready, answer>>
    BY <1>1 DEF fdvars, socket, locals
  <2>2. FdTypeOK'  BY <2>1 DEF FdInv, FdTypes, FdTypeOK
  <2>3. FdTypes'  BY <2>1, <2>2 DEF FdInv, FdTypes
  <2>4. QED
    BY <2>1, <2>3 DEF FdInv, SetsOfPass, FoundHasData, WillBeTold, ReportedHasData
<1>2. CASE WaitFails
  BY <1>2, FailKeeps DEF WaitFails
<1>3. CASE Caller
  BY <1>2, <1>3, CheckKeeps, DecideKeeps, WaitKeeps, CollectKeeps, DoneKeeps DEF Caller
<1>4. QED
  BY <1>1, <1>3, ArriveKeeps, ReadKeeps, SendKeeps, CalledKeeps DEF FdNext

\* No wake-up of a select or poll is lost, and a descriptor that one of them reports as
\* readable has data (shell_get_evts of fdtable.c, tcp_fd_readable of socket_stub.c), for
\* all sets of descriptors, timeouts and amounts of data.
THEOREM SelectLosesNothing == FdSpec => []SelectOK
<1>1. FdInit => FdInv  BY FdStarts
<1>2. FdInv /\ [FdNext]_fdvars => FdInv'  BY FdKeeps
<1>3. FdInv => SelectOK
  BY DEF FdInv, FdTypes, FdTypeOK, WillBeTold, NoLostWakeup, SelectOK
<1>4. QED  BY <1>1, <1>2, <1>3, PTL DEF FdSpec

----------------------------------------------------------------------------
(* The commands of the shell.                                              *)

ShellPlaces == {"prompt", "execute", "sleep", "act", "read", "reading", "check", "clean",
           "closing", "delete", "freed", "delWait", "delIn", "delOut", "next",
           "dormant", "ready", "run", "new", "newIn", "newOut", "alloc", "done", "ended"}

\* The command's task does not touch the table of descriptors.
Quiet == {"dormant", "ready", "ended"}

\* shellcmd_state tells where the command is.
StateTells ==
  /\ at[CMD] \notin Quiet => state = 1
  /\ at[CMD] = "ready" => state = 0 /\ used = {}
  /\ at[CMD] = "ended" => state = 2
  /\ at[CMD] # "dormant" => cut = "none"

\* The shell starts a command when there is no other; one that has not begun is met by a
\* shell that has nothing to close.
OneCommand ==
  /\ at[SHELL] \in {"sleep", "act"} => at[CMD] = "dormant"
  /\ at[SHELL] \in Cleaning /\ dest = "act" => at[CMD] = "dormant"
  /\ at[SHELL] \in Cleaning \ {"clean", "next"} => at[CMD] # "ready"
  /\ CleanAlone

\* The descriptors that clean_fd has passed are free.
Cleaned ==
  /\ at[SHELL] \in Cleaning => \A f \in used : fd[SHELL] <= f
  /\ at[SHELL] \in {"delOut", "next"} => fd[SHELL] \notin used
  /\ at[SHELL] = "act" => used = {}

\* Between the places of new_fp and delete_fp, an entry in use has its object.
Emptied == {"freed", "delWait", "delIn"}
Half == {"newOut", "alloc"} \cup Emptied
TableFilled ==
  /\ \A f \in used : \/ exinf[f] = "live" \/ cut \in Half
                     \/ fd[CMD] = f /\ at[CMD] \in Half
                     \/ fd[SHELL] = f /\ at[SHELL] \in Emptied
  /\ \A p \in Task : at[p] = "closing" => fd[p] \in used
  /\ at[CMD] \in {"newOut", "alloc"} => fd[CMD] \in used

\* Where the command deletes a descriptor, its own or one of clean_fd.
Deleting == {"closing", "delete", "freed", "delWait", "delIn", "delOut"}
Owned ==
  full \/ /\ \A f \in Fd : held[f] \in {0, 1}
          /\ \/ at[CMD] \in {"ready", "run", "new", "newIn", "newOut", "alloc"}
             \/ at[CMD] \in Deleting /\ after = "run"
             => \A f \in Fd : held[f] = 1 => f \in used
          /\ \/ at[CMD] \in {"newOut", "alloc"}
             \/ at[CMD] \in Deleting /\ after = "run"
             => held[fd[CMD]] = 0

ShellInv ==
  /\ ShellTypeOK /\ at \in [Task -> ShellPlaces]
  /\ SemaphoreKept /\ StateTells /\ OneCommand /\ Cleaned /\ TableFilled /\ Owned

LEMMA LeastOf ==
  ASSUME NEW S \in SUBSET Nat, S # {}
  PROVE  \E x \in S : \A y \in S : x <= y
<1>1. IsWellFoundedOn(OpToRel(<, Nat), Nat)  BY NatLessThanWellFounded
<1>2. PICK x \in S : \A y \in S : <<y, x>> \notin OpToRel(<, Nat)
  BY <1>1, WFMin, Zenon
<1>3. \A y \in S : ~ (y < x)  BY <1>2 DEF OpToRel
<1>4. QED  BY <1>3

\* new_fp takes a free descriptor, and the last one when there is none.
LEMMA NewDescriptor ==
  ASSUME ShellTypeOK, new_fp(CMD)
  PROVE  \E f \in Fd : /\ fd' = [fd EXCEPT ![CMD] = f] /\ used' = used \cup {f}
                       /\ Fd \ used # {} => f \notin used /\ exinf' = [exinf EXCEPT ![f] = "null"]
                       /\ Fd \ used = {} => exinf' = exinf
<1> DEFINE free == Fd \ used
           f == IF free = {} THEN LAST ELSE CHOOSE x \in free : \A y \in free : x <= y
<1> free \in SUBSET Nat  BY ShellAssumption DEF Fd
<1>1. free # {} => \E x \in free : \A y \in free : x <= y
  <2> HIDE DEF free
  <2> QED  BY LeastOf
<1>2. free # {} => f \in free  BY <1>1
<1>3. f \in Fd  BY <1>2, ShellAssumption DEF Fd
<1>4. /\ fd' = [fd EXCEPT ![CMD] = f] /\ used' = used \cup {f}
      /\ exinf' = [exinf EXCEPT ![f] = IF free = {} THEN @ ELSE "null"]
  BY DEF new_fp
<1> HIDE DEF f
<1>5. free = {} => exinf' = exinf  BY <1>3, <1>4 DEF ShellTypeOK
<1>6. QED  BY <1>2, <1>3, <1>4, <1>5

LEMMA InputRead ==
  ASSUME ShellTypeOK, input # <<>>
  PROVE  Tail(input) \in Seq(Char) /\ Len(Tail(input)) <= MAXINPUT
<1>1. input \in Seq(Char) /\ Len(input) <= MAXINPUT /\ MAXINPUT \in Nat
  BY ShellAssumption DEF ShellTypeOK
<1>2. Tail(input) \in Seq(Char) /\ Len(Tail(input)) = Len(input) - 1  BY <1>1
<1>3. QED  BY <1>1, <1>2

LEMMA ShellStarts ==
  ASSUME ShellInit
  PROVE  ShellInv
<1> USE ShellAssumption DEF ShellInit, Task
<1>1. at \in [Task -> ShellPlaces] /\ at[SHELL] = "prompt" /\ at[CMD] = "dormant"
  BY DEF ShellPlaces
<1>2. fd \in [Task -> Fd]  BY DEF Fd
<1>3. ShellTypeOK
  <2>1. event \in BOOLEAN /\ full \in BOOLEAN  OBVIOUS
  <2>2. input \in Seq(Char) /\ Len(input) <= MAXINPUT  OBVIOUS
  <2>3. used \subseteq Fd /\ exinf \in [Fd -> {"null", "live", "freed"}] /\ held \in [Fd -> 0 .. 2]
    OBVIOUS
  <2>4. QED  BY <1>1, <1>2, <2>1, <2>2, <2>3 DEF ShellTypeOK
<1>4. SemaphoreKept /\ StateTells  BY <1>1 DEF SemaphoreKept, StateTells, Quiet
<1>5. OneCommand /\ Cleaned  BY <1>1 DEF OneCommand, Cleaned, Cleaning, CleanAlone
<1>6. TableFilled /\ Owned
  <2>1. \A p \in Task : at[p] # "closing"  OBVIOUS
  <2>2. TableFilled  BY <1>1, <2>1 DEF TableFilled
  <2>3. \A f \in Fd : held[f] = 0  OBVIOUS
  <2>4. at[CMD] \notin {"ready", "run", "new", "newIn", "newOut", "alloc"} \cup Deleting
    BY <1>1 DEF Deleting
  <2>5. Owned  BY <2>3, <2>4 DEF Owned
  <2>6. QED  BY <2>2, <2>5
<1>7. QED  BY <1>1, <1>3, <1>4, <1>5, <1>6 DEF ShellInv

\* What both tasks do with a descriptor.
LEMMA DescriptorsKeep ==
  ASSUME ShellInv, NEW p \in Task, Descriptors(p)
  PROVE  ShellInv'
<1> USE ShellAssumption DEF ShellInv, MayRun, ShellWaits, Go, Return, StartCleaning, ter_tsk,
         table, control, history, Task, Quiet, Cleaning, CleanAlone, OneCommand, StateTells
<1>1. CASE delete_fp(p)
  <2>1. SemaphoreKept' /\ StateTells' /\ OneCommand'
    <3>1. SemaphoreKept'  BY <1>1 DEF SemaphoreKept, Inside, delete_fp
    <3>2. StateTells'  BY <1>1 DEF ShellTypeOK, Cleaned, delete_fp
    <3>3. OneCommand'  BY <1>1 DEF ShellTypeOK, Cleaned, delete_fp
    <3>4. QED  BY <3>1, <3>2, <3>3
  <2>2. Cleaned'
    BY <1>1 DEF Cleaned, ShellTypeOK, Fd, delete_fp
  <2>3. TableFilled' /\ Owned'
    BY <1>1 DEF TableFilled, Owned, Half, Emptied, Deleting, ShellTypeOK, delete_fp
  <2>4. ShellTypeOK' /\ at' \in [Task -> ShellPlaces]
    <3>1. event' \in BOOLEAN /\ full' \in BOOLEAN  BY <1>1 DEF ShellTypeOK, delete_fp
    <3>2. input' \in Seq(Char) /\ Len(input') <= MAXINPUT  BY <1>1 DEF ShellTypeOK, delete_fp
    <3>3. held' \in [Fd -> 0 .. 2]  BY <1>1 DEF ShellTypeOK, delete_fp
    <3>4. at' \in [Task -> ShellPlaces]  BY <1>1 DEF ShellTypeOK, ShellPlaces, delete_fp
    <3>5. QED  BY <1>1, <3>1, <3>2, <3>3, <3>4 DEF ShellTypeOK, Fd, delete_fp
  <2>5. QED  BY <2>1, <2>2, <2>3, <2>4
<1>2. CASE ClearPointer(p)
  <2>1. SemaphoreKept' /\ StateTells' /\ OneCommand'
    BY <1>2 DEF SemaphoreKept, Inside, ClearPointer
  <2>2. Cleaned'
    BY <1>2 DEF Cleaned, ShellTypeOK, Fd, ClearPointer
  <2>3. TableFilled' /\ Owned'
    BY <1>2 DEF TableFilled, Owned, Half, Emptied, Deleting, ShellTypeOK, ClearPointer
  <2>4. ShellTypeOK' /\ at' \in [Task -> ShellPlaces]
    BY <1>2 DEF ShellTypeOK, ShellPlaces, Fd, ClearPointer
  <2>5. QED  BY <2>1, <2>2, <2>3, <2>4
<1>3. CASE ClearEntry(p)
  <2>1. SemaphoreKept' /\ StateTells' /\ OneCommand'
    BY <1>3 DEF SemaphoreKept, Inside, ClearEntry
  <2>2. Cleaned'
    BY <1>3 DEF Cleaned, ShellTypeOK, Fd, ClearEntry
  <2>3. TableFilled' /\ Owned'
    BY <1>3 DEF TableFilled, Owned, Half, Emptied, Deleting, ShellTypeOK, ClearEntry
  <2>4. ShellTypeOK' /\ at' \in [Task -> ShellPlaces]
    BY <1>3 DEF ShellTypeOK, ShellPlaces, Fd, ClearEntry
  <2>5. QED  BY <2>1, <2>2, <2>3, <2>4
<1>4. CASE Closed(p)
  <2>1. SemaphoreKept' /\ StateTells' /\ OneCommand'
    BY <1>4 DEF SemaphoreKept, Inside, Closed
  <2>2. Cleaned'
    BY <1>4 DEF Cleaned, ShellTypeOK, Fd, Closed
  <2>3. TableFilled' /\ Owned'
    BY <1>4 DEF TableFilled, Owned, Half, Emptied, Deleting, ShellTypeOK, Closed
  <2>4. ShellTypeOK' /\ at' \in [Task -> ShellPlaces]
    BY <1>4 DEF ShellTypeOK, ShellPlaces, Fd, Closed
  <2>5. QED  BY <2>1, <2>2, <2>3, <2>4
<1>5. CASE clean_fd(p)
  <2>1. SemaphoreKept' /\ StateTells' /\ OneCommand'
    BY <1>5 DEF SemaphoreKept, Inside, clean_fd
  <2>2. Cleaned'
    BY <1>5 DEF Cleaned, ShellTypeOK, Fd, clean_fd
  <2>3. TableFilled' /\ Owned'
    BY <1>5 DEF TableFilled, Owned, Half, Emptied, Deleting, ShellTypeOK, clean_fd
  <2>4. ShellTypeOK' /\ at' \in [Task -> ShellPlaces]
    BY <1>5 DEF ShellTypeOK, ShellPlaces, Fd, clean_fd
  <2>5. QED  BY <2>1, <2>2, <2>3, <2>4
<1>6. CASE Enter(p, "delWait", "delIn")
  <2>1. SemaphoreKept' /\ StateTells' /\ OneCommand'
    BY <1>6 DEF SemaphoreKept, Inside, Enter
  <2>2. Cleaned'
    BY <1>6 DEF Cleaned, ShellTypeOK, Fd, Enter
  <2>3. TableFilled' /\ Owned'
    BY <1>6 DEF TableFilled, Owned, Half, Emptied, Deleting, ShellTypeOK, Enter
  <2>4. ShellTypeOK' /\ at' \in [Task -> ShellPlaces]
    BY <1>6 DEF ShellTypeOK, ShellPlaces, Fd, Enter
  <2>5. QED  BY <2>1, <2>2, <2>3, <2>4
<1>7. CASE Leave(p, "delOut", Return(p))
  <2>1. SemaphoreKept' /\ StateTells' /\ OneCommand'
    <3>1. SemaphoreKept'  BY <1>7 DEF SemaphoreKept, Inside, Leave
    <3>2. StateTells'  BY <1>7 DEF ShellTypeOK, Cleaned, Leave
    <3>3. OneCommand'  BY <1>7 DEF ShellTypeOK, Cleaned, Leave
    <3>4. QED  BY <3>1, <3>2, <3>3
  <2>2. Cleaned'
    BY <1>7 DEF Cleaned, ShellTypeOK, Fd, Leave
  <2>3. TableFilled' /\ Owned'
    BY <1>7 DEF TableFilled, Owned, Half, Emptied, Deleting, ShellTypeOK, Leave
  <2>4. ShellTypeOK' /\ at' \in [Task -> ShellPlaces]
    BY <1>7 DEF ShellTypeOK, ShellPlaces, Fd, Leave
  <2>5. QED  BY <2>1, <2>2, <2>3, <2>4
<1>8. QED  BY <1>1, <1>2, <1>3, <1>4, <1>5, <1>6, <1>7 DEF Descriptors

\* What the command does.
LEMMA CommandKeeps ==
  ASSUME ShellInv, Command
  PROVE  ShellInv'
<1> USE ShellAssumption DEF ShellInv, MayRun, ShellWaits, Go, Return, StartCleaning, ter_tsk,
         table, control, history, Task, Quiet, Cleaning, CleanAlone, OneCommand, StateTells
<1>1. CASE shellcmd_task
  <2>1. SemaphoreKept' /\ StateTells' /\ OneCommand'
    BY <1>1 DEF SemaphoreKept, Inside, shellcmd_task
  <2>2. Cleaned'
    BY <1>1 DEF Cleaned, ShellTypeOK, Fd, shellcmd_task
  <2>3. TableFilled' /\ Owned'
    BY <1>1 DEF TableFilled, Owned, Half, Emptied, Deleting, ShellTypeOK, shellcmd_task
  <2>4. ShellTypeOK' /\ at' \in [Task -> ShellPlaces]
    BY <1>1 DEF ShellTypeOK, ShellPlaces, Fd, shellcmd_task
  <2>5. QED  BY <2>1, <2>2, <2>3, <2>4
<1>2. CASE shell_open
  <2>1. SemaphoreKept' /\ StateTells' /\ OneCommand'
    BY <1>2 DEF SemaphoreKept, Inside, shell_open
  <2>2. Cleaned'
    BY <1>2 DEF Cleaned, ShellTypeOK, Fd, shell_open
  <2>3. TableFilled' /\ Owned'
    BY <1>2 DEF TableFilled, Owned, Half, Emptied, Deleting, ShellTypeOK, shell_open
  <2>4. ShellTypeOK' /\ at' \in [Task -> ShellPlaces]
    BY <1>2 DEF ShellTypeOK, ShellPlaces, Fd, shell_open
  <2>5. QED  BY <2>1, <2>2, <2>3, <2>4
<1>3. CASE shell_open_found
  <2>1. SemaphoreKept' /\ StateTells' /\ OneCommand'
    BY <1>3 DEF SemaphoreKept, Inside, shell_open_found
  <2>2. Cleaned'
    BY <1>3 DEF Cleaned, ShellTypeOK, Fd, shell_open_found
  <2>3. TableFilled' /\ Owned'
    BY <1>3 DEF TableFilled, Owned, Half, Emptied, Deleting, ShellTypeOK, shell_open_found
  <2>4. ShellTypeOK' /\ at' \in [Task -> ShellPlaces]
    <3>1. event' \in BOOLEAN /\ full' \in BOOLEAN  BY <1>3 DEF ShellTypeOK, shell_open_found
    <3>2. input' \in Seq(Char) /\ Len(input') <= MAXINPUT  BY <1>3 DEF ShellTypeOK, shell_open_found
    <3>3. held' \in [Fd -> 0 .. 2]  BY <1>3 DEF ShellTypeOK, shell_open_found
    <3>4. at' \in [Task -> ShellPlaces]  BY <1>3 DEF ShellTypeOK, ShellPlaces, shell_open_found
    <3>5. QED  BY <1>3, <3>1, <3>2, <3>3, <3>4 DEF ShellTypeOK, Fd, shell_open_found
  <2>5. QED  BY <2>1, <2>2, <2>3, <2>4
<1>4. CASE shell_open_fails
  <2>1. SemaphoreKept' /\ StateTells' /\ OneCommand'
    BY <1>4 DEF SemaphoreKept, Inside, shell_open_fails
  <2>2. Cleaned'
    BY <1>4 DEF Cleaned, ShellTypeOK, Fd, shell_open_fails
  <2>3. TableFilled' /\ Owned'
    BY <1>4 DEF TableFilled, Owned, Half, Emptied, Deleting, ShellTypeOK, shell_open_fails
  <2>4. ShellTypeOK' /\ at' \in [Task -> ShellPlaces]
    BY <1>4 DEF ShellTypeOK, ShellPlaces, Fd, shell_open_fails
  <2>5. QED  BY <2>1, <2>2, <2>3, <2>4
<1>5. ASSUME NEW f \in Fd, shell_close(f)  PROVE ShellInv'
  <2>1. SemaphoreKept' /\ StateTells' /\ OneCommand'
    BY <1>5 DEF SemaphoreKept, Inside, shell_close
  <2>2. Cleaned'
    BY <1>5 DEF Cleaned, ShellTypeOK, Fd, shell_close
  <2>3. TableFilled' /\ Owned'
    BY <1>5 DEF TableFilled, Owned, Half, Emptied, Deleting, ShellTypeOK, shell_close
  <2>4. ShellTypeOK' /\ at' \in [Task -> ShellPlaces]
    BY <1>5 DEF ShellTypeOK, ShellPlaces, Fd, shell_close
  <2>5. QED  BY <2>1, <2>2, <2>3, <2>4
<1>6. CASE CommandReturns
  <2>1. SemaphoreKept' /\ StateTells' /\ OneCommand'
    BY <1>6 DEF SemaphoreKept, Inside, CommandReturns
  <2>2. Cleaned'
    BY <1>6 DEF Cleaned, ShellTypeOK, Fd, CommandReturns
  <2>3. TableFilled' /\ Owned'
    BY <1>6 DEF TableFilled, Owned, Half, Emptied, Deleting, ShellTypeOK, CommandReturns
  <2>4. ShellTypeOK' /\ at' \in [Task -> ShellPlaces]
    BY <1>6 DEF ShellTypeOK, ShellPlaces, Fd, CommandReturns
  <2>5. QED  BY <2>1, <2>2, <2>3, <2>4
<1>7. CASE CommandDone
  <2>1. SemaphoreKept' /\ StateTells' /\ OneCommand'
    BY <1>7 DEF SemaphoreKept, Inside, CommandDone
  <2>2. Cleaned'
    BY <1>7 DEF Cleaned, ShellTypeOK, Fd, CommandDone
  <2>3. TableFilled' /\ Owned'
    BY <1>7 DEF TableFilled, Owned, Half, Emptied, Deleting, ShellTypeOK, CommandDone
  <2>4. ShellTypeOK' /\ at' \in [Task -> ShellPlaces]
    BY <1>7 DEF ShellTypeOK, ShellPlaces, Fd, CommandDone
  <2>5. QED  BY <2>1, <2>2, <2>3, <2>4
<1>8. CASE ext_tsk
  <2>1. SemaphoreKept' /\ StateTells' /\ OneCommand'
    BY <1>8 DEF SemaphoreKept, Inside, ext_tsk
  <2>2. Cleaned'
    BY <1>8 DEF Cleaned, ShellTypeOK, Fd, ext_tsk
  <2>3. TableFilled' /\ Owned'
    BY <1>8 DEF TableFilled, Owned, Half, Emptied, Deleting, ShellTypeOK, ext_tsk
  <2>4. ShellTypeOK' /\ at' \in [Task -> ShellPlaces]
    BY <1>8 DEF ShellTypeOK, ShellPlaces, Fd, ext_tsk
  <2>5. QED  BY <2>1, <2>2, <2>3, <2>4
<1>9. CASE Enter(CMD, "new", "newIn")
  <2>1. SemaphoreKept' /\ StateTells' /\ OneCommand'
    BY <1>9 DEF SemaphoreKept, Inside, Enter
  <2>2. Cleaned'
    BY <1>9 DEF Cleaned, ShellTypeOK, Fd, Enter
  <2>3. TableFilled' /\ Owned'
    BY <1>9 DEF TableFilled, Owned, Half, Emptied, Deleting, ShellTypeOK, Enter
  <2>4. ShellTypeOK' /\ at' \in [Task -> ShellPlaces]
    BY <1>9 DEF ShellTypeOK, ShellPlaces, Fd, Enter
  <2>5. QED  BY <2>1, <2>2, <2>3, <2>4
<1>10. CASE new_fp(CMD)
  <2>6. PICK f \in Fd : /\ fd' = [fd EXCEPT ![CMD] = f] /\ used' = used \cup {f}
                        /\ Fd \ used # {} => f \notin used /\ exinf' = [exinf EXCEPT ![f] = "null"]
                        /\ Fd \ used = {} => exinf' = exinf
    BY <1>10, NewDescriptor
  <2>7. /\ at[CMD] = "newIn" /\ at' = [at EXCEPT ![CMD] = "newOut"] /\ ShellWaits
        /\ UNCHANGED <<input, event, state, sem, after, dest, held, cut, inside>>
    BY <1>10 DEF new_fp
  <2>8. full' = (full \/ Fd \ used = {})  BY <1>10 DEF new_fp
  <2>1. SemaphoreKept' /\ StateTells' /\ OneCommand'
    BY <2>6, <2>7 DEF SemaphoreKept, Inside, ShellTypeOK
  <2>2. Cleaned'
    BY <2>6, <2>7 DEF Cleaned, ShellTypeOK
  <2>3. TableFilled' /\ Owned'
    <3>1. /\ fd'[CMD] = f /\ fd'[SHELL] = fd[SHELL] /\ at'[CMD] = "newOut" /\ at'[SHELL] = at[SHELL]
          /\ f \in used' /\ used' \subseteq Fd
      BY <2>6, <2>7 DEF ShellTypeOK
    <3>2. TableFilled'
      <4>1. ASSUME NEW g \in used', g # f
            PROVE  \/ exinf'[g] = "live" \/ cut' \in Half
                   \/ fd'[SHELL] = g /\ at'[SHELL] \in Emptied
        <5>1. g \in used /\ exinf'[g] = exinf[g]  BY <2>6, <4>1 DEF ShellTypeOK
        <5>2. QED  BY <2>7, <3>1, <5>1 DEF TableFilled, Half, Emptied
      <4>2. QED  BY <2>6, <2>7, <3>1, <4>1 DEF TableFilled, Half
    <3>3. CASE full'  BY <3>2, <3>3 DEF Owned
    <3>4. CASE ~ full'
      <4>1. /\ \A g \in Fd : held[g] \in {0, 1}
            /\ \A g \in Fd : held[g] = 1 => g \in used
            /\ f \notin used
        BY <2>6, <2>7, <2>8, <3>4 DEF Owned
      <4>2. held[f] = 0  BY <4>1
      <4>3. QED  BY <2>6, <2>7, <3>1, <3>2, <4>1, <4>2 DEF Owned, Deleting
    <3>5. QED  BY <3>2, <3>3, <3>4
  <2>4. ShellTypeOK' /\ at' \in [Task -> ShellPlaces]
    <3>1. event' \in BOOLEAN /\ full' \in BOOLEAN  BY <2>7, <2>8 DEF ShellTypeOK
    <3>2. at' \in [Task -> ShellPlaces]  BY <2>7 DEF ShellPlaces
    <3>3. used' \subseteq Fd /\ fd' \in [Task -> Fd]  BY <2>6 DEF ShellTypeOK
    <3>4. exinf' \in [Fd -> {"null", "live", "freed"}]  BY <2>6 DEF ShellTypeOK
    <3>5. QED  BY <2>7, <3>1, <3>2, <3>3, <3>4 DEF ShellTypeOK
  <2>5. QED  BY <2>1, <2>2, <2>3, <2>4
<1>11. CASE Leave(CMD, "newOut", "alloc")
  <2>1. SemaphoreKept' /\ StateTells' /\ OneCommand'
    BY <1>11 DEF SemaphoreKept, Inside, Leave
  <2>2. Cleaned'
    BY <1>11 DEF Cleaned, ShellTypeOK, Fd, Leave
  <2>3. TableFilled' /\ Owned'
    BY <1>11 DEF TableFilled, Owned, Half, Emptied, Deleting, ShellTypeOK, Leave
  <2>4. ShellTypeOK' /\ at' \in [Task -> ShellPlaces]
    BY <1>11 DEF ShellTypeOK, ShellPlaces, Fd, Leave
  <2>5. QED  BY <2>1, <2>2, <2>3, <2>4
<1>12. CASE clean_fd_next(CMD, "done")
  <2>1. SemaphoreKept' /\ StateTells' /\ OneCommand'
    BY <1>12 DEF SemaphoreKept, Inside, clean_fd_next
  <2>2. Cleaned'
    BY <1>12 DEF Cleaned, ShellTypeOK, Fd, clean_fd_next
  <2>3. TableFilled' /\ Owned'
    BY <1>12 DEF TableFilled, Owned, Half, Emptied, Deleting, ShellTypeOK, clean_fd_next
  <2>4. ShellTypeOK' /\ at' \in [Task -> ShellPlaces]
    BY <1>12 DEF ShellTypeOK, ShellPlaces, Fd, clean_fd_next
  <2>5. QED  BY <2>1, <2>2, <2>3, <2>4
<1>13. QED
  BY <1>1, <1>2, <1>3, <1>4, <1>5, <1>6, <1>7, <1>8, <1>9, <1>10, <1>11, <1>12, DescriptorsKeep
     DEF Command

\* What the shell does, and the network to it.
LEMMA ShellKeeps ==
  ASSUME ShellInv, Shell \/ NetworkEvent
  PROVE  ShellInv'
<1> USE ShellAssumption DEF ShellInv, MayRun, ShellWaits, Go, Return, StartCleaning, ter_tsk,
         table, control, history, Task, Quiet, Cleaning, CleanAlone, OneCommand, StateTells
<1>1. CASE ReadLine
  <2>1. SemaphoreKept' /\ StateTells' /\ OneCommand'
    BY <1>1 DEF SemaphoreKept, Inside, ReadLine
  <2>2. Cleaned'
    BY <1>1 DEF Cleaned, ShellTypeOK, Fd, ReadLine
  <2>3. TableFilled' /\ Owned'
    BY <1>1 DEF TableFilled, Owned, Half, Emptied, Deleting, ShellTypeOK, ReadLine
  <2>4. ShellTypeOK' /\ at' \in [Task -> ShellPlaces]
    <3>1. event' \in BOOLEAN /\ full' \in BOOLEAN  BY <1>1 DEF ShellTypeOK, ReadLine
    <3>2. input' \in Seq(Char) /\ Len(input') <= MAXINPUT  BY <1>1 DEF ShellTypeOK, ReadLine
    <3>3. held' \in [Fd -> 0 .. 2]  BY <1>1 DEF ShellTypeOK, ReadLine
    <3>4. at' \in [Task -> ShellPlaces]  BY <1>1 DEF ShellTypeOK, ShellPlaces, ReadLine
    <3>5. QED  BY <1>1, <3>1, <3>2, <3>3, <3>4 DEF ShellTypeOK, Fd, ReadLine
  <2>5. QED  BY <2>1, <2>2, <2>3, <2>4
<1>2. CASE execute_command
  <2>1. SemaphoreKept' /\ StateTells' /\ OneCommand'
    BY <1>2 DEF SemaphoreKept, Inside, execute_command
  <2>2. Cleaned'
    BY <1>2 DEF Cleaned, ShellTypeOK, Fd, execute_command
  <2>3. TableFilled' /\ Owned'
    BY <1>2 DEF TableFilled, Owned, Half, Emptied, Deleting, ShellTypeOK, execute_command
  <2>4. ShellTypeOK' /\ at' \in [Task -> ShellPlaces]
    <3>1. event' \in BOOLEAN /\ full' \in BOOLEAN  BY <1>2 DEF ShellTypeOK, execute_command
    <3>2. input' \in Seq(Char) /\ Len(input') <= MAXINPUT  BY <1>2 DEF ShellTypeOK, execute_command
    <3>3. held' \in [Fd -> 0 .. 2]  BY <1>2 DEF ShellTypeOK, execute_command
    <3>4. at' \in [Task -> ShellPlaces]  BY <1>2 DEF ShellTypeOK, ShellPlaces, execute_command
    <3>5. QED  BY <1>2, <3>1, <3>2, <3>3, <3>4 DEF ShellTypeOK, Fd, execute_command
  <2>5. QED  BY <2>1, <2>2, <2>3, <2>4
<1>3. CASE Slept
  <2>1. SemaphoreKept' /\ StateTells' /\ OneCommand'
    BY <1>3 DEF SemaphoreKept, Inside, Slept
  <2>2. Cleaned'
    BY <1>3 DEF Cleaned, ShellTypeOK, Fd, Slept
  <2>3. TableFilled' /\ Owned'
    BY <1>3 DEF TableFilled, Owned, Half, Emptied, Deleting, ShellTypeOK, Slept
  <2>4. ShellTypeOK' /\ at' \in [Task -> ShellPlaces]
    BY <1>3 DEF ShellTypeOK, ShellPlaces, Fd, Slept
  <2>5. QED  BY <2>1, <2>2, <2>3, <2>4
<1>4. CASE act_tsk
  <2>1. SemaphoreKept' /\ StateTells' /\ OneCommand'
    <3>1. SemaphoreKept'  BY <1>4 DEF SemaphoreKept, Inside, act_tsk
    <3>2. StateTells'  BY <1>4 DEF ShellTypeOK, Cleaned, act_tsk
    <3>3. OneCommand'  BY <1>4 DEF ShellTypeOK, Cleaned, act_tsk
    <3>4. QED  BY <3>1, <3>2, <3>3
  <2>2. Cleaned'
    BY <1>4 DEF Cleaned, ShellTypeOK, Fd, act_tsk
  <2>3. TableFilled' /\ Owned'
    <3>1. TableFilled'  BY <1>4 DEF TableFilled, Half, Emptied, ShellTypeOK, Cleaned, act_tsk
    <3>2. Owned'  BY <1>4 DEF Owned, TableFilled, Deleting, ShellTypeOK, act_tsk
    <3>3. QED  BY <3>1, <3>2
  <2>4. ShellTypeOK' /\ at' \in [Task -> ShellPlaces]
    <3>1. event' \in BOOLEAN /\ full' \in BOOLEAN  BY <1>4 DEF ShellTypeOK, act_tsk
    <3>2. input' \in Seq(Char) /\ Len(input') <= MAXINPUT  BY <1>4 DEF ShellTypeOK, act_tsk
    <3>3. held' \in [Fd -> 0 .. 2]  BY <1>4 DEF ShellTypeOK, act_tsk
    <3>4. at' \in [Task -> ShellPlaces]  BY <1>4 DEF ShellTypeOK, ShellPlaces, act_tsk
    <3>5. QED  BY <1>4, <3>1, <3>2, <3>3, <3>4 DEF ShellTypeOK, Fd, act_tsk
  <2>5. QED  BY <2>1, <2>2, <2>3, <2>4
<1>5. CASE uart_read
  <2>1. SemaphoreKept' /\ StateTells' /\ OneCommand'
    BY <1>5 DEF SemaphoreKept, Inside, uart_read, Take
  <2>2. Cleaned'
    BY <1>5, SMTT(60) DEF Cleaned, ShellTypeOK, Fd, uart_read, Take
  <2>3. TableFilled' /\ Owned'
    BY <1>5 DEF TableFilled, Owned, Half, Emptied, Deleting, ShellTypeOK, uart_read, Take
  <2>4. ShellTypeOK' /\ at' \in [Task -> ShellPlaces]
    <3>1. event' \in BOOLEAN /\ full' \in BOOLEAN  BY <1>5 DEF ShellTypeOK, uart_read, Take
    <3>2. input' \in Seq(Char) /\ Len(input') <= MAXINPUT
      <4>1. input' = input \/ (input # <<>> /\ input' = Tail(input))  BY <1>5 DEF uart_read, Take
      <4>2. QED  BY <4>1, InputRead DEF ShellTypeOK
    <3>3. held' \in [Fd -> 0 .. 2]  BY <1>5 DEF ShellTypeOK, uart_read, Take
    <3>4. at' \in [Task -> ShellPlaces]  BY <1>5 DEF ShellTypeOK, ShellPlaces, uart_read, Take
    <3>5. QED  BY <1>5, <3>1, <3>2, <3>3, <3>4, SMTT(60) DEF ShellTypeOK, Fd, uart_read, Take
  <2>5. QED  BY <2>1, <2>2, <2>3, <2>4
<1>6. CASE uart_read_ends
  <2>1. SemaphoreKept' /\ StateTells' /\ OneCommand'
    BY <1>6 DEF SemaphoreKept, Inside, uart_read_ends, Take
  <2>2. Cleaned'
    BY <1>6 DEF Cleaned, ShellTypeOK, Fd, uart_read_ends, Take
  <2>3. TableFilled' /\ Owned'
    BY <1>6 DEF TableFilled, Owned, Half, Emptied, Deleting, ShellTypeOK, uart_read_ends, Take
  <2>4. ShellTypeOK' /\ at' \in [Task -> ShellPlaces]
    <3>1. event' \in BOOLEAN /\ full' \in BOOLEAN  BY <1>6 DEF ShellTypeOK, uart_read_ends, Take
    <3>2. input' \in Seq(Char) /\ Len(input') <= MAXINPUT
      <4>1. input' = input \/ (input # <<>> /\ input' = Tail(input))
        BY <1>6 DEF uart_read_ends, Take
      <4>2. QED  BY <4>1, InputRead DEF ShellTypeOK
    <3>3. held' \in [Fd -> 0 .. 2]  BY <1>6 DEF ShellTypeOK, uart_read_ends, Take
    <3>4. at' \in [Task -> ShellPlaces]  BY <1>6 DEF ShellTypeOK, ShellPlaces, uart_read_ends, Take
    <3>5. used' \subseteq Fd /\ exinf' \in [Fd -> {"null", "live", "freed"}] /\ sem' \in {0, 1}
      BY <1>6 DEF ShellTypeOK, uart_read_ends, Take
    <3>6. /\ state' \in 0 .. 4 /\ fd' \in [Task -> Fd]
          /\ after' \in {"run", "next"} /\ dest' \in {"act", "prompt"}
      BY <1>6 DEF ShellTypeOK, Fd, uart_read_ends, Take
    <3>7. /\ at'[SHELL] \in {"prompt", "execute", "sleep", "act", "read", "reading", "check", "clean",
                             "closing", "delete", "freed", "delWait", "delIn", "delOut", "next"}
          /\ at'[CMD] \in {"dormant", "ready", "run", "new", "newIn", "newOut", "alloc", "closing",
                           "delete", "freed", "delWait", "delIn", "delOut", "clean", "next",
                           "done", "ended"}
      BY <1>6 DEF ShellTypeOK, uart_read_ends, Take
    <3>8. QED  BY ONLY <3>1, <3>2, <3>3, <3>4, <3>5, <3>6, <3>7 DEF ShellTypeOK
  <2>5. QED  BY <2>1, <2>2, <2>3, <2>4
<1>7. CASE WhileRunning
  <2>1. SemaphoreKept' /\ StateTells' /\ OneCommand'
    BY <1>7 DEF SemaphoreKept, Inside, WhileRunning
  <2>2. Cleaned'
    BY <1>7 DEF Cleaned, ShellTypeOK, Fd, WhileRunning
  <2>3. TableFilled' /\ Owned'
    BY <1>7 DEF TableFilled, Owned, Half, Emptied, Deleting, ShellTypeOK, WhileRunning
  <2>4. ShellTypeOK' /\ at' \in [Task -> ShellPlaces]
    BY <1>7 DEF ShellTypeOK, ShellPlaces, Fd, WhileRunning
  <2>5. QED  BY <2>1, <2>2, <2>3, <2>4
<1>8. CASE clean_fd_next(SHELL, dest)
  <2>1. SemaphoreKept' /\ StateTells' /\ OneCommand'
    <3>1. SemaphoreKept'  BY <1>8 DEF SemaphoreKept, Inside, clean_fd_next
    <3>2. StateTells'  BY <1>8 DEF ShellTypeOK, Cleaned, clean_fd_next
    <3>3. OneCommand'  BY <1>8 DEF ShellTypeOK, Cleaned, clean_fd_next
    <3>4. QED  BY <3>1, <3>2, <3>3
  <2>2. Cleaned'
    BY <1>8 DEF Cleaned, ShellTypeOK, Fd, clean_fd_next
  <2>3. TableFilled' /\ Owned'
    BY <1>8 DEF TableFilled, Owned, Half, Emptied, Deleting, ShellTypeOK, clean_fd_next
  <2>4. ShellTypeOK' /\ at' \in [Task -> ShellPlaces]
    BY <1>8 DEF ShellTypeOK, ShellPlaces, Fd, clean_fd_next
  <2>5. QED  BY <2>1, <2>2, <2>3, <2>4
<1>9. CASE NetworkEvent
  <2>1. SemaphoreKept' /\ StateTells' /\ OneCommand'
    BY <1>9 DEF SemaphoreKept, Inside, NetworkEvent
  <2>2. Cleaned'
    BY <1>9 DEF Cleaned, ShellTypeOK, Fd, NetworkEvent
  <2>3. TableFilled' /\ Owned'
    BY <1>9 DEF TableFilled, Owned, Half, Emptied, Deleting, ShellTypeOK, NetworkEvent
  <2>4. ShellTypeOK' /\ at' \in [Task -> ShellPlaces]
    BY <1>9 DEF ShellTypeOK, ShellPlaces, Fd, NetworkEvent
  <2>5. QED  BY <2>1, <2>2, <2>3, <2>4
<1>10. QED  BY <1>1, <1>2, <1>3, <1>4, <1>5, <1>6, <1>7, <1>8, <1>9, DescriptorsKeep DEF Shell

LEMMA ShellStep ==
  ASSUME ShellInv, [ShellNext]_shellvars
  PROVE  ShellInv'
<1>1. CASE Command  BY <1>1, CommandKeeps
<1>2. CASE Shell \/ NetworkEvent  BY <1>2, ShellKeeps
<1>3. CASE UNCHANGED shellvars \/ \E c \in Char : Key(c)
  <2>1. UNCHANGED <<state, used, exinf, sem, at, fd, after, dest, held, full, cut, inside>>
    BY <1>3 DEF shellvars, table, control, history, Key
  <2>2. input' \in Seq(Char) /\ Len(input') <= MAXINPUT
    <3>1. input' = input \/ \E c \in Char : Len(input) < MAXINPUT /\ input' = Append(input, c)
      BY <1>3 DEF shellvars, Key
    <3>2. QED  BY <3>1, ShellAssumption DEF ShellInv, ShellTypeOK
  <2>3. event' = event  BY <1>3 DEF shellvars, Key
  <2>4. ShellTypeOK'  BY <2>1, <2>2, <2>3 DEF ShellInv, ShellTypeOK
  <2>5. SemaphoreKept' /\ StateTells' /\ OneCommand' /\ Cleaned'
    BY <2>1 DEF ShellInv, SemaphoreKept, StateTells, OneCommand, CleanAlone, Cleaned
  <2>6. TableFilled' /\ Owned'  BY <2>1 DEF ShellInv, TableFilled, Owned
  <2>7. QED  BY <2>1, <2>4, <2>5, <2>6 DEF ShellInv
<1>4. QED  BY <1>1, <1>2, <1>3 DEF ShellNext

LEMMA ShellInvariance == ShellSpec => []ShellInv
<1>1. ShellInit => ShellInv  BY ShellStarts
<1>2. ShellInv /\ [ShellNext]_shellvars => ShellInv'  BY ShellStep
<1>3. QED  BY <1>1, <1>2, PTL DEF ShellSpec

\* However a command ends, the shell alone cleans its descriptors, a close finds an object
\* that is there, and the semaphore of the table is given back, but for the terminations
\* that the property names (ntshell_main.c, fdtable.c), for every size of the table.
THEOREM CommandsAreCleanedUp == ShellSpec => []ShellOK
<1>1. ShellInv => ShellOK
  <2> SUFFICES ASSUME ShellInv  PROVE ShellOK  OBVIOUS
  <2>1. OwnDescriptors  BY DEF ShellInv, Owned, OwnDescriptors
  <2>2. ClosesLiveObject
    <3>1. ASSUME NEW p \in Task, at[p] = "closing"
          PROVE  exinf[fd[p]] = "live" \/ cut \in Half
      BY <3>1 DEF ShellInv, TableFilled, OneCommand, CleanAlone, Cleaning, Half, Emptied, Task
    <3>2. QED  BY <3>1 DEF ClosesLiveObject, Half, Emptied
  <2>3. QED  BY <2>1, <2>2 DEF ShellInv, ShellOK, OneCommand
<1>2. QED  BY <1>1, ShellInvariance, PTL

\* A command starts with an empty table (execute_command of ntshell_main.c).
THEOREM CommandsStartClean == ShellSpec => StartsClean
<1>1. ShellInv => (at[SHELL] = "act" => used = {})  BY DEF ShellInv, Cleaned
<1>2. QED  BY <1>1, ShellInvariance, PTL DEF StartsClean

----------------------------------------------------------------------------
(* The decoder of MQTT packets: however the network cuts the bytes of the  *)
(* packets, they become the packets again.  The bytes are read by folds,   *)
(* the definitions of which are taken as tables of their intermediate      *)
(* results; what holds for all sequences is proved of the least one for    *)
(* which it would not hold.                                                *)

\* A property of numbers that each inherits from the smaller ones has no least
\* counterexample (stated for sets, as S is the set of counterexamples).
LEMMA NoLeast ==
  ASSUME NEW S \in SUBSET Nat, \A n \in S : \E m \in S : m < n
  PROVE  S = {}
<1>1. IsWellFoundedOn(OpToRel(<, Nat), Nat)  BY NatLessThanWellFounded
<1>2. SUFFICES ASSUME S # {} PROVE FALSE  OBVIOUS
<1>3. PICK x \in S : \A y \in S : <<y, x>> \notin OpToRel(<, Nat)
  BY <1>1, <1>2, WFMin, Zenon
<1>4. \A y \in S : ~ (y < x)  BY <1>3 DEF OpToRel
<1>5. QED  BY <1>4

\* The greatest number of a set of numbers up to n, which the folds of sequences begin with.
LEMMA MaxOfPart ==
  ASSUME NEW n \in Nat, NEW u \in SUBSET (1 .. n), u # {}
  PROVE  Max(u) \in u /\ (\A x \in u : x <= Max(u)) /\ u \ {Max(u)} \subseteq 1 .. Max(u) - 1
<1> DEFINE T == {d \in Nat : n - d \in u}
<1>1. \E d \in T : \A y \in T : ~ (y < d)
  <2>1. T # {}
    <3>1. PICK x \in u : TRUE  OBVIOUS
    <3>2. n - x \in Nat /\ n - (n - x) = x  OBVIOUS
    <3>3. QED  BY <3>1, <3>2
  <2>2. T \in SUBSET Nat  OBVIOUS
  <2> HIDE DEF T
  <2>3. QED  BY <2>1, <2>2, NoLeast
<1>2. PICK d \in T : \A y \in T : ~ (y < d)  BY <1>1
<1>3. n - d \in u  BY <1>2
<1>4. ASSUME NEW y \in u PROVE n - d >= y
  <2>1. n - y \in Nat /\ n - (n - y) = y  OBVIOUS
  <2>2. n - y \in T  BY <2>1
  <2>3. QED  BY <1>2, <2>1, <2>2
<1>5. Max(u) \in u /\ \A y \in u : Max(u) >= y  BY <1>3, <1>4 DEF Max
<1> DEFINE m == Max(u)
<1>6. m \in u /\ m \in 1 .. n /\ \A y \in u : m >= y /\ y \in 1 .. n  BY <1>5
<1> HIDE DEF m
<1>7. u \ {m} \subseteq 1 .. m - 1 /\ \A x \in u : x <= m  BY <1>6
<1>8. QED  BY <1>6, <1>7 DEF m

\* The fold of the bytes s as a table of its intermediate results.
LEMMA ReadTable ==
  ASSUME NEW S, NEW s \in Seq(S), NEW c
  PROVE  \E g : /\ g[0] = Progress(c)
                /\ \A i \in 1 .. Len(s) : g[i] = ByteReceived(g[i - 1], s[i])
                /\ mqtt_codec_bytesReceived(c, s) = g[Len(s)]
<1> DEFINE Step(g, u) == IF u = {} THEN Progress(c) ELSE ByteReceived(g[u \ {Max(u)}], s[Max(u)])
           Fits(g, n) == g = [u \in SUBSET (1 .. n) |-> Step(g, u)]
           Bad == {n \in Nat : ~ \E g : Fits(g, n)}
           iter == CHOOSE g : Fits(g, Len(s))
<1>1. \E g : Fits(g, 0)
  <2>1. Fits([u \in SUBSET (1 .. 0) |-> Progress(c)], 0)
    <3>1. \A u \in SUBSET (1 .. 0) : u = {}  OBVIOUS
    <3>2. QED  BY <3>1
  <2>2. QED  BY <2>1
<1>2. ASSUME NEW n \in Nat, NEW g, Fits(g, n) PROVE \E f : Fits(f, n + 1)
  <2> DEFINE f == [u \in SUBSET (1 .. n + 1) |-> Step(g, u)]
  <2>1. ASSUME NEW u \in SUBSET (1 .. n) PROVE f[u] = g[u]
    <3>1. u \in SUBSET (1 .. n + 1)  OBVIOUS
    <3>2. f[u] = Step(g, u)  BY <3>1
    <3>3. g[u] = Step(g, u)  BY <1>2
    <3>4. QED  BY <3>2, <3>3
  <2>2. ASSUME NEW u \in SUBSET (1 .. n + 1) PROVE f[u] = Step(f, u)
    <3>1. CASE u = {}  BY <3>1
    <3>2. CASE u # {}
      <4>1. u \ {Max(u)} \in SUBSET (1 .. n)
        <5>1. Max(u) \in u /\ u \ {Max(u)} \subseteq 1 .. Max(u) - 1
          <6>1. n + 1 \in Nat  OBVIOUS
          <6>2. QED  BY <3>2, <6>1, MaxOfPart
        <5>2. Max(u) \in 1 .. n + 1  BY <5>1
        <5> HIDE DEF f
        <5>3. 1 .. Max(u) - 1 \subseteq 1 .. n  BY <5>2
        <5>4. QED  BY <5>1, <5>3
      <4>2. f[u \ {Max(u)}] = g[u \ {Max(u)}]  BY <2>1, <4>1
      <4>3. f[u] = Step(g, u)  OBVIOUS
      <4>4. QED  BY <4>2, <4>3
    <3>3. QED  BY <3>1, <3>2
  <2>3. f = [u \in SUBSET (1 .. n + 1) |-> Step(f, u)]
    <3>1. f = [u \in SUBSET (1 .. n + 1) |-> f[u]]  OBVIOUS
    <3> HIDE DEF f, Step
    <3>2. QED  BY <2>2, <3>1
  <2> HIDE DEF f
  <2>4. QED  BY <2>3
<1>3. Bad = {}
  <2>1. \A n \in Bad : \E m \in Bad : m < n
    <3> SUFFICES ASSUME NEW n \in Bad PROVE \E m \in Bad : m < n  OBVIOUS
    <3> HIDE DEF Fits
    <3>1. n # 0  BY <1>1
    <3>2. n - 1 \in Nat /\ (n - 1) + 1 = n /\ n - 1 < n  BY <3>1
    <3>3. n - 1 \in Bad  BY <1>2, <3>2
    <3>4. QED  BY <3>2, <3>3
  <2>2. Bad \in SUBSET Nat  OBVIOUS
  <2> HIDE DEF Bad
  <2>3. QED  BY <2>1, <2>2, NoLeast
<1>4. Len(s) \in Nat /\ DOMAIN s = 1 .. Len(s)  OBVIOUS
<1>5. Fits(iter, Len(s))
  <2> HIDE DEF Fits
  <2>1. QED  BY <1>3, <1>4
<1>6. mqtt_codec_bytesReceived(c, s) = iter[1 .. Len(s)]
  BY <1>4 DEF mqtt_codec_bytesReceived, FoldLeft, MapThenFoldSet
<1> HIDE DEF iter
<1> DEFINE g == [i \in 0 .. Len(s) |-> iter[1 .. i]]
<1>7. g[0] = Progress(c)
  <2>1. 1 .. 0 = {} /\ {} \in SUBSET (1 .. Len(s))  OBVIOUS
  <2>2. iter[{}] = Progress(c)  BY <1>5, <2>1
  <2>3. g[0] = iter[1 .. 0]  BY <1>4
  <2>4. QED  BY <2>1, <2>2, <2>3
<1>8. ASSUME NEW i \in 1 .. Len(s) PROVE g[i] = ByteReceived(g[i - 1], s[i])
  <2> DEFINE u == 1 .. i
  <2>1. u \in SUBSET (1 .. Len(s)) /\ u # {} /\ i \in u
    <3>1. i \in 1 .. i /\ 1 .. i \subseteq 1 .. Len(s)  BY <1>4
    <3>2. QED  BY <3>1
  <2>2. Max(u) = i
    <3>1. Max(u) \in u /\ \A x \in u : x <= Max(u)  BY <1>4, <2>1, MaxOfPart
    <3>2. QED  BY <2>1, <3>1
  <2>3. u \ {i} = 1 .. i - 1  OBVIOUS
  <2>4. iter[u] = ByteReceived(iter[u \ {Max(u)}], s[Max(u)])
    <3> HIDE DEF u
    <3>1. QED  BY <1>5, <2>1
  <2>5. g[i] = iter[u] /\ g[i - 1] = iter[1 .. i - 1]  BY <1>4
  <2>6. QED  BY <2>2, <2>3, <2>4, <2>5
<1>9. g[Len(s)] = iter[1 .. Len(s)]  BY <1>4
<1> HIDE DEF g
<1>10. QED  BY <1>6, <1>7, <1>8, <1>9

\* Nothing read changes nothing.
LEMMA ReadNone == ASSUME NEW c PROVE mqtt_codec_bytesReceived(c, <<>>) = Progress(c)
<1>1. <<>> \in Seq({}) /\ Len(<<>>) = 0  OBVIOUS
<1>2. QED  BY <1>1, ReadTable

\* Bytes are read one after the other.
LEMMA ReadByte ==
  ASSUME NEW S, NEW s \in Seq(S), NEW b \in S, NEW c
  PROVE  mqtt_codec_bytesReceived(c, Append(s, b)) = ByteReceived(mqtt_codec_bytesReceived(c, s), b)
<1> DEFINE t == Append(s, b)
           n == Len(s)
<1>1. /\ n \in Nat /\ t \in Seq(S) /\ Len(t) = n + 1 /\ t[n + 1] = b
      /\ \A i \in 1 .. n : t[i] = s[i]
  OBVIOUS
<1> HIDE DEF t
<1>2. PICK g : /\ g[0] = Progress(c)
               /\ \A i \in 1 .. Len(s) : g[i] = ByteReceived(g[i - 1], s[i])
               /\ mqtt_codec_bytesReceived(c, s) = g[Len(s)]
  BY ReadTable
<1>3. PICK h : /\ h[0] = Progress(c)
               /\ \A i \in 1 .. Len(t) : h[i] = ByteReceived(h[i - 1], t[i])
               /\ mqtt_codec_bytesReceived(c, t) = h[Len(t)]
  BY <1>1, ReadTable
<1> DEFINE Bad == {i \in 0 .. n : g[i] # h[i]}
<1>4. \A i \in Bad : \E j \in Bad : j < i
  <2> SUFFICES ASSUME NEW i \in Bad PROVE \E j \in Bad : j < i  OBVIOUS
  <2>1. i # 0 /\ i \in 1 .. n  BY <1>1, <1>2, <1>3
  <2>2. g[i] = ByteReceived(g[i - 1], s[i])  BY <1>2, <2>1
  <2>3. i \in 1 .. Len(t)  BY <1>1, <2>1
  <2>4. h[i] = ByteReceived(h[i - 1], s[i])  BY <1>1, <1>3, <2>1, <2>3
  <2>5. g[i - 1] # h[i - 1]  BY <2>2, <2>4
  <2>6. i - 1 \in 0 .. n /\ i - 1 < i  BY <1>1, <2>1
  <2>7. QED  BY <2>5, <2>6
<1>5. Bad \in SUBSET Nat  BY <1>1
<1>6. g[n] = h[n]
  <2>1. Bad = {}
    <3> HIDE DEF Bad
    <3>1. QED  BY <1>4, <1>5, NoLeast
  <2>2. n \in 0 .. n  BY <1>1
  <2>3. QED  BY <2>1, <2>2
<1>7. h[n + 1] = ByteReceived(h[n], b)
  <2>1. n + 1 \in 1 .. Len(t) /\ (n + 1) - 1 = n  BY <1>1
  <2>2. QED  BY <1>1, <1>3, <2>1
<1>8. QED  BY <1>1, <1>2, <1>3, <1>6, <1>7 DEF t

----------------------------------------------------------------------------
\* The bytes, and the states and results of the codec.

Byte == 0 .. 2 * Base - 1
Codecs == [state : {"FIXED_HEADER", "VAR_HEADER", "PAYLOAD"}, currPacket : Byte,
           storeRemainLen : Seq(Byte), headerData : [len : Nat, data : Seq(Byte)]]
Results == [codec : Codecs, packets : Seq([type : Byte, data : Seq(Byte)]), failed : BOOLEAN]

\* The length of a packet as a table of the values of its last digits.
LEMMA LengthTable ==
  ASSUME NEW s \in Seq(Byte)
  PROVE  \E g : /\ g[Len(s) + 1] = 0
                /\ \A i \in 1 .. Len(s) : g[i] = (s[i] % Base) + Base * g[i + 1]
                /\ RemainingLength(s) = g[1]
<1> DEFINE n == Len(s)
           Step(g, u) == IF u = {} THEN 0 ELSE (s[Min(u)] % Base) + Base * g[u \ {Min(u)}]
           Fits(g, k) == g = [u \in SUBSET (k .. n) |-> Step(g, u)]
           Bad == {k \in Nat : k <= n /\ ~ \E g : Fits(g, n + 1 - k)}
           iter == CHOOSE g : Fits(g, 1)
<1>1. n \in Nat /\ DOMAIN s = 1 .. n  OBVIOUS
<1> HIDE DEF n
<1>a. ASSUME NEW k \in 1 .. n + 1, NEW u \in SUBSET (k .. n), u # {}
      PROVE  Min(u) \in u /\ u \ {Min(u)} \in SUBSET (k + 1 .. n) /\ \A x \in u : Min(u) <= x
  <2>1. \E x \in u : \A y \in u : ~ (y < x)
    <3>1. u \in SUBSET Nat  BY <1>1
    <3>2. QED  BY <1>a, <3>1, NoLeast
  <2>2. PICK x \in u : \A y \in u : ~ (y < x)  BY <2>1
  <2>3. \A y \in u : y \in Int /\ k <= y /\ y <= n  BY <1>1
  <2>4. \A y \in u : x <= y  BY <2>2, <2>3
  <2>5. Min(u) \in u /\ \A y \in u : Min(u) <= y  BY <2>4 DEF Min
  <2> DEFINE m == Min(u)
  <2>6. m \in u /\ \A y \in u : m <= y  BY <2>5
  <2> HIDE DEF m
  <2>7. u \ {m} \in SUBSET (k + 1 .. n)  BY <1>1, <2>3, <2>6
  <2>8. QED  BY <2>6, <2>7 DEF m
<1>2. \E g : Fits(g, n + 1)
  <2>1. Fits([u \in SUBSET (n + 1 .. n) |-> 0], n + 1)
    <3>1. \A u \in SUBSET (n + 1 .. n) : u = {}  BY <1>1
    <3>2. QED  BY <3>1
  <2>2. QED  BY <2>1
<1>3. ASSUME NEW k \in 1 .. n, NEW g, Fits(g, k + 1) PROVE \E f : Fits(f, k)
  <2> DEFINE f == [u \in SUBSET (k .. n) |-> Step(g, u)]
  <2>1. ASSUME NEW u \in SUBSET (k + 1 .. n) PROVE f[u] = g[u]
    <3>1. u \in SUBSET (k .. n)  BY <1>1
    <3>2. f[u] = Step(g, u)  BY <3>1
    <3>3. g[u] = Step(g, u)  BY <1>3
    <3>4. QED  BY <3>2, <3>3
  <2>2. ASSUME NEW u \in SUBSET (k .. n) PROVE f[u] = Step(f, u)
    <3>1. CASE u = {}  BY <3>1
    <3>2. CASE u # {}
      <4>1. u \ {Min(u)} \in SUBSET (k + 1 .. n)
        <5>1. k \in 1 .. n + 1  BY <1>1
        <5>2. QED  BY <1>a, <3>2, <5>1
      <4>2. f[u \ {Min(u)}] = g[u \ {Min(u)}]  BY <2>1, <4>1
      <4>3. f[u] = Step(g, u)  OBVIOUS
      <4> HIDE DEF f
      <4>4. Step(g, u) = Step(f, u)  BY <4>2
      <4>5. QED  BY <4>3, <4>4
    <3>3. QED  BY <3>1, <3>2
  <2>3. f = [u \in SUBSET (k .. n) |-> Step(f, u)]
    <3>1. f = [u \in SUBSET (k .. n) |-> f[u]]  OBVIOUS
    <3> HIDE DEF f, Step
    <3>2. QED  BY <2>2, <3>1
  <2> HIDE DEF f
  <2>4. QED  BY <2>3
<1>4. Bad = {}
  <2>1. \A k \in Bad : \E j \in Bad : j < k
    <3> SUFFICES ASSUME NEW k \in Bad PROVE \E j \in Bad : j < k  OBVIOUS
    <3> HIDE DEF Fits
    <3>1. k # 0
      <4>1. n + 1 - 0 = n + 1  BY <1>1
      <4>2. QED  BY <1>2, <4>1
    <3>2. n + 1 - k \in 1 .. n /\ (n + 1 - k) + 1 = n + 1 - (k - 1)  BY <1>1, <3>1
    <3>3. ~ \E g : Fits(g, n + 1 - k)  OBVIOUS
    <3>4. ~ \E g : Fits(g, n + 1 - (k - 1))  BY <1>3, <3>2, <3>3
    <3>5. k - 1 \in Bad /\ k - 1 < k  BY <1>1, <3>1, <3>4
    <3>6. QED  BY <3>5
  <2>2. Bad \in SUBSET Nat  OBVIOUS
  <2> HIDE DEF Bad
  <2>3. QED  BY <2>1, <2>2, NoLeast
<1>5. Fits(iter, 1)
  <2> HIDE DEF Fits
  <2>1. n \in Nat /\ n <= n /\ n + 1 - n = 1  BY <1>1
  <2>2. QED  BY <1>4, <2>1
<1>6. RemainingLength(s) = iter[1 .. n]
  BY <1>1 DEF RemainingLength, FoldRight, MapThenFoldSet
<1> HIDE DEF iter
<1> DEFINE g == [i \in 1 .. n + 1 |-> iter[i .. n]]
<1>7. g[n + 1] = 0
  <2>1. n + 1 .. n = {} /\ {} \in SUBSET (1 .. n)  BY <1>1
  <2>2. iter[{}] = 0  BY <1>5, <2>1
  <2>3. g[n + 1] = iter[n + 1 .. n]  BY <1>1
  <2>4. QED  BY <2>1, <2>2, <2>3
<1>8. ASSUME NEW i \in 1 .. n PROVE g[i] = (s[i] % Base) + Base * g[i + 1]
  <2> DEFINE u == i .. n
  <2>1. u \in SUBSET (1 .. n) /\ u # {} /\ i \in u /\ u \in SUBSET (i .. n)
    <3>1. i \in i .. n /\ i .. n \subseteq 1 .. n  BY <1>1
    <3>2. QED  BY <3>1
  <2>2. Min(u) = i
    <3>1. i \in 1 .. n + 1  BY <1>1
    <3>2. Min(u) \in u /\ \A x \in u : Min(u) <= x  BY <1>a, <2>1, <3>1
    <3>3. Min(u) \in Int /\ i <= Min(u)  BY <1>1, <3>2
    <3>4. QED  BY <2>1, <3>2, <3>3
  <2>3. u \ {i} = i + 1 .. n  BY <1>1
  <2>4. iter[u] = (s[Min(u)] % Base) + Base * iter[u \ {Min(u)}]
    <3> HIDE DEF u
    <3>1. QED  BY <1>5, <2>1
  <2>5. g[i] = iter[u] /\ g[i + 1] = iter[i + 1 .. n]  BY <1>1
  <2>6. QED  BY <2>2, <2>3, <2>4, <2>5
<1>9. g[1] = iter[1 .. n]  BY <1>1
<1> HIDE DEF g
<1>10. QED  BY <1>6, <1>7, <1>8, <1>9 DEF n

\* The base and the digits.
LEMMA Bases == Base \in Nat /\ Base > 1 /\ \A b \in Byte : b \in Nat /\ b % Base \in Nat
<1>1. Base \in Nat /\ Base > 1  BY CodecAssumption
<1>2. ASSUME NEW b \in Byte PROVE b \in Nat /\ b % Base \in Nat
  <2>1. b \in Nat  BY <1>1 DEF Byte
  <2>2. QED  BY <1>1, <2>1
<1>3. QED  BY <1>1, <1>2

\* A length is a number.
LEMMA LengthType == ASSUME NEW s \in Seq(Byte) PROVE RemainingLength(s) \in Nat
<1> DEFINE n == Len(s)
<1>1. n \in Nat /\ \A i \in 1 .. n : s[i] \in Byte  OBVIOUS
<1>2. PICK g : /\ g[n + 1] = 0
               /\ \A i \in 1 .. n : g[i] = (s[i] % Base) + Base * g[i + 1]
               /\ RemainingLength(s) = g[1]
  BY LengthTable
<1> HIDE DEF n
<1> DEFINE Bad == {k \in 0 .. n : g[n + 1 - k] \notin Nat}
<1>3. \A k \in Bad : \E j \in Bad : j < k
  <2> SUFFICES ASSUME NEW k \in Bad PROVE \E j \in Bad : j < k  OBVIOUS
  <2> DEFINE i == n + 1 - k
  <2>1. k \in 0 .. n /\ g[i] \notin Nat  OBVIOUS
  <2>2. k # 0
    <3>1. n + 1 - 0 = n + 1  BY <1>1
    <3>2. QED  BY <1>2, <2>1, <3>1
  <2>3. i \in 1 .. n /\ i + 1 = n + 1 - (k - 1) /\ k - 1 \in 0 .. n /\ k - 1 < k
    BY <1>1, <2>1, <2>2
  <2>4. g[i] = (s[i] % Base) + Base * g[i + 1]  BY <1>2, <2>3
  <2> HIDE DEF i
  <2>5. g[i + 1] \notin Nat
    <3> SUFFICES ASSUME g[i + 1] \in Nat PROVE FALSE  OBVIOUS
    <3>1. s[i] % Base \in Nat /\ Base \in Nat  BY <1>1, <2>3, Bases
    <3>2. Base * g[i + 1] \in Nat  BY <3>1
    <3>3. QED  BY <2>1, <2>4, <3>1, <3>2
  <2>6. QED  BY <2>3, <2>5
<1>4. Bad = {}
  <2>1. Bad \in SUBSET Nat  OBVIOUS
  <2> HIDE DEF Bad
  <2>2. QED  BY <1>3, <2>1, NoLeast
<1>5. n \in 0 .. n /\ n + 1 - n = 1  BY <1>1
<1>6. g[1] \in Nat  BY <1>4, <1>5
<1>7. QED  BY <1>2, <1>6

\* The types of the codec.
LEMMA FreshType == FreshCodec \in Codecs
BY Bases DEF FreshCodec, NoBuffer, UNKNOWN_TYPE, Codecs, Byte

\* Reading starts from a result, and leads to one.
LEMMA ProgressType == ASSUME NEW c \in Codecs PROVE Progress(c) \in Results
BY DEF Progress, Results

\* A result as a record, with new packets, and with a fresh codec.
LEMMA AsRecord ==
  ASSUME NEW r \in Results, NEW P
  PROVE  /\ [r EXCEPT !.packets = P] = [codec |-> r.codec, packets |-> P, failed |-> r.failed]
         /\ [r EXCEPT !.packets = P, !.codec = FreshCodec]
              = [codec |-> FreshCodec, packets |-> P, failed |-> r.failed]
<1>1. r = [codec |-> r.codec, packets |-> r.packets, failed |-> r.failed]
  BY DEF Results
<1> DEFINE c == r.codec
           p == r.packets
           f == r.failed
<1>2. r = [codec |-> c, packets |-> p, failed |-> f] /\ c = r.codec /\ f = r.failed  BY <1>1
<1> HIDE DEF c, p, f
<1>3. [[codec |-> c, packets |-> p, failed |-> f] EXCEPT !.packets = P]
        = [codec |-> c, packets |-> P, failed |-> f]
  OBVIOUS
<1>a. [[codec |-> c, packets |-> P, failed |-> f] EXCEPT !.codec = FreshCodec]
        = [codec |-> FreshCodec, packets |-> P, failed |-> f]
  OBVIOUS
<1>4. QED  BY <1>2, <1>3, <1>a

\* So does a completed packet (completePacketData).
LEMMA CompleteType == ASSUME NEW r \in Results PROVE completePacketData(r) \in Results
<1>1. r.codec \in Codecs /\ r.packets \in Seq([type : Byte, data : Seq(Byte)]) /\ r.failed \in BOOLEAN
  BY DEF Results
<1>2. r.codec.currPacket \in Byte /\ r.codec.headerData.data \in Seq(Byte)  BY <1>1 DEF Codecs
<1> DEFINE p == [type |-> r.codec.currPacket, data |-> r.codec.headerData.data]
<1>3. p \in [type : Byte, data : Seq(Byte)]  BY <1>2
<1>4. Append(r.packets, p) \in Seq([type : Byte, data : Seq(Byte)])  BY <1>1, <1>3
<1> HIDE DEF p
<1>5. completePacketData(r) = [codec |-> FreshCodec, packets |-> Append(r.packets, p), failed |-> r.failed]
  <2>1. completePacketData(r) = [r EXCEPT !.packets = Append(r.packets, p), !.codec = FreshCodec]
    BY DEF completePacketData, p
  <2>2. QED  BY <2>1, AsRecord
<1>6. QED  BY <1>1, <1>4, <1>5, FreshType DEF Results

\* So does a byte of the length of a packet (prepareheaderDataInfo).
LEMMA LengthByteType ==
  ASSUME NEW r \in Results, NEW b \in Byte PROVE prepareheaderDataInfo(r, b) \in Results
<1> DEFINE digits == Append(r.codec.storeRemainLen, b)
           total == RemainingLength(digits)
<1>1. r.codec \in Codecs /\ r.packets \in Seq([type : Byte, data : Seq(Byte)]) /\ r.failed \in BOOLEAN
  BY DEF Results
<1>2. digits \in Seq(Byte)  BY <1>1 DEF Codecs
<1>3. total \in Nat  BY <1>2, LengthType
<1> HIDE DEF digits, total
<1>4. [r EXCEPT !.codec.storeRemainLen = digits] \in Results  BY <1>1, <1>2 DEF Results, Codecs
<1>5. [r EXCEPT !.failed = TRUE] \in Results  BY <1>1 DEF Results
<1>6. [r EXCEPT !.codec.state = "VAR_HEADER", !.codec.storeRemainLen = <<>>,
                !.codec.headerData = IF total > 0 THEN [len |-> total, data |-> <<>>] ELSE @] \in Results
  <2>1. <<>> \in Seq(Byte)  OBVIOUS
  <2> DEFINE hd == IF total > 0 THEN [len |-> total, data |-> <<>>] ELSE r.codec.headerData
  <2>2. hd \in [len : Nat, data : Seq(Byte)]  BY <1>1, <1>3, <2>1 DEF Codecs
  <2> HIDE DEF hd
  <2>3. [r EXCEPT !.codec.state = "VAR_HEADER", !.codec.storeRemainLen = <<>>,
                  !.codec.headerData = hd] \in Results
    BY <1>1, <2>1, <2>2 DEF Results, Codecs
  <2>4. QED  BY <2>3 DEF hd
<1>7. QED  BY <1>4, <1>5, <1>6 DEF prepareheaderDataInfo, digits, total

\* So does every byte (mqtt_codec_bytesReceived).
LEMMA ByteType == ASSUME NEW r \in Results, NEW b \in Byte PROVE ByteReceived(r, b) \in Results
<1>1. r.codec \in Codecs /\ r.packets \in Seq([type : Byte, data : Seq(Byte)]) /\ r.failed \in BOOLEAN
  BY DEF Results
<1>2. FixedHeader(r, b) \in Results
  <2>1. [r EXCEPT !.codec.currPacket = b] \in Results  BY <1>1 DEF Results, Codecs
  <2> DEFINE s == prepareheaderDataInfo(r, b)
  <2>2. s \in Results  BY LengthByteType
  <2> HIDE DEF s
  <2>3. completePacketData(s) \in Results  BY <2>2, CompleteType
  <2>4. QED  BY <2>1, <2>2, <2>3 DEF FixedHeader, s
<1>3. VarHeader(r, b) \in Results
  <2> DEFINE s == [r EXCEPT !.codec.headerData.data = Append(@, b)]
  <2>1. Append(r.codec.headerData.data, b) \in Seq(Byte)  BY <1>1 DEF Codecs
  <2>2. s \in Results  BY <1>1, <2>1 DEF Results, Codecs
  <2>3. [r EXCEPT !.codec.state = "PAYLOAD"] \in Results  BY <1>1 DEF Results, Codecs
  <2> HIDE DEF s
  <2>4. completePacketData(s) \in Results  BY <2>2, CompleteType
  <2>5. QED  BY <2>2, <2>3, <2>4 DEF VarHeader, s
<1>4. [r EXCEPT !.failed = TRUE] \in Results  BY <1>1 DEF Results
<1>5. QED  BY <1>2, <1>3, <1>4 DEF ByteReceived

\* What has been completed before does not matter: r with the packets P before it.
Before(P, r) == [r EXCEPT !.packets = P \o @]
PacketSeq == Seq([type : Byte, data : Seq(Byte)])

\* A byte is read alike with and without packets before.
LEMMA BeforeByte ==
  ASSUME NEW P \in PacketSeq, NEW r \in Results, NEW b \in Byte
  PROVE  ByteReceived(Before(P, r), b) = Before(P, ByteReceived(r, b)) /\ Before(P, r) \in Results
<1>1. ASSUME NEW q \in Results
      PROVE  /\ Before(P, q) = [codec |-> q.codec, packets |-> P \o q.packets, failed |-> q.failed]
             /\ Before(P, q) \in Results
  <2>1. q.packets \in PacketSeq /\ q.codec \in Codecs /\ q.failed \in BOOLEAN  BY DEF Results, PacketSeq
  <2>2. P \o q.packets \in PacketSeq  BY <2>1, ConcatProperties DEF PacketSeq
  <2>3. Before(P, q) = [codec |-> q.codec, packets |-> P \o q.packets, failed |-> q.failed]
    BY AsRecord DEF Before
  <2>4. QED  BY <2>1, <2>2, <2>3 DEF Results, PacketSeq
<1>2. ASSUME NEW q \in Results PROVE completePacketData(Before(P, q)) = Before(P, completePacketData(q))
  <2> DEFINE p == [type |-> q.codec.currPacket, data |-> q.codec.headerData.data]
             s == q.packets
  <2>1. q.codec \in Codecs /\ q.failed \in BOOLEAN /\ s \in PacketSeq  BY DEF Results, PacketSeq
  <2>2. p \in [type : Byte, data : Seq(Byte)]  BY <2>1 DEF Codecs
  <2>3. completePacketData(q) = [codec |-> FreshCodec, packets |-> Append(s, p), failed |-> q.failed]
    <3>1. completePacketData(q) = [q EXCEPT !.packets = Append(s, p), !.codec = FreshCodec]
      BY DEF completePacketData
    <3> HIDE DEF p, s
    <3>2. QED  BY <3>1, AsRecord
  <2>4. completePacketData(Before(P, q))
        = [codec |-> FreshCodec, packets |-> Append(P \o s, p), failed |-> q.failed]
    <3>1. /\ Before(P, q).codec = q.codec /\ Before(P, q).packets = P \o s
          /\ Before(P, q).failed = q.failed /\ Before(P, q) \in Results
      BY <1>1
    <3>2. completePacketData(Before(P, q))
          = [Before(P, q) EXCEPT !.packets = Append(P \o s, p), !.codec = FreshCodec]
      BY <3>1 DEF completePacketData
    <3> HIDE DEF p, s
    <3>3. QED  BY <3>1, <3>2, AsRecord
  <2>5. completePacketData(q) \in Results  BY CompleteType
  <2>6. Before(P, completePacketData(q))
        = [codec |-> FreshCodec, packets |-> P \o Append(s, p), failed |-> q.failed]
    BY <1>1, <2>3, <2>5
  <2>7. Append(P \o s, p) = P \o Append(s, p)
    <3> HIDE DEF p, s
    <3>1. /\ P \in Seq([type : Byte, data : Seq(Byte)]) /\ s \in Seq([type : Byte, data : Seq(Byte)])
          /\ <<p>> \in Seq([type : Byte, data : Seq(Byte)])
      BY <2>1, <2>2 DEF PacketSeq
    <3>2. P \o s \in Seq([type : Byte, data : Seq(Byte)])  BY <3>1, ConcatProperties
    <3>3. (P \o s) \o <<p>> = P \o (s \o <<p>>)  BY <3>1, ConcatAssociative
    <3>4. QED  BY <2>2, <3>1, <3>2, <3>3, AppendIsConcat
  <2>8. QED  BY <2>4, <2>6, <2>7
<1>4. prepareheaderDataInfo(Before(P, r), b) = Before(P, prepareheaderDataInfo(r, b))
  BY <1>1 DEF prepareheaderDataInfo, Before, Results
<1>5. FixedHeader(Before(P, r), b) = Before(P, FixedHeader(r, b))
  <2> DEFINE s == prepareheaderDataInfo(r, b)
  <2>1. s \in Results  BY LengthByteType
  <2>2. prepareheaderDataInfo(Before(P, r), b) = Before(P, s)  BY <1>4
  <2> HIDE DEF s
  <2>3. Before(P, s).failed = s.failed /\ Before(P, s).codec = s.codec  BY <1>1, <2>1
  <2>4. completePacketData(Before(P, s)) = Before(P, completePacketData(s))  BY <1>2, <2>1
  <2>5. [Before(P, r) EXCEPT !.codec.currPacket = b] = Before(P, [r EXCEPT !.codec.currPacket = b])
    BY DEF Before, Results
  <2>6. Before(P, r).codec = r.codec  BY <1>1
  <2>7. QED  BY <2>2, <2>3, <2>4, <2>5, <2>6 DEF FixedHeader, s
<1>6. VarHeader(Before(P, r), b) = Before(P, VarHeader(r, b))
  <2> DEFINE s == [r EXCEPT !.codec.headerData.data = Append(@, b)]
             t == [Before(P, r) EXCEPT !.codec.headerData.data = Append(@, b)]
  <2>1. t = Before(P, s)  BY DEF Before, Results
  <2>2. s \in Results
    <3>1. r.codec \in Codecs  BY DEF Results
    <3>2. Append(r.codec.headerData.data, b) \in Seq(Byte)  BY <3>1 DEF Codecs
    <3>3. QED  BY <3>1, <3>2 DEF Results, Codecs
  <2>3. [Before(P, r) EXCEPT !.codec.state = "PAYLOAD"] = Before(P, [r EXCEPT !.codec.state = "PAYLOAD"])
    BY DEF Before, Results
  <2>4. Before(P, r).codec = r.codec  BY <1>1
  <2>5. VarHeader(r, b) = IF r.codec.headerData.len = 0 THEN [r EXCEPT !.codec.state = "PAYLOAD"]
                          ELSE IF Len(s.codec.headerData.data) >= s.codec.headerData.len
                               THEN completePacketData(s) ELSE s
    BY DEF VarHeader
  <2>6. VarHeader(Before(P, r), b)
          = IF Before(P, r).codec.headerData.len = 0
            THEN [Before(P, r) EXCEPT !.codec.state = "PAYLOAD"]
            ELSE IF Len(t.codec.headerData.data) >= t.codec.headerData.len
                 THEN completePacketData(t) ELSE t
    BY DEF VarHeader
  <2> HIDE DEF s, t
  <2>7. t.codec = s.codec  BY <1>1, <2>1, <2>2
  <2>8. completePacketData(t) = Before(P, completePacketData(s))  BY <1>2, <2>1, <2>2
  <2>9. QED  BY <2>1, <2>3, <2>4, <2>5, <2>6, <2>7, <2>8
<1>7. [Before(P, r) EXCEPT !.failed = TRUE] = Before(P, [r EXCEPT !.failed = TRUE])
  BY DEF Before, Results
<1>8. Before(P, r).failed = r.failed /\ Before(P, r).codec = r.codec  BY <1>1
<1>9. QED  BY <1>1, <1>5, <1>6, <1>7, <1>8 DEF ByteReceived

\* Reading gives a result.
LEMMA ReadType ==
  ASSUME NEW c \in Codecs, NEW t \in Seq(Byte) PROVE mqtt_codec_bytesReceived(c, t) \in Results
<1> DEFINE Bad == {n \in Nat : \E s \in Seq(Byte) : Len(s) = n /\ mqtt_codec_bytesReceived(c, s) \notin Results}
<1>1. \A n \in Bad : \E m \in Bad : m < n
  <2> SUFFICES ASSUME NEW n \in Bad PROVE \E m \in Bad : m < n  OBVIOUS
  <2>1. PICK s \in Seq(Byte) : Len(s) = n /\ mqtt_codec_bytesReceived(c, s) \notin Results  OBVIOUS
  <2>2. s # <<>>
    <3>1. mqtt_codec_bytesReceived(c, <<>>) \in Results  BY ReadNone, ProgressType
    <3>2. QED  BY <2>1, <3>1
  <2>3. PICK q \in Seq(Byte), b \in Byte : s = Append(q, b)  BY <2>2, SequenceEmptyOrAppend
  <2>4. Len(q) \in Nat /\ Len(q) < n  BY <2>1, <2>3
  <2>5. mqtt_codec_bytesReceived(c, q) \notin Results  BY <2>1, <2>3, ReadByte, ByteType
  <2>6. QED  BY <2>4, <2>5
<1>2. Bad = {}
  <2>1. Bad \in SUBSET Nat  OBVIOUS
  <2> HIDE DEF Bad
  <2>2. QED  BY <1>1, <2>1, NoLeast
<1>3. Len(t) \in Nat  OBVIOUS
<1>4. QED  BY <1>2, <1>3

\* Reading on from a result, which an error prevents.
Then(r, q) == IF r.failed THEN r ELSE Before(r.packets, q)

\* Reading on and a byte more.
LEMMA ThenByte ==
  ASSUME NEW r \in Results, NEW q \in Results, NEW b \in Byte
  PROVE  ByteReceived(Then(r, q), b) = Then(r, ByteReceived(q, b))
<1>1. CASE r.failed
  <2>1. Then(r, q) = r /\ Then(r, ByteReceived(q, b)) = r  BY <1>1 DEF Then
  <2>2. ByteReceived(r, b) = r  BY <1>1 DEF ByteReceived
  <2>3. QED  BY <2>1, <2>2
<1>2. CASE ~r.failed
  <2>1. r.packets \in PacketSeq  BY DEF Results, PacketSeq
  <2>2. ByteReceived(Before(r.packets, q), b) = Before(r.packets, ByteReceived(q, b))  BY <2>1, BeforeByte
  <2>3. QED  BY <1>2, <2>2 DEF Then
<1>3. QED  BY <1>1, <1>2

\* Bytes that come in pieces are read as if they came at once.
LEMMA ReadPieces ==
  ASSUME NEW c \in Codecs, NEW s \in Seq(Byte), NEW t \in Seq(Byte)
  PROVE  LET r == mqtt_codec_bytesReceived(c, s)
         IN  mqtt_codec_bytesReceived(c, s \o t) = Then(r, mqtt_codec_bytesReceived(r.codec, t))
<1> DEFINE r == mqtt_codec_bytesReceived(c, s)
           Good(u) == mqtt_codec_bytesReceived(c, s \o u) = Then(r, mqtt_codec_bytesReceived(r.codec, u))
           Bad == {n \in Nat : \E u \in Seq(Byte) : Len(u) = n /\ ~Good(u)}
<1>1. r \in Results /\ r.codec \in Codecs
  <2>1. r \in Results  BY ReadType
  <2> HIDE DEF r
  <2>2. QED  BY <2>1 DEF Results
<1>2. r.packets \in PacketSeq /\ r.failed \in BOOLEAN
  <2> HIDE DEF r
  <2>1. QED  BY <1>1 DEF Results, PacketSeq
<1>3. Good(<<>>)
  <2>1. s \o <<>> = s  BY ConcatEmptySeq
  <2>2. mqtt_codec_bytesReceived(r.codec, <<>>) = Progress(r.codec)  BY ReadNone
  <2>3. Then(r, Progress(r.codec)) = r
    <3> HIDE DEF r
    <3>1. CASE r.failed  BY <3>1 DEF Then
    <3>2. CASE ~r.failed
      <4>1. r.packets \o <<>> = r.packets  BY <1>2, ConcatEmptySeq DEF PacketSeq
      <4>2. Progress(r.codec) \in Results  BY <1>1, ProgressType
      <4>3. Before(r.packets, Progress(r.codec)) = [codec |-> r.codec, packets |-> r.packets, failed |-> FALSE]
        <5>1. /\ Progress(r.codec).codec = r.codec /\ Progress(r.codec).packets = <<>>
              /\ Progress(r.codec).failed = FALSE
          BY DEF Progress
        <5>2. Before(r.packets, Progress(r.codec))
              = [Progress(r.codec) EXCEPT !.packets = r.packets \o <<>>]
          BY <5>1 DEF Before
        <5>3. QED  BY <4>1, <4>2, <5>1, <5>2, AsRecord
      <4>4. r = [codec |-> r.codec, packets |-> r.packets, failed |-> r.failed]  BY <1>1 DEF Results
      <4>5. r.failed = FALSE  BY <1>2, <3>2
      <4>6. r = [codec |-> r.codec, packets |-> r.packets, failed |-> FALSE]  BY <4>4, <4>5, Zenon
      <4>7. QED  BY <3>2, <4>3, <4>6 DEF Then
    <3>3. QED  BY <3>1, <3>2
  <2>4. QED  BY <2>1, <2>2, <2>3
<1>4. ASSUME NEW u \in Seq(Byte), NEW b \in Byte, Good(u) PROVE Good(Append(u, b))
  <2>1. s \o Append(u, b) = Append(s \o u, b) /\ s \o u \in Seq(Byte)
    <3>1. <<b>> \in Seq(Byte) /\ s \o u \in Seq(Byte)  BY ConcatProperties
    <3>2. (s \o u) \o <<b>> = s \o (u \o <<b>>)  BY <3>1, ConcatAssociative
    <3>3. QED  BY <3>1, <3>2, AppendIsConcat
  <2>2. mqtt_codec_bytesReceived(c, Append(s \o u, b)) = ByteReceived(mqtt_codec_bytesReceived(c, s \o u), b)
    BY <2>1, ReadByte
  <2>3. mqtt_codec_bytesReceived(r.codec, Append(u, b)) = ByteReceived(mqtt_codec_bytesReceived(r.codec, u), b)
    BY ReadByte
  <2>4. mqtt_codec_bytesReceived(r.codec, u) \in Results  BY <1>1, ReadType
  <2>5. ByteReceived(Then(r, mqtt_codec_bytesReceived(r.codec, u)), b)
        = Then(r, ByteReceived(mqtt_codec_bytesReceived(r.codec, u), b))
    BY <1>1, <2>4, ThenByte
  <2>6. QED  BY <1>4, <2>1, <2>2, <2>3, <2>5
<1>5. \A n \in Bad : \E m \in Bad : m < n
  <2> SUFFICES ASSUME NEW n \in Bad PROVE \E m \in Bad : m < n  OBVIOUS
  <2> HIDE DEF Good
  <2>1. PICK u \in Seq(Byte) : Len(u) = n /\ ~Good(u)  OBVIOUS
  <2>2. u # <<>>  BY <1>3, <2>1
  <2>3. PICK q \in Seq(Byte), b \in Byte : u = Append(q, b)  BY <2>2, SequenceEmptyOrAppend
  <2>4. Len(q) \in Nat /\ Len(q) < n  BY <2>1, <2>3
  <2>5. ~Good(q)  BY <1>4, <2>1, <2>3
  <2>6. QED  BY <2>4, <2>5
<1>6. Bad = {}
  <2>1. Bad \in SUBSET Nat  OBVIOUS
  <2> HIDE DEF Bad
  <2>2. QED  BY <1>5, <2>1, NoLeast
<1>7. Len(t) \in Nat  OBVIOUS
<1>8. Good(t)
  <2> HIDE DEF Good
  <2>1. QED  BY <1>6, <1>7
<1>9. QED  BY <1>8

\* Division by the base, and the digits with and without their high bit.
LEMMA Divided ==
  ASSUME NEW m \in Nat
  PROVE  /\ m \div Base \in Nat /\ m % Base \in 0 .. Base - 1 /\ m = Base * (m \div Base) + (m % Base)
         /\ m >= Base => m \div Base > 0 /\ m \div Base < m
         /\ m < Base => m % Base = m /\ m \in Byte
         /\ Base + (m % Base) \in Byte /\ (Base + (m % Base)) % Base = m % Base
<1>1. Base \in Nat /\ Base > 1  BY Bases
<1> DEFINE q == m \div Base
           d == m % Base
<1>2. q \in Int /\ d \in 0 .. Base - 1 /\ m = Base * q + d  BY <1>1
<1>3. \A x \in Int, y \in Int, e \in 0 .. Base - 1 : x = Base * y + e => x % Base = e
  <2> SUFFICES ASSUME NEW x \in Int, NEW y \in Int, NEW e \in 0 .. Base - 1, x = Base * y + e
               PROVE  x % Base = e
    OBVIOUS
  <2> DEFINE z == x \div Base
             f == x % Base
  <2>1. z \in Int /\ f \in 0 .. Base - 1 /\ x = Base * z + f  BY <1>1
  <2> HIDE DEF z, f
  <2> DEFINE w == z - y
             p == Base * w
  <2>2. p = e - f /\ w \in Int /\ p \in Int  BY <1>1, <2>1
  <2>3. p < Base /\ p > -Base  BY <1>1, <2>1, <2>2
  <2>4. w >= 1 => p >= Base  BY <1>1, <2>2
  <2>5. w <= -1 => p <= -Base  BY <1>1, <2>2
  <2> HIDE DEF p
  <2>6. w = 0  BY <1>1, <2>2, <2>3, <2>4, <2>5
  <2>7. p = 0
    <3> HIDE DEF w
    <3>1. QED  BY <1>1, <2>6 DEF p
  <2>8. e = f  BY <2>1, <2>2, <2>7
  <2>9. QED  BY <2>8 DEF f
<1> HIDE DEF q, d
<1>4. q >= 0
  <2>1. CASE q <= -1
    <3>1. Base * q <= -Base  BY <1>1, <1>2, <2>1
    <3>2. QED  BY <1>1, <1>2, <3>1
  <2>2. QED  BY <1>2, <2>1
<1>5. ASSUME m >= Base PROVE q > 0 /\ q < m
  <2>1. q # 0  BY <1>1, <1>2, <1>5
  <2>2. Base * q >= 2 * q  BY <1>1, <1>2, <1>4
  <2>3. QED  BY <1>1, <1>2, <1>4, <2>1, <2>2
<1>6. ASSUME m < Base PROVE d = m /\ m \in Byte
  <2>1. m = Base * 0 + m /\ m \in 0 .. Base - 1  BY <1>1, <1>6
  <2>2. m % Base = m  BY <1>3, <2>1
  <2>3. QED  BY <1>1, <1>6, <2>2 DEF d, Byte
<1>7. Base + d \in Byte /\ (Base + d) % Base = d
  <2>1. Base + d = Base * 1 + d /\ Base + d \in Int  BY <1>1, <1>2
  <2>2. (Base + d) % Base = d  BY <1>2, <1>3, <2>1
  <2>3. QED  BY <1>1, <1>2, <2>2 DEF Byte
<1>8. QED  BY <1>2, <1>4, <1>5, <1>6, <1>7 DEF q, d

\* What the digits s say of a number m: all but the last have the high bit, up to three
\* of them tell its value, and a small number has one.
Writes(s, m) ==
  /\ s \in Seq(Byte) /\ Len(s) > 0 /\ s[Len(s)] < Base
  /\ \A i \in 1 .. Len(s) - 1 : s[i] >= Base
  /\ m < Base => s = <<m>>
  /\ Len(s) = 1 => m = s[1] % Base
  /\ Len(s) = 2 => m = (s[1] % Base) + Base * (s[2] % Base)
  /\ Len(s) = 3 => m = (s[1] % Base) + Base * ((s[2] % Base) + Base * (s[3] % Base))

\* A number below the base is written as itself.
LEMMA OneDigit == ASSUME NEW m \in Nat, m < Base PROVE Writes(<<m>>, m)
<1>1. m % Base = m /\ m \in Byte  BY Divided
<1>2. <<m>> \in Seq(Byte) /\ Len(<<m>>) = 1 /\ <<m>>[1] = m  BY <1>1
<1>3. QED  BY <1>1, <1>2 DEF Writes

\* A digit in front of those of the quotient.
LEMMA MoreDigits ==
  ASSUME NEW m \in Nat, m >= Base, NEW s, Writes(s, m \div Base)
  PROVE  Writes(<<Base + (m % Base)>> \o s, m)
<1> DEFINE b == Base + (m % Base)
           q == m \div Base
           t == <<b>> \o s
           n == Len(s)
<1>1. Base \in Nat /\ Base > 1  BY Bases
<1>2. b \in Byte /\ b >= Base /\ b % Base = m % Base /\ q \in Nat /\ m = Base * q + (m % Base)
  <2> DEFINE e == m % Base
  <2>1. /\ q \in Nat /\ e \in 0 .. Base - 1 /\ m = Base * q + e
        /\ Base + e \in Byte /\ (Base + e) % Base = e
    BY Divided
  <2> HIDE DEF e, q
  <2>2. Base + e >= Base  BY <1>1, <2>1
  <2>3. QED  BY <2>1, <2>2 DEF e
<1>3. s \in Seq(Byte) /\ n \in Nat /\ n > 0 /\ s[n] < Base /\ \A i \in 1 .. n - 1 : s[i] >= Base
  BY DEF Writes
<1>4. t \in Seq(Byte) /\ Len(t) = n + 1 /\ t[1] = b /\ \A i \in 1 .. n : t[i + 1] = s[i]
  <2>1. <<b>> \in Seq(Byte) /\ Len(<<b>>) = 1  BY <1>2
  <2> HIDE DEF b
  <2>2. QED  BY <1>3, <2>1, ConcatProperties
<1>5. /\ n = 1 => q = s[1] % Base
      /\ n = 2 => q = (s[1] % Base) + Base * (s[2] % Base)
  BY DEF Writes
<1> HIDE DEF b, q, t, n
<1>6. t[Len(t)] < Base
  <2>1. n \in 1 .. n  BY <1>3
  <2>2. QED  BY <1>3, <1>4, <2>1
<1>7. ASSUME NEW i \in 1 .. Len(t) - 1 PROVE t[i] >= Base
  <2>1. CASE i = 1  BY <1>2, <1>4, <2>1
  <2>2. CASE i # 1
    <3>1. i - 1 \in 1 .. n - 1 /\ i - 1 \in 1 .. n /\ (i - 1) + 1 = i  BY <1>3, <1>4, <2>2
    <3>2. QED  BY <1>3, <1>4, <3>1
  <2>3. QED  BY <2>1, <2>2
<1>8. ASSUME Len(t) = 2 PROVE m = (t[1] % Base) + Base * (t[2] % Base)
  <2>1. n = 1 /\ 1 \in 1 .. n
    <3>1. n + 1 = 2  BY <1>4, <1>8
    <3>2. QED  BY <1>3, <3>1
  <2>2. t[2] = s[1]  BY <1>4, <2>1
  <2>3. t[1] % Base = m % Base /\ t[2] % Base = q  BY <1>2, <1>4, <1>5, <2>1, <2>2
  <2> DEFINE d == m % Base
  <2>4. m = Base * q + d /\ d \in Int  BY <1>1, <1>2, Divided
  <2> HIDE DEF d
  <2>5. m = d + Base * q  BY <1>1, <1>2, <2>4
  <2>6. QED  BY <2>3, <2>5 DEF d
<1>9. ASSUME Len(t) = 3
      PROVE  m = (t[1] % Base) + Base * ((t[2] % Base) + Base * (t[3] % Base))
  <2>1. n = 2 /\ 1 \in 1 .. n /\ 2 \in 1 .. n
    <3>1. n + 1 = 3  BY <1>4, <1>9
    <3>2. QED  BY <1>3, <3>1
  <2>2. t[2] = s[1] /\ t[3] = s[2]  BY <1>4, <2>1
  <2>3. t[1] % Base = m % Base /\ (t[2] % Base) + Base * (t[3] % Base) = q
    BY <1>2, <1>4, <1>5, <2>1, <2>2
  <2> DEFINE d == m % Base
  <2>4. m = Base * q + d /\ d \in Int  BY <1>1, <1>2, Divided
  <2> HIDE DEF d
  <2>5. m = d + Base * q  BY <1>1, <1>2, <2>4
  <2>6. QED  BY <2>3, <2>5 DEF d
<1>10. /\ t \in Seq(Byte) /\ Len(t) > 0 /\ Len(t) # 1 /\ ~ (m < Base)
  BY <1>1, <1>3, <1>4
<1>11. Writes(t, m)  BY <1>6, <1>7, <1>8, <1>9, <1>10 DEF Writes
<1>12. QED  BY <1>11 DEF t, b

\* The digits the client and the hub write say the length.
LEMMA DigitsWrite == ASSUME NEW n \in Nat PROVE Writes(Digits(n), n)
<1> DEFINE Step(g, m) == IF m < Base THEN <<m>> ELSE <<Base + (m % Base)>> \o g[m \div Base]
           Fits(g, k) == g = [m \in 0 .. k |-> Step(g, m)]
           Bad == {k \in Nat : ~ \E g : Fits(g, k)}
           d == CHOOSE g : Fits(g, n)
           Wrong == {m \in 0 .. n : ~ Writes(d[m], m)}
<1>1. Base \in Nat /\ Base > 1  BY Bases
<1>2. \E g : Fits(g, 0)
  <2> DEFINE g == [m \in 0 .. 0 |-> <<m>>]
  <2>1. \A m \in 0 .. 0 : Step(g, m) = <<m>>  BY <1>1
  <2> HIDE DEF Step
  <2>2. Fits(g, 0)  BY <2>1
  <2> HIDE DEF g
  <2>3. QED  BY <2>2
<1>3. ASSUME NEW k \in Nat, NEW g, Fits(g, k) PROVE \E f : Fits(f, k + 1)
  <2> DEFINE f == [m \in 0 .. k + 1 |-> Step(g, m)]
  <2>1. ASSUME NEW m \in 0 .. k PROVE f[m] = g[m]
    <3>1. m \in 0 .. k + 1  OBVIOUS
    <3>2. f[m] = Step(g, m)  BY <3>1
    <3>3. g[m] = Step(g, m)  BY <1>3
    <3>4. QED  BY <3>2, <3>3
  <2>2. ASSUME NEW m \in 0 .. k + 1 PROVE f[m] = Step(f, m)
    <3>1. f[m] = Step(g, m)  OBVIOUS
    <3>2. CASE m < Base
      <4> HIDE DEF f
      <4>1. QED  BY <3>1, <3>2
    <3>3. CASE ~ (m < Base)
      <4>1. m \div Base \in 0 .. k
        <5>1. m \in Nat /\ m >= Base  BY <1>1, <3>3
        <5>2. m \div Base \in Nat /\ m \div Base < m  BY <5>1, Divided
        <5>3. QED  BY <5>2
      <4>2. f[m \div Base] = g[m \div Base]  BY <2>1, <4>1
      <4> HIDE DEF f
      <4>3. Step(g, m) = Step(f, m)  BY <4>2
      <4>4. QED  BY <3>1, <4>3
    <3>4. QED  BY <3>2, <3>3
  <2>3. f = [m \in 0 .. k + 1 |-> Step(f, m)]
    <3>1. f = [m \in 0 .. k + 1 |-> f[m]]  OBVIOUS
    <3> HIDE DEF f, Step
    <3>2. QED  BY <2>2, <3>1
  <2> HIDE DEF f
  <2>4. QED  BY <2>3
<1>4. Bad = {}
  <2>1. \A k \in Bad : \E j \in Bad : j < k
    <3> SUFFICES ASSUME NEW k \in Bad PROVE \E j \in Bad : j < k  OBVIOUS
    <3> HIDE DEF Fits
    <3>1. k # 0  BY <1>2
    <3>2. k - 1 \in Nat /\ (k - 1) + 1 = k /\ k - 1 < k  BY <3>1
    <3>3. k - 1 \in Bad  BY <1>3, <3>2
    <3>4. QED  BY <3>2, <3>3
  <2>2. Bad \in SUBSET Nat  OBVIOUS
  <2> HIDE DEF Bad
  <2>3. QED  BY <2>1, <2>2, NoLeast
<1>5. Fits(d, n)
  <2> HIDE DEF Fits
  <2>1. QED  BY <1>4
<1>6. Digits(n) = d[n]  BY DEF Digits
<1> HIDE DEF d
<1>7. \A m \in Wrong : \E j \in Wrong : j < m
  <2> SUFFICES ASSUME NEW m \in Wrong PROVE \E j \in Wrong : j < m  OBVIOUS
  <2>1. m \in 0 .. n /\ m \in Nat /\ ~ Writes(d[m], m)  OBVIOUS
  <2>2. d[m] = Step(d, m)  BY <1>5, <2>1
  <2>3. ~ (m < Base)  BY <2>1, <2>2, OneDigit
  <2>4. m >= Base  BY <1>1, <2>1, <2>3
  <2>5. m \div Base \in Nat /\ m \div Base < m  BY <2>1, <2>4, Divided
  <2>6. m \div Base \in 0 .. n  BY <2>1, <2>5
  <2>7. d[m] = <<Base + (m % Base)>> \o d[m \div Base]  BY <2>2, <2>3
  <2>8. ~ Writes(d[m \div Base], m \div Base)  BY <2>1, <2>4, <2>7, MoreDigits
  <2>9. QED  BY <2>5, <2>6, <2>8
<1>8. Wrong = {}
  <2>1. Wrong \in SUBSET Nat  OBVIOUS
  <2> HIDE DEF Wrong
  <2>2. QED  BY <1>7, <2>1, NoLeast
<1>9. QED  BY <1>6, <1>8

\* Up to three digits are read as the number they were written for.
LEMMA LengthRead ==
  ASSUME NEW m \in Nat, NEW s, Writes(s, m), Len(s) <= 3
  PROVE  RemainingLength(s) = m
<1>1. s \in Seq(Byte) /\ Len(s) \in 1 .. 3
  <2>1. s \in Seq(Byte) /\ Len(s) > 0 /\ Len(s) <= 3  BY DEF Writes
  <2>2. Len(s) \in Nat  BY <2>1
  <2> DEFINE n == Len(s)
  <2>3. n \in Nat /\ n > 0 /\ n <= 3  BY <2>1, <2>2
  <2> HIDE DEF n
  <2>4. n \in 1 .. 3  BY <2>3
  <2>5. QED  BY <2>1, <2>4 DEF n
<1>2. PICK g : /\ g[Len(s) + 1] = 0
               /\ \A i \in 1 .. Len(s) : g[i] = (s[i] % Base) + Base * g[i + 1]
               /\ RemainingLength(s) = g[1]
  BY <1>1, LengthTable
<1>3. Base \in Nat /\ \A i \in 1 .. Len(s) : s[i] % Base \in Nat
  <2>1. \A i \in 1 .. Len(s) : s[i] \in Byte  BY <1>1
  <2>2. QED  BY <2>1, Bases
<1>4. CASE Len(s) = 1
  <2>1. g[2] = 0 /\ g[1] = (s[1] % Base) + Base * g[2]  BY <1>2, <1>4
  <2>2. g[1] = s[1] % Base  BY <1>3, <1>4, <2>1
  <2>3. QED  BY <1>2, <1>4, <2>2 DEF Writes
<1>5. CASE Len(s) = 2
  <2>1. g[3] = 0 /\ g[2] = (s[2] % Base) + Base * g[3] /\ g[1] = (s[1] % Base) + Base * g[2]
    BY <1>2, <1>5
  <2>2. g[2] = s[2] % Base  BY <1>3, <1>5, <2>1
  <2>3. QED  BY <1>2, <1>5, <2>1, <2>2 DEF Writes
<1>6. CASE Len(s) = 3
  <2>1. /\ g[4] = 0 /\ g[3] = (s[3] % Base) + Base * g[4] /\ g[2] = (s[2] % Base) + Base * g[3]
        /\ g[1] = (s[1] % Base) + Base * g[2]
    BY <1>2, <1>6
  <2>2. g[3] = s[3] % Base  BY <1>3, <1>6, <2>1
  <2>3. QED  BY <1>2, <1>6, <2>1, <2>2 DEF Writes
<1>7. QED  BY <1>1, <1>4, <1>5, <1>6

\* The codec while it reads the length, and while it reads the data of a packet.
InLength(ty, digits) ==
  [state |-> "FIXED_HEADER", currPacket |-> ty, storeRemainLen |-> digits, headerData |-> NoBuffer]
InData(ty, n, data) ==
  [state |-> "VAR_HEADER", currPacket |-> ty, storeRemainLen |-> <<>>,
   headerData |-> [len |-> n, data |-> data]]
Failure(c) == [codec |-> c, packets |-> <<>>, failed |-> TRUE]

\* Results are the same if their fields are.
LEMMA SameResult ==
  ASSUME NEW r \in Results, NEW q \in Results,
         r.failed = q.failed, r.packets = q.packets, r.codec.state = q.codec.state,
         r.codec.currPacket = q.codec.currPacket, r.codec.storeRemainLen = q.codec.storeRemainLen,
         r.codec.headerData.len = q.codec.headerData.len,
         r.codec.headerData.data = q.codec.headerData.data
  PROVE  r = q
<1>1. r.codec \in Codecs /\ q.codec \in Codecs  BY DEF Results
<1>2. r.codec.headerData \in [len : Nat, data : Seq(Byte)] /\ q.codec.headerData \in [len : Nat, data : Seq(Byte)]
  BY <1>1 DEF Codecs
<1>3. r.codec.headerData = q.codec.headerData  BY <1>2
<1> DEFINE c == r.codec
           d == q.codec
<1>4. c \in Codecs /\ d \in Codecs /\ c.state = d.state /\ c.currPacket = d.currPacket
      /\ c.storeRemainLen = d.storeRemainLen /\ c.headerData = d.headerData
  BY <1>1, <1>3
<1>5. c = d
  <2> HIDE DEF c, d
  <2>1. QED  BY <1>4 DEF Codecs
<1>6. QED  BY <1>5 DEF Results

\* The types and the fields of these states.
LEMMA InLengthType ==
  ASSUME NEW ty \in Byte, NEW s \in Seq(Byte)
  PROVE  /\ InLength(ty, s) \in Codecs /\ Progress(InLength(ty, s)) \in Results
         /\ Failure(InLength(ty, s)) \in Results
<1>1. NoBuffer \in [len : Nat, data : Seq(Byte)]  BY DEF NoBuffer
<1>2. InLength(ty, s) \in Codecs  BY <1>1 DEF InLength, Codecs
<1>3. QED  BY <1>2 DEF Progress, Failure, Results

\* The same while the data is read.
LEMMA InDataType ==
  ASSUME NEW ty \in Byte, NEW n \in Nat, NEW s \in Seq(Byte)
  PROVE  InData(ty, n, s) \in Codecs /\ Progress(InData(ty, n, s)) \in Results
<1>1. <<>> \in Seq(Byte)  OBVIOUS
<1>2. InData(ty, n, s) \in Codecs  BY <1>1 DEF InData, Codecs
<1>3. QED  BY <1>2 DEF Progress, Results

\* One byte alone.
LEMMA ReadOne ==
  ASSUME NEW c, NEW b \in Byte
  PROVE  mqtt_codec_bytesReceived(c, <<b>>) = ByteReceived(Progress(c), b)
<1>1. <<>> \in Seq(Byte) /\ Append(<<>>, b) = <<b>>  OBVIOUS
<1>2. QED  BY <1>1, ReadNone, ReadByte

\* The type.
LEMMA TypeRead ==
  ASSUME NEW ty \in Byte
  PROVE  mqtt_codec_bytesReceived(FreshCodec, <<ty>>) = Progress(InLength(ty, <<>>))
<1>1. mqtt_codec_bytesReceived(FreshCodec, <<ty>>) = ByteReceived(Progress(FreshCodec), ty)
  BY ReadOne
<1> DEFINE r == Progress(FreshCodec)
           q == [r EXCEPT !.codec.currPacket = ty]
           p == Progress(InLength(ty, <<>>))
<1>2. ByteReceived(r, ty) = q  BY DEF ByteReceived, FixedHeader, Progress, FreshCodec
<1>3. q \in Results
  <2>1. r \in Results  BY FreshType, ProgressType
  <2> HIDE DEF q, r
  <2>2. QED  BY <1>2, <2>1, ByteType
<1>4. /\ q.failed = FALSE /\ q.packets = <<>> /\ q.codec.state = "FIXED_HEADER"
      /\ q.codec.currPacket = ty /\ q.codec.storeRemainLen = <<>> /\ q.codec.headerData = NoBuffer
  BY DEF Progress, FreshCodec
<1>5. /\ p.failed = FALSE /\ p.packets = <<>> /\ p.codec.state = "FIXED_HEADER"
      /\ p.codec.currPacket = ty /\ p.codec.storeRemainLen = <<>> /\ p.codec.headerData = NoBuffer
  BY DEF Progress, InLength
<1>6. p \in Results
  <2>1. <<>> \in Seq(Byte)  OBVIOUS
  <2>2. QED  BY <2>1, InLengthType
<1> HIDE DEF q, p, r
<1>7. q = p  BY <1>3, <1>4, <1>5, <1>6, SameResult
<1>8. QED  BY <1>1, <1>2, <1>7 DEF p, r

\* The digits of the length but the last.
LEMMA DigitRead ==
  ASSUME NEW ty \in Byte \ {UNKNOWN_TYPE, PINGRESP}, NEW s \in Seq(Byte), NEW b \in Byte, b >= Base
  PROVE  ByteReceived(Progress(InLength(ty, s)), b) = Progress(InLength(ty, Append(s, b)))
<1> DEFINE r == Progress(InLength(ty, s))
           q == [r EXCEPT !.codec.storeRemainLen = Append(s, b)]
           p == Progress(InLength(ty, Append(s, b)))
<1>1. /\ r.codec.storeRemainLen = s /\ r.codec.currPacket = ty /\ r.codec.state = "FIXED_HEADER"
      /\ r.failed = FALSE /\ r.packets = <<>> /\ r.codec.headerData = NoBuffer
  BY DEF Progress, InLength
<1>2. r \in Results  BY InLengthType
<1>3. p \in Results
  <2>1. Append(s, b) \in Seq(Byte)  OBVIOUS
  <2>2. QED  BY <2>1, InLengthType
<1>4. /\ p.codec.storeRemainLen = Append(s, b) /\ p.codec.currPacket = ty
      /\ p.codec.state = "FIXED_HEADER" /\ p.failed = FALSE /\ p.packets = <<>>
      /\ p.codec.headerData = NoBuffer
  BY DEF Progress, InLength
<1> HIDE DEF r, p
<1>5. /\ q.codec.storeRemainLen = Append(s, b) /\ q.codec.currPacket = ty
      /\ q.codec.state = "FIXED_HEADER" /\ q.failed = FALSE /\ q.packets = <<>>
      /\ q.codec.headerData = NoBuffer
  BY <1>1, <1>2 DEF Results, Codecs
<1>6. prepareheaderDataInfo(r, b) = q  BY <1>1 DEF prepareheaderDataInfo
<1> HIDE DEF q
<1>7. FixedHeader(r, b) = q  BY <1>1, <1>5, <1>6 DEF FixedHeader
<1>8. ByteReceived(r, b) = q  BY <1>1, <1>7 DEF ByteReceived
<1>9. q \in Results  BY <1>2, <1>8, ByteType
<1>10. q = p  BY <1>3, <1>4, <1>5, <1>9, SameResult
<1>11. QED  BY <1>8, <1>10 DEF r, p

\* All of these digits.
LEMMA DigitsRead ==
  ASSUME NEW ty \in Byte \ {UNKNOWN_TYPE, PINGRESP}, NEW s \in Seq(Byte),
         \A i \in 1 .. Len(s) : s[i] >= Base
  PROVE  mqtt_codec_bytesReceived(InLength(ty, <<>>), s) = Progress(InLength(ty, s))
<1> DEFINE High(u) == \A i \in 1 .. Len(u) : u[i] >= Base
           Good(u) == mqtt_codec_bytesReceived(InLength(ty, <<>>), u) = Progress(InLength(ty, u))
           Bad == {n \in Nat : \E u \in Seq(Byte) : Len(u) = n /\ High(u) /\ ~Good(u)}
<1>1. Good(<<>>)  BY ReadNone
<1>2. ASSUME NEW u \in Seq(Byte), NEW b \in Byte, b >= Base, Good(u) PROVE Good(Append(u, b))
  BY <1>2, ReadByte, DigitRead
<1>3. ASSUME NEW u \in Seq(Byte), NEW b \in Byte, High(Append(u, b)) PROVE High(u) /\ b >= Base
  <2>1. /\ Len(u) \in Nat /\ Len(Append(u, b)) = Len(u) + 1 /\ Append(u, b)[Len(u) + 1] = b
        /\ \A i \in 1 .. Len(u) : Append(u, b)[i] = u[i]
    OBVIOUS
  <2>2. Len(u) + 1 \in 1 .. Len(u) + 1 /\ \A i \in 1 .. Len(u) : i \in 1 .. Len(u) + 1  BY <2>1
  <2>3. QED  BY <1>3, <2>1, <2>2
<1>4. \A n \in Bad : \E m \in Bad : m < n
  <2> SUFFICES ASSUME NEW n \in Bad PROVE \E m \in Bad : m < n  OBVIOUS
  <2> HIDE DEF Good, High
  <2>1. PICK u \in Seq(Byte) : Len(u) = n /\ High(u) /\ ~Good(u)  OBVIOUS
  <2>2. u # <<>>  BY <1>1, <2>1
  <2>3. PICK q \in Seq(Byte), b \in Byte : u = Append(q, b)  BY <2>2, SequenceEmptyOrAppend
  <2>4. Len(q) \in Nat /\ Len(q) < n  BY <2>1, <2>3
  <2>5. High(q) /\ ~Good(q)  BY <1>2, <1>3, <2>1, <2>3
  <2>6. QED  BY <2>4, <2>5
<1>5. Bad = {}
  <2>1. Bad \in SUBSET Nat  OBVIOUS
  <2> HIDE DEF Bad
  <2>2. QED  BY <1>4, <2>1, NoLeast
<1>6. Len(s) \in Nat /\ High(s)  OBVIOUS
<1>7. Good(s)
  <2> HIDE DEF Good, High
  <2>1. QED  BY <1>5, <1>6
<1>8. QED  BY <1>7

\* The last digit: the length is refused, or the data or nothing follow.
LEMMA LastDigitRead ==
  ASSUME NEW ty \in Byte \ {UNKNOWN_TYPE, PINGRESP}, NEW s \in Seq(Byte), NEW b \in Byte, b < Base,
         NEW m \in Nat \ {0}, Writes(Append(s, b), m)
  PROVE  ByteReceived(Progress(InLength(ty, s)), b)
           \in {Failure(InLength(ty, s)), Progress(InData(ty, m, <<>>))}
<1> DEFINE r == Progress(InLength(ty, s))
           digits == Append(s, b)
           total == RemainingLength(digits)
           f == [r EXCEPT !.failed = TRUE]
           q == [r EXCEPT !.codec.state = "VAR_HEADER", !.codec.storeRemainLen = <<>>,
                          !.codec.headerData = [len |-> total, data |-> <<>>]]
           d == Failure(InLength(ty, s))
           p == Progress(InData(ty, m, <<>>))
<1>1. /\ r.codec.storeRemainLen = s /\ r.codec.currPacket = ty /\ r.codec.state = "FIXED_HEADER"
      /\ r.failed = FALSE /\ r.packets = <<>> /\ r.codec.headerData = NoBuffer
  BY DEF Progress, InLength
<1>2. /\ d.codec.storeRemainLen = s /\ d.codec.currPacket = ty /\ d.codec.state = "FIXED_HEADER"
      /\ d.failed = TRUE /\ d.packets = <<>> /\ d.codec.headerData = NoBuffer
  BY DEF Failure, InLength
<1>3. /\ p.codec.storeRemainLen = <<>> /\ p.codec.currPacket = ty /\ p.codec.state = "VAR_HEADER"
      /\ p.failed = FALSE /\ p.packets = <<>>
      /\ p.codec.headerData.len = m /\ p.codec.headerData.data = <<>>
  BY DEF Progress, InData
<1>4. r \in Results /\ d \in Results /\ p \in Results
  <2>1. <<>> \in Seq(Byte)  OBVIOUS
  <2>2. QED  BY <2>1, InLengthType, InDataType
<1>5. Base \in Nat /\ b \in Nat /\ ~ (b >= Base)  BY Bases
<1>6. Len(digits) \in Nat  OBVIOUS
<1>7. Len(digits) <= 3 => total = m  BY LengthRead
<1> HIDE DEF r, digits, total, d, p
<1>8. /\ f.codec.storeRemainLen = s /\ f.codec.currPacket = ty /\ f.codec.state = "FIXED_HEADER"
      /\ f.failed = TRUE /\ f.packets = <<>> /\ f.codec.headerData = NoBuffer
  BY <1>1, <1>4 DEF Results, Codecs
<1>9. /\ q.codec.storeRemainLen = <<>> /\ q.codec.currPacket = ty /\ q.codec.state = "VAR_HEADER"
      /\ q.failed = FALSE /\ q.packets = <<>>
      /\ q.codec.headerData.len = total /\ q.codec.headerData.data = <<>>
  BY <1>1, <1>4 DEF Results, Codecs
<1> DEFINE x == prepareheaderDataInfo(r, b)
<1>10. x = f \/ (x = q /\ total = m)
  <2> HIDE DEF f, q
  <2>1. CASE Len(digits) > 3 \/ total > MAX_SEND_SIZE
    <3>1. x = f  BY <1>1, <1>5, <2>1 DEF prepareheaderDataInfo, digits, total, f
    <3>2. QED  BY <3>1
  <2>2. CASE ~ (Len(digits) > 3 \/ total > MAX_SEND_SIZE)
    <3>1. total = m /\ total > 0  BY <1>6, <1>7, <2>2
    <3>2. x = q  BY <1>1, <1>5, <2>2, <3>1 DEF prepareheaderDataInfo, digits, total, q
    <3>3. QED  BY <3>1, <3>2
  <2>3. QED  BY <2>1, <2>2
<1> HIDE DEF f, q
<1>11. ByteReceived(r, b) = x
  <2>1. x.codec.currPacket = ty  BY <1>8, <1>9, <1>10
  <2> HIDE DEF x
  <2>2. FixedHeader(r, b) = x  BY <1>1, <2>1 DEF FixedHeader, x
  <2>3. QED  BY <1>1, <2>2 DEF ByteReceived
<1>12. x \in Results  BY <1>4, <1>11, ByteType
<1> HIDE DEF x
<1>13. x = f => x = d  BY <1>2, <1>4, <1>8, <1>12, SameResult
<1>14. x = q /\ total = m => x = p  BY <1>3, <1>4, <1>9, <1>12, SameResult
<1>15. QED  BY <1>10, <1>11, <1>13, <1>14 DEF r, d, p

\* A packet completed.
Completed(ty, data) ==
  [codec |-> FreshCodec, packets |-> <<[type |-> ty, data |-> data]>>, failed |-> FALSE]

\* What completePacketData makes of a codec that has read its data.
LEMMA Completes ==
  ASSUME NEW r \in Results, r.packets = <<>>, r.failed = FALSE
  PROVE  completePacketData(r) = Completed(r.codec.currPacket, r.codec.headerData.data)
<1> DEFINE p == [type |-> r.codec.currPacket, data |-> r.codec.headerData.data]
           P == Append(r.packets, p)
<1>1. completePacketData(r) = [r EXCEPT !.packets = P, !.codec = FreshCodec]
  BY DEF completePacketData
<1>2. P = <<p>>  OBVIOUS
<1> HIDE DEF p, P
<1>3. [r EXCEPT !.packets = P, !.codec = FreshCodec] = [codec |-> FreshCodec, packets |-> P, failed |-> r.failed]
  BY AsRecord
<1>4. [codec |-> FreshCodec, packets |-> P, failed |-> r.failed] = [codec |-> FreshCodec, packets |-> <<p>>, failed |-> FALSE]
  BY <1>2
<1>5. QED  BY <1>1, <1>3, <1>4 DEF Completed, p

\* It is a result.
LEMMA CompletedType ==
  ASSUME NEW ty \in Byte, NEW s \in Seq(Byte) PROVE Completed(ty, s) \in Results
<1>1. [type |-> ty, data |-> s] \in [type : Byte, data : Seq(Byte)]  OBVIOUS
<1> DEFINE p == [type |-> ty, data |-> s]
<1>2. <<p>> \in Seq([type : Byte, data : Seq(Byte)])
  <2> HIDE DEF p
  <2>1. p \in [type : Byte, data : Seq(Byte)]  BY <1>1 DEF p
  <2>2. QED  BY <2>1
<1> HIDE DEF p
<1>3. [codec |-> FreshCodec, packets |-> <<p>>, failed |-> FALSE] \in Results
  BY <1>2, FreshType DEF Results
<1>4. QED  BY <1>3 DEF Completed, p

\* The data, the last byte of which completes the packet.
LEMMA DataByte ==
  ASSUME NEW ty \in Byte, NEW m \in Nat, NEW s \in Seq(Byte), Len(s) < m, NEW b \in Byte
  PROVE  ByteReceived(Progress(InData(ty, m, s)), b)
           = IF Len(s) + 1 < m THEN Progress(InData(ty, m, Append(s, b)))
                               ELSE Completed(ty, Append(s, b))
<1> DEFINE r == Progress(InData(ty, m, s))
           t == Append(s, b)
           q == [r EXCEPT !.codec.headerData.data = Append(@, b)]
           p == Progress(InData(ty, m, t))
<1>1. /\ r.codec.storeRemainLen = <<>> /\ r.codec.currPacket = ty /\ r.codec.state = "VAR_HEADER"
      /\ r.failed = FALSE /\ r.packets = <<>>
      /\ r.codec.headerData.len = m /\ r.codec.headerData.data = s
  BY DEF Progress, InData
<1>2. t \in Seq(Byte) /\ Len(t) = Len(s) + 1 /\ Len(s) \in Nat  OBVIOUS
<1>3. r \in Results  BY InDataType
<1>4. p \in Results  BY <1>2, InDataType
<1>5. /\ p.codec.storeRemainLen = <<>> /\ p.codec.currPacket = ty /\ p.codec.state = "VAR_HEADER"
      /\ p.failed = FALSE /\ p.packets = <<>>
      /\ p.codec.headerData.len = m /\ p.codec.headerData.data = t
  BY DEF Progress, InData
<1> HIDE DEF r, p
<1>6. /\ q.codec.storeRemainLen = <<>> /\ q.codec.currPacket = ty /\ q.codec.state = "VAR_HEADER"
      /\ q.failed = FALSE /\ q.packets = <<>>
      /\ q.codec.headerData.len = m /\ q.codec.headerData.data = t
  BY <1>1, <1>3 DEF Results, Codecs
<1>7. q \in Results
  <2> HIDE DEF t
  <2>1. q.codec.headerData.data \in Seq(Byte)  BY <1>2, <1>6
  <2>2. Append(r.codec.headerData.data, b) \in Seq(Byte)  BY <1>1, <1>2 DEF t
  <2>3. QED  BY <1>3, <2>2 DEF Results, Codecs
<1>8. VarHeader(r, b) = IF Len(q.codec.headerData.data) >= q.codec.headerData.len
                        THEN completePacketData(q) ELSE q
  <2>1. r.codec.headerData.len # 0  BY <1>1, <1>2
  <2>2. QED  BY <2>1 DEF VarHeader
<1>9. ByteReceived(r, b) = VarHeader(r, b)  BY <1>1 DEF ByteReceived
<1> HIDE DEF q, t
<1>10. q = p  BY <1>4, <1>5, <1>6, <1>7, SameResult
<1>11. completePacketData(q) = Completed(ty, t)  BY <1>6, <1>7, Completes
<1>12. CASE Len(s) + 1 < m
  <2>1. ~ (Len(t) >= m)  BY <1>2, <1>12
  <2>2. ByteReceived(r, b) = q  BY <1>6, <1>8, <1>9, <2>1
  <2>3. QED  BY <1>10, <1>12, <2>2 DEF r, p, t
<1>13. CASE ~ (Len(s) + 1 < m)
  <2>1. Len(t) >= m  BY <1>2, <1>13
  <2>2. ByteReceived(r, b) = Completed(ty, t)  BY <1>6, <1>8, <1>9, <1>11, <2>1
  <2>3. QED  BY <1>13, <2>2 DEF r, t
<1>14. QED  BY <1>12, <1>13

\* All of the data.
LEMMA DataRead ==
  ASSUME NEW ty \in Byte, NEW m \in Nat \ {0}, NEW s \in Seq(Byte), Len(s) <= m
  PROVE  mqtt_codec_bytesReceived(InData(ty, m, <<>>), s)
           = IF Len(s) < m THEN Progress(InData(ty, m, s)) ELSE Completed(ty, s)
<1> DEFINE Good(u) == mqtt_codec_bytesReceived(InData(ty, m, <<>>), u)
                        = IF Len(u) < m THEN Progress(InData(ty, m, u)) ELSE Completed(ty, u)
           Bad == {n \in Nat : \E u \in Seq(Byte) : Len(u) = n /\ n <= m /\ ~Good(u)}
<1>1. Good(<<>>)
  <2>1. Len(<<>>) = 0 /\ 0 < m  OBVIOUS
  <2>2. QED  BY <2>1, ReadNone
<1>2. ASSUME NEW u \in Seq(Byte), NEW b \in Byte, Good(u), Len(u) < m PROVE Good(Append(u, b))
  <2>1. mqtt_codec_bytesReceived(InData(ty, m, <<>>), u) = Progress(InData(ty, m, u))  BY <1>2
  <2>2. mqtt_codec_bytesReceived(InData(ty, m, <<>>), Append(u, b)) = ByteReceived(Progress(InData(ty, m, u)), b)
    BY <2>1, ReadByte
  <2>3. Len(Append(u, b)) = Len(u) + 1  OBVIOUS
  <2>4. QED  BY <1>2, <2>2, <2>3, DataByte
<1>3. \A n \in Bad : \E k \in Bad : k < n
  <2> SUFFICES ASSUME NEW n \in Bad PROVE \E k \in Bad : k < n  OBVIOUS
  <2> HIDE DEF Good
  <2>1. PICK u \in Seq(Byte) : Len(u) = n /\ n <= m /\ ~Good(u)  OBVIOUS
  <2>2. u # <<>>  BY <1>1, <2>1
  <2>3. PICK q \in Seq(Byte), b \in Byte : u = Append(q, b)  BY <2>2, SequenceEmptyOrAppend
  <2>4. Len(q) \in Nat /\ n = Len(q) + 1  BY <2>1, <2>3
  <2>5. Len(q) < m /\ Len(q) <= m /\ Len(q) < n  BY <2>1, <2>4
  <2>6. ~Good(q)  BY <1>2, <2>1, <2>3, <2>5
  <2>7. QED  BY <2>4, <2>5, <2>6
<1>4. Bad = {}
  <2>1. Bad \in SUBSET Nat  OBVIOUS
  <2> HIDE DEF Bad
  <2>2. QED  BY <1>3, <2>1, NoLeast
<1>5. Len(s) \in Nat  OBVIOUS
<1>6. Good(s)
  <2> HIDE DEF Good
  <2>1. QED  BY <1>4, <1>5
<1>7. QED  BY <1>6

\* The packet without data.
LEMMA PingRead ==
  ASSUME PINGRESP \in Byte \ {UNKNOWN_TYPE}
  PROVE  mqtt_codec_bytesReceived(InLength(PINGRESP, <<>>), <<0>>) = Completed(PINGRESP, <<>>)
<1> DEFINE r == Progress(InLength(PINGRESP, <<>>))
           x == prepareheaderDataInfo(r, 0)
           total == RemainingLength(Append(r.codec.storeRemainLen, 0))
           q == [r EXCEPT !.codec.state = "VAR_HEADER", !.codec.storeRemainLen = <<>>,
                          !.codec.headerData = IF total > 0 THEN [len |-> total, data |-> <<>>] ELSE @]
<1>1. Base \in Nat /\ Base > 1 /\ MAX_SEND_SIZE \in Nat /\ 0 \in Byte
  BY Bases, CodecAssumption DEF Byte
<1>2. RemainingLength(<<0>>) = 0
  <2>1. Writes(Digits(0), 0)  BY DigitsWrite
  <2>2. Digits(0) = <<0>>  BY <1>1, <2>1 DEF Writes
  <2>3. Len(<<0>>) <= 3  OBVIOUS
  <2>4. QED  BY <2>1, <2>2, <2>3, LengthRead
<1>3. <<>> \in Seq(Byte) /\ r \in Results
  <2>1. <<>> \in Seq(Byte)  OBVIOUS
  <2>2. QED  BY <2>1, InLengthType
<1>4. /\ r.codec.storeRemainLen = <<>> /\ r.codec.currPacket = PINGRESP
      /\ r.codec.state = "FIXED_HEADER" /\ r.failed = FALSE /\ r.packets = <<>>
      /\ r.codec.headerData.data = <<>>
  BY DEF Progress, InLength, NoBuffer
<1>5. Append(<<>>, 0) = <<0>> /\ Len(<<0>>) = 1  OBVIOUS
<1> HIDE DEF r
<1>6. x = q
  <2>1. ~ (0 >= Base) /\ ~ (0 > MAX_SEND_SIZE)  BY <1>1
  <2>2. Len(Append(r.codec.storeRemainLen, 0)) = 1 /\ ~ (total > MAX_SEND_SIZE)
    BY <1>2, <1>4, <1>5, <2>1
  <2>3. QED  BY <2>1, <2>2 DEF prepareheaderDataInfo
<1>7. /\ q.failed = FALSE /\ q.packets = <<>> /\ q.codec.currPacket = PINGRESP
      /\ q.codec.headerData.data = <<>>
  <2>1. ~ (total > 0)  BY <1>2, <1>4, <1>5
  <2> HIDE DEF total
  <2>2. QED  BY <1>3, <1>4, <2>1 DEF Results, Codecs
<1>8. q \in Results  BY <1>1, <1>3, <1>6, LengthByteType
<1> HIDE DEF q, x
<1>9. completePacketData(x) = Completed(PINGRESP, <<>>)  BY <1>6, <1>7, <1>8, Completes
<1>10. FixedHeader(r, 0) = completePacketData(x)
  <2>1. QED  BY <1>4, <1>6, <1>7 DEF FixedHeader, x
<1>11. ByteReceived(r, 0) = FixedHeader(r, 0)  BY <1>4 DEF ByteReceived
<1>12. mqtt_codec_bytesReceived(InLength(PINGRESP, <<>>), <<0>>) = ByteReceived(r, 0)
  BY <1>1, ReadOne DEF r
<1>13. QED  BY <1>9, <1>10, <1>11, <1>12

\* Reading on after a result without packets and errors.
LEMMA ThenOn == ASSUME NEW c, NEW q \in Results PROVE Then(Progress(c), q) = q
<1>1. q.packets \in PacketSeq  BY DEF Results, PacketSeq
<1>2. <<>> \o q.packets = q.packets  BY <1>1, ConcatEmptySeq DEF PacketSeq
<1>3. Then(Progress(c), q) = [q EXCEPT !.packets = <<>> \o q.packets]  BY DEF Then, Before, Progress
<1>4. [q EXCEPT !.packets = <<>> \o q.packets]
        = [codec |-> q.codec, packets |-> <<>> \o q.packets, failed |-> q.failed]
  BY AsRecord
<1>5. q = [codec |-> q.codec, packets |-> q.packets, failed |-> q.failed]  BY DEF Results
<1>6. QED  BY <1>2, <1>3, <1>4, <1>5, Zenon

\* What the length of a packet with data leads to.
LEMMA HeaderRead ==
  ASSUME NEW ty \in Byte \ {UNKNOWN_TYPE, PINGRESP}, NEW n \in Nat \ {0}
  PROVE  LET r == mqtt_codec_bytesReceived(InLength(ty, <<>>), Digits(n))
         IN  r = Progress(InData(ty, n, <<>>)) \/ (r \in Results /\ r.failed /\ r.packets = <<>>)
<1> DEFINE D == Digits(n)
<1>1. Writes(D, n)  BY DigitsWrite
<1>2. D \in Seq(Byte) /\ Len(D) > 0 /\ D[Len(D)] < Base /\ \A i \in 1 .. Len(D) - 1 : D[i] >= Base
  BY <1>1 DEF Writes
<1> HIDE DEF D
<1>3. D # <<>>  BY <1>2
<1>4. PICK s \in Seq(Byte), b \in Byte : D = Append(s, b)  BY <1>2, <1>3, SequenceEmptyOrAppend
<1>5. /\ Len(s) \in Nat /\ Len(D) = Len(s) + 1 /\ D[Len(s) + 1] = b
      /\ \A i \in 1 .. Len(s) : D[i] = s[i]
  BY <1>4
<1>6. b < Base /\ \A i \in 1 .. Len(s) : s[i] >= Base  BY <1>2, <1>5
<1>7. mqtt_codec_bytesReceived(InLength(ty, <<>>), s) = Progress(InLength(ty, s))  BY <1>6, DigitsRead
<1>8. mqtt_codec_bytesReceived(InLength(ty, <<>>), D) = ByteReceived(Progress(InLength(ty, s)), b)
  BY <1>4, <1>7, ReadByte
<1>9. ByteReceived(Progress(InLength(ty, s)), b) \in {Failure(InLength(ty, s)), Progress(InData(ty, n, <<>>))}
  BY <1>1, <1>4, <1>6, LastDigitRead
<1>10. LET f == Failure(InLength(ty, s)) IN f \in Results /\ f.failed /\ f.packets = <<>>
  BY InLengthType DEF Failure
<1>11. QED  BY <1>8, <1>9, <1>10 DEF D

\* A packet written by the hub is read as that packet, or its length is refused.
LEMMA Decoded ==
  ASSUME NEW p \in Packets
  PROVE  /\ Encoded(p) \in Seq(Byte) /\ p \in [type : Byte, data : Seq(Byte)]
         /\ LET r == mqtt_codec_bytesReceived(FreshCodec, Encoded(p))
            IN  \/ r = [codec |-> FreshCodec, packets |-> <<p>>, failed |-> FALSE]
                \/ r \in Results /\ r.failed /\ r.packets = <<>>
<1> DEFINE ty == p.type
           u == p.data
           n == Len(u)
           D == Digits(n)
           H == <<ty>> \o D
           h == mqtt_codec_bytesReceived(InLength(ty, <<>>), D)
           r == mqtt_codec_bytesReceived(FreshCodec, Encoded(p))
<1>1. /\ p \in [type : 1 .. 2 * Base - 1, data : Seq(Byte)] /\ (u = <<>> <=> ty = PINGRESP)
  BY CodecAssumption DEF Byte
<1>2. /\ ty \in Byte \ {UNKNOWN_TYPE} /\ u \in Seq(Byte) /\ n \in Nat /\ p = [type |-> ty, data |-> u]
  <2>1. ty \in 1 .. 2 * Base - 1 /\ u \in Seq(Byte)  BY <1>1
  <2>2. ty \in Byte \ {UNKNOWN_TYPE}  BY <2>1, Bases DEF Byte, UNKNOWN_TYPE
  <2>3. p = [type |-> ty, data |-> u]  BY <1>1
  <2>4. QED  BY <2>1, <2>2, <2>3
<1>3. Writes(D, n)  BY <1>2, DigitsWrite
<1>4. D \in Seq(Byte) /\ <<ty>> \in Seq(Byte)  BY <1>2, <1>3 DEF Writes
<1>5. Encoded(p) = H \o u  BY DEF Encoded
<1> HIDE DEF D
<1>6. H \in Seq(Byte)  BY <1>4, ConcatProperties
<1>7. Encoded(p) \in Seq(Byte)
  <2> HIDE DEF H
  <2>1. QED  BY <1>2, <1>5, <1>6, ConcatProperties
<1> HIDE DEF ty, u, n
<1>8. InLength(ty, <<>>) \in Codecs /\ h \in Results
  <2>1. <<>> \in Seq(Byte)  OBVIOUS
  <2>2. InLength(ty, <<>>) \in Codecs  BY <1>2, <2>1, InLengthType
  <2>3. QED  BY <1>4, <2>2, ReadType
<1> HIDE DEF h
<1>9. mqtt_codec_bytesReceived(FreshCodec, H) = h
  <2> DEFINE g == mqtt_codec_bytesReceived(FreshCodec, <<ty>>)
  <2>1. g = Progress(InLength(ty, <<>>))  BY <1>2, TypeRead
  <2>2. g.codec = InLength(ty, <<>>)  BY <2>1 DEF Progress
  <2>3. mqtt_codec_bytesReceived(FreshCodec, H) = Then(g, mqtt_codec_bytesReceived(g.codec, D))
    BY <1>4, FreshType, ReadPieces
  <2> HIDE DEF g, H
  <2>4. mqtt_codec_bytesReceived(g.codec, D) = h  BY <2>2 DEF h
  <2>5. QED  BY <1>8, <2>1, <2>3, <2>4, ThenOn
<1>10. r = Then(h, mqtt_codec_bytesReceived(h.codec, u))
  <2> HIDE DEF H
  <2>1. mqtt_codec_bytesReceived(FreshCodec, H \o u)
          = Then(mqtt_codec_bytesReceived(FreshCodec, H),
                 mqtt_codec_bytesReceived(mqtt_codec_bytesReceived(FreshCodec, H).codec, u))
    BY <1>2, <1>6, FreshType, ReadPieces
  <2>2. QED  BY <1>5, <1>9, <2>1
<1> HIDE DEF r
<1>11. Completed(ty, u) = [codec |-> FreshCodec, packets |-> <<p>>, failed |-> FALSE] /\ Completed(ty, u) \in Results
  BY <1>2, CompletedType DEF Completed
<1>12. CASE h.failed /\ h.packets = <<>>
  <2>1. r = h  BY <1>10, <1>12 DEF Then
  <2>2. QED  BY <1>1, <1>2, <1>7, <1>8, <1>12, <2>1 DEF r
<1>13. CASE ty = PINGRESP
  <2>1. u = <<>> /\ n = 0 /\ 0 < Base  BY <1>1, <1>13, Bases DEF n, ty, u
  <2>2. D = <<0>>  BY <1>3, <2>1 DEF Writes
  <2>3. h = Completed(ty, u)
    <3>1. PINGRESP \in Byte \ {UNKNOWN_TYPE}  BY <1>2, <1>13
    <3>2. mqtt_codec_bytesReceived(InLength(PINGRESP, <<>>), <<0>>) = Completed(PINGRESP, <<>>)
      BY <3>1, PingRead
    <3>3. QED  BY <1>13, <2>1, <2>2, <3>2 DEF h
  <2>4. H \o u = H
    <3> HIDE DEF H
    <3>1. QED  BY <1>6, <2>1, ConcatEmptySeq
  <2>5. r = h  BY <1>5, <1>9, <2>4 DEF r
  <2>6. QED  BY <1>2, <1>7, <1>11, <2>3, <2>5 DEF r
<1>14. CASE ty # PINGRESP /\ h = Progress(InData(ty, n, <<>>))
  <2>1. u # <<>>  BY <1>1, <1>14 DEF u, ty
  <2>2. n \in Nat \ {0} /\ Len(u) = n  BY <1>2, <2>1 DEF n
  <2>3. mqtt_codec_bytesReceived(InData(ty, n, <<>>), u) = Completed(ty, u)
    <3>1. Len(u) <= n /\ ~ (Len(u) < n)  BY <2>2
    <3>2. QED  BY <1>2, <2>2, <3>1, DataRead
  <2>4. h.codec = InData(ty, n, <<>>)  BY <1>14 DEF Progress
  <2>5. r = Then(Progress(InData(ty, n, <<>>)), Completed(ty, u))  BY <1>10, <1>14, <2>3, <2>4
  <2>6. r = Completed(ty, u)  BY <1>11, <2>5, ThenOn
  <2>7. QED  BY <1>2, <1>7, <1>11, <2>6 DEF r
<1>15. ty # PINGRESP => h = Progress(InData(ty, n, <<>>)) \/ (h.failed /\ h.packets = <<>>)
  <2> SUFFICES ASSUME ty # PINGRESP
               PROVE  h = Progress(InData(ty, n, <<>>)) \/ (h.failed /\ h.packets = <<>>)
    OBVIOUS
  <2>1. ty \in Byte \ {UNKNOWN_TYPE, PINGRESP}  BY <1>2
  <2>2. u # <<>>  BY <1>1 DEF u, ty
  <2>3. n \in Nat \ {0}  BY <1>2, <2>2 DEF n
  <2>4. QED  BY <2>1, <2>3, HeaderRead DEF h, D
<1>16. QED  BY <1>12, <1>13, <1>14, <1>15

----------------------------------------------------------------------------
\* The inductive invariant: what the codec will make of the bytes under way is the rest of
\* the packets sent, up to one whose length it refuses.
Pending == mqtt_codec_bytesReceived(codec, wire)
CodecInv ==
  /\ codec \in Codecs /\ wire \in Seq(Byte) /\ got \in PacketSeq /\ sent \in PacketSeq
  /\ \E rest \in PacketSeq :
       /\ sent = (got \o Pending.packets) \o rest
       /\ Pending.failed \/ (rest = <<>> /\ Pending.codec = FreshCodec)

\* The invariant holds at first.
LEMMA CodecStarts == CodecInit => CodecInv
<1> SUFFICES ASSUME CodecInit PROVE CodecInv  OBVIOUS
<1>1. codec = FreshCodec /\ wire = <<>> /\ sent = <<>> /\ got = <<>>  BY DEF CodecInit
<1>2. Pending = Progress(FreshCodec)  BY <1>1, ReadNone DEF Pending
<1>3. Pending.packets = <<>> /\ Pending.failed = FALSE /\ Pending.codec = FreshCodec
  BY <1>2 DEF Progress
<1>4. wire \in Seq(Byte) /\ <<>> \in PacketSeq  BY <1>1 DEF PacketSeq
<1>5. (<<>> \o <<>>) \o <<>> = <<>>  BY <1>4, ConcatEmptySeq DEF PacketSeq
<1>6. QED  BY <1>1, <1>3, <1>4, <1>5, FreshType DEF CodecInv

\* The invariant holds where the codec has nothing left to read.
LEMMA NothingLeft ==
  ASSUME codec' = FreshCodec, wire' = <<>>, sent' = got', got' \in PacketSeq
  PROVE  CodecInv'
<1>1. Pending' = Progress(FreshCodec)
  <2>1. Pending' = mqtt_codec_bytesReceived(codec', wire')  BY DEF Pending
  <2>2. QED  BY <2>1, ReadNone
<1>2. Pending'.packets = <<>> /\ Pending'.failed = FALSE /\ Pending'.codec = FreshCodec
  BY <1>1 DEF Progress
<1>3. wire' \in Seq(Byte) /\ <<>> \in PacketSeq  BY DEF PacketSeq
<1>4. got' \o <<>> = got'  BY ConcatEmptySeq DEF PacketSeq
<1>5. sent' = (got' \o Pending'.packets) \o <<>>  BY <1>2, <1>4
<1>6. QED  BY <1>2, <1>3, <1>5, FreshType DEF CodecInv

\* A packet of the hub adds what it will be read as, unless a length before it is refused.
LEMMA HubSendKeeps == ASSUME CodecInv, NEW p \in Packets, HubSends(p) PROVE CodecInv'
<1> DEFINE r == mqtt_codec_bytesReceived(codec, wire)
           q == mqtt_codec_bytesReceived(r.codec, Encoded(p))
           new == mqtt_codec_bytesReceived(codec, wire \o Encoded(p))
           T == [type : Byte, data : Seq(Byte)]
<1>1. /\ codec \in Codecs /\ wire \in Seq(Byte) /\ got \in Seq(T) /\ sent \in Seq(T)
  BY DEF CodecInv, PacketSeq
<1>2. PICK rest \in Seq(T) :
        /\ sent = (got \o r.packets) \o rest
        /\ r.failed \/ (rest = <<>> /\ r.codec = FreshCodec)
  BY DEF CodecInv, Pending, PacketSeq
<1>3. sent' = Append(sent, p) /\ wire' = wire \o Encoded(p) /\ codec' = codec /\ got' = got
  BY DEF HubSends
<1>4. Encoded(p) \in Seq(Byte) /\ p \in T  BY Decoded
<1>5. r \in Results  BY <1>1, ReadType
<1>6. new = Then(r, q)  BY <1>1, <1>4, ReadPieces
<1> HIDE DEF r, new, q, T
<1>7. r.packets \in Seq(T) /\ got \o r.packets \in Seq(T)
  <2>1. r.packets \in Seq(T)  BY <1>5 DEF Results, T
  <2>2. QED  BY <1>1, <2>1, ConcatProperties
<1>8. Pending' = new
  <2>1. Pending' = mqtt_codec_bytesReceived(codec', wire')  BY DEF Pending
  <2>2. QED  BY <1>3, <2>1 DEF new
<1>9. wire' \in Seq(Byte)  BY <1>1, <1>3, <1>4, ConcatProperties
<1>10. sent' \in Seq(T) /\ <<p>> \in Seq(T) /\ sent' = sent \o <<p>>  BY <1>1, <1>3, <1>4, AppendIsConcat
<1>11. ASSUME NEW more \in Seq(T), sent' = (got' \o new.packets) \o more,
              new.failed \/ (more = <<>> /\ new.codec = FreshCodec)
       PROVE  CodecInv'
  BY <1>1, <1>3, <1>8, <1>9, <1>10, <1>11 DEF CodecInv, PacketSeq, T
<1>12. CASE r.failed
  <2>1. new = r  BY <1>6, <1>12 DEF Then
  <2>2. rest \o <<p>> \in Seq(T)  BY <1>10, ConcatProperties
  <2>3. sent' = (got \o r.packets) \o (rest \o <<p>>)
    <3>1. \A x, y, z \in Seq(T) : (x \o y) \o z = x \o (y \o z)  BY ConcatAssociative
    <3>2. (got \o r.packets) \o (rest \o <<p>>) = ((got \o r.packets) \o rest) \o <<p>>
      <4>1. got \o r.packets \in Seq(T) /\ rest \in Seq(T)  BY <1>2, <1>7
      <4>2. <<p>> \in Seq(T)  BY <1>10
      <4>3. QED  BY <3>1, <4>1, <4>2, Zenon
    <3>3. QED  BY <1>2, <1>10, <3>2
  <2>4. QED  BY <1>3, <1>11, <1>12, <2>1, <2>2, <2>3
<1>13. CASE ~r.failed
  <2>1. rest = <<>> /\ r.codec = FreshCodec  BY <1>2, <1>13
  <2>2. sent = got \o r.packets  BY <1>2, <1>7, <2>1, ConcatEmptySeq
  <2>3. new = Before(r.packets, q)  BY <1>6, <1>13 DEF Then
  <2>4. q = mqtt_codec_bytesReceived(FreshCodec, Encoded(p))  BY <2>1 DEF q
  <2>5. q \in Results  BY <1>4, <2>4, FreshType, ReadType
  <2>6. new = [codec |-> q.codec, packets |-> r.packets \o q.packets, failed |-> q.failed]
    BY <2>3, <2>5, AsRecord DEF Before
  <2>7. CASE q = [codec |-> FreshCodec, packets |-> <<p>>, failed |-> FALSE]
    <3>1. new.packets = r.packets \o <<p>> /\ new.failed = FALSE /\ new.codec = FreshCodec
      BY <2>6, <2>7
    <3>2. got \o (r.packets \o <<p>>) = sent'
      <4>1. \A x, y, z \in Seq(T) : (x \o y) \o z = x \o (y \o z)  BY ConcatAssociative
      <4>2. (got \o r.packets) \o <<p>> = got \o (r.packets \o <<p>>)
        <5>1. got \in Seq(T) /\ r.packets \in Seq(T)  BY <1>1, <1>7
        <5>2. <<p>> \in Seq(T)  BY <1>10
        <5>3. QED  BY <4>1, <5>1, <5>2, Zenon
      <4>3. QED  BY <1>10, <2>2, <4>2
    <3>3. sent' \o <<>> = sent' /\ <<>> \in Seq(T)  BY <1>10, ConcatEmptySeq
    <3>4. sent' = (got' \o new.packets) \o <<>>  BY <1>3, <3>1, <3>2, <3>3
    <3>5. QED  BY <1>11, <3>1, <3>3, <3>4
  <2>8. CASE q.failed /\ q.packets = <<>>
    <3>1. r.packets \o <<>> = r.packets  BY <1>7, ConcatEmptySeq
    <3>2. new.packets = r.packets /\ new.failed  BY <2>6, <2>8, <3>1
    <3>3. sent' = (got' \o new.packets) \o <<p>>  BY <1>3, <1>10, <2>2, <3>2
    <3>4. QED  BY <1>10, <1>11, <3>2, <3>3
  <2>9. QED  BY <2>4, <2>7, <2>8, Decoded
<1>14. QED  BY <1>12, <1>13

\* The bytes received have become packets, those left are read on; after a refused
\* length nothing is left.
LEMMA ReceiveKeeps ==
  ASSUME CodecInv, NEW n \in 1 .. Len(wire), onBytesReceived(n) PROVE CodecInv'
<1> DEFINE a == SubSeq(wire, 1, n)
           b == SubSeq(wire, n + 1, Len(wire))
           r == mqtt_codec_bytesReceived(codec, a)
           q == mqtt_codec_bytesReceived(r.codec, b)
           T == [type : Byte, data : Seq(Byte)]
<1>1. /\ codec \in Codecs /\ wire \in Seq(Byte) /\ got \in Seq(T) /\ sent \in Seq(T)
  BY DEF CodecInv, PacketSeq
<1>2. PICK rest \in Seq(T) :
        /\ sent = (got \o Pending.packets) \o rest
        /\ Pending.failed \/ (rest = <<>> /\ Pending.codec = FreshCodec)
  BY DEF CodecInv, PacketSeq
<1>3. /\ got' = got \o r.packets
      /\ IF r.failed THEN codec' = FreshCodec /\ wire' = <<>> /\ sent' = got'
         ELSE codec' = r.codec /\ wire' = b /\ sent' = sent
  BY DEF onBytesReceived
<1>4. a \in Seq(Byte) /\ b \in Seq(Byte) /\ wire = a \o b
  <2>1. /\ Len(wire) \in Nat /\ 1 \in 1 .. Len(wire) + 1 /\ n \in 1 - 1 .. Len(wire)
        /\ Len(wire) \in n .. Len(wire)
    BY <1>1
  <2>2. SubSeq(wire, 1, n) \o SubSeq(wire, n + 1, Len(wire)) = SubSeq(wire, 1, Len(wire))
    BY <1>1, <2>1, ConcatAdjacentSubSeq
  <2>3. SubSeq(wire, 1, Len(wire)) = wire  BY <1>1, SubSeqFull
  <2>4. a \in Seq(Byte) /\ b \in Seq(Byte)  BY <1>1, <2>1, SubSeqProperties
  <2>5. QED  BY <2>2, <2>3, <2>4
<1> HIDE DEF a, b
<1>5. r \in Results /\ Pending = Then(r, q)
  <2>1. Pending = mqtt_codec_bytesReceived(codec, a \o b)  BY <1>4 DEF Pending
  <2>2. mqtt_codec_bytesReceived(codec, a \o b) = Then(r, q)  BY <1>1, <1>4, ReadPieces
  <2>3. QED  BY <1>1, <1>4, <2>1, <2>2, ReadType
<1> HIDE DEF r, q, T
<1>6. r.packets \in Seq(T) /\ got' \in Seq(T)
  <2>1. r.packets \in Seq(T)  BY <1>5 DEF Results, T
  <2>2. QED  BY <1>1, <1>3, <2>1, ConcatProperties
<1>7. CASE r.failed
  <2>1. codec' = FreshCodec /\ wire' = <<>> /\ sent' = got'  BY <1>3, <1>7
  <2>2. QED  BY <1>6, <2>1, NothingLeft DEF PacketSeq, T
<1>8. CASE ~r.failed
  <2>1. codec' = r.codec /\ wire' = b /\ sent' = sent  BY <1>3, <1>8
  <2>2. codec' \in Codecs  BY <1>5, <2>1 DEF Results
  <2>3. q \in Results  BY <1>4, <2>1, <2>2, ReadType DEF q
  <2>4. Pending' = q
    <3>1. Pending' = mqtt_codec_bytesReceived(codec', wire')  BY DEF Pending
    <3>2. QED  BY <2>1, <3>1 DEF q
  <2>5. Pending = [codec |-> q.codec, packets |-> r.packets \o q.packets, failed |-> q.failed]
    BY <1>5, <1>8, <2>3, AsRecord DEF Then, Before
  <2>6. Pending.codec = q.codec /\ Pending.packets = r.packets \o q.packets /\ Pending.failed = q.failed
    BY <2>5
  <2>7. q.packets \in Seq(T)  BY <2>3 DEF Results, T
  <2>8. got \o (r.packets \o q.packets) = got' \o q.packets
    <3>1. \A x, y, z \in Seq(T) : (x \o y) \o z = x \o (y \o z)  BY ConcatAssociative, SMTT(60)
    <3>2. (got \o r.packets) \o q.packets = got \o (r.packets \o q.packets)
      <4>1. got \in Seq(T) /\ r.packets \in Seq(T)  BY <1>1, <1>6
      <4>2. QED  BY <2>7, <3>1, <4>1, Zenon
    <3>3. QED  BY <1>3, <3>2
  <2>9. sent' = (got' \o Pending'.packets) \o rest  BY <1>2, <2>1, <2>4, <2>6, <2>8
  <2>10. Pending'.failed \/ (rest = <<>> /\ Pending'.codec = FreshCodec)  BY <1>2, <2>4, <2>6
  <2>11. QED  BY <1>1, <1>4, <1>6, <2>1, <2>2, <2>9, <2>10 DEF CodecInv, PacketSeq, T
<1>9. QED  BY <1>7, <1>8

\* The invariant says what was promised.
LEMMA InvIntact == CodecInv => PacketsIntact
<1> SUFFICES ASSUME CodecInv PROVE PacketsIntact  OBVIOUS
<1> DEFINE T == [type : Byte, data : Seq(Byte)]
<1>1. PICK rest \in Seq(T) :
        /\ sent = (got \o Pending.packets) \o rest
        /\ Pending.failed \/ (rest = <<>> /\ Pending.codec = FreshCodec)
  BY DEF CodecInv, PacketSeq
<1>2. codec \in Codecs /\ wire \in Seq(Byte) /\ got \in Seq(T) /\ sent \in Seq(T)
  BY DEF CodecInv, PacketSeq
<1>3. Pending.packets \in Seq(T)
  <2>1. Pending \in Results  BY <1>2, ReadType DEF Pending
  <2>2. QED  BY <2>1 DEF Results
<1> HIDE DEF T
<1>4. IsPrefix(got, sent)
  <2> DEFINE t == Pending.packets \o rest
  <2>1. t \in Seq(T) /\ sent = got \o t
    <3>1. t \in Seq(T)  BY <1>1, <1>3, ConcatProperties
    <3>2. \A x, y, z \in Seq(T) : (x \o y) \o z = x \o (y \o z)  BY ConcatAssociative
    <3>3. (got \o Pending.packets) \o rest = got \o t
      <4>1. got \in Seq(T) /\ Pending.packets \in Seq(T)  BY <1>2, <1>3
      <4>2. rest \in Seq(T)  BY <1>1
      <4>3. QED  BY <3>2, <4>1, <4>2, Zenon
    <3>4. QED  BY <1>1, <3>1, <3>3
  <2> HIDE DEF t
  <2>2. Len(got) \in Nat /\ Len(sent) = Len(got) + Len(t) /\ Len(t) \in Nat  BY <1>2, <2>1
  <2>3. SubSeq(got \o t, 1, Len(got)) = SubSeq(got, 1, Len(got))
    <3>1. CASE Len(got) = 0  BY <3>1, SubSeqEmpty
    <3>2. CASE Len(got) # 0
      <4>1. 1 \in 1 .. Len(got) /\ Len(got) \in 1 .. Len(got)  BY <2>2, <3>2
      <4>2. QED  BY <1>2, <2>1, <4>1, SubSeqOfConcat1
    <3>3. QED  BY <3>1, <3>2
  <2>4. QED  BY <2>1, <2>2, <2>3 DEF IsPrefix
<1>5. ASSUME wire = <<>> PROVE got = sent
  <2>1. Pending = Progress(codec)  BY <1>5, ReadNone DEF Pending
  <2>2. Pending.packets = <<>> /\ Pending.failed = FALSE  BY <2>1 DEF Progress
  <2>3. rest = <<>>  BY <1>1, <2>2
  <2>4. QED  BY <1>1, <1>2, <2>2, <2>3, ConcatEmptySeq
<1>6. QED  BY <1>4, <1>5 DEF PacketsIntact

\* The packets completed are those the hub sent, in order, and once all bytes have come all
\* of them have, however the network cuts the bytes, as long as connections end between
\* packets (mqtt_codec.c, mqtt_codec_bytesReceived).
THEOREM PacketsArriveIntact ==
  ASSUME ~MidPacket
  PROVE  CodecSpec => []PacketsIntact
<1>1. CodecInv /\ [CodecNext]_cvars => CodecInv'
  <2> SUFFICES ASSUME CodecInv, [CodecNext]_cvars PROVE CodecInv'  OBVIOUS
  <2>1. ASSUME ConnectionLost PROVE CodecInv'
    <3>1. codec' = FreshCodec /\ wire' = <<>> /\ sent' = got' /\ got' = got  BY <2>1 DEF ConnectionLost
    <3>2. got' \in PacketSeq  BY <3>1 DEF CodecInv
    <3>3. QED  BY <3>1, <3>2, NothingLeft
  <2>2. CASE UNCHANGED cvars
    BY <2>2 DEF CodecInv, Pending, cvars
  <2>3. QED  BY <2>1, <2>2, HubSendKeeps, ReceiveKeeps DEF CodecNext
<1>2. QED  BY <1>1, CodecStarts, InvIntact, PTL DEF CodecSpec

=============================================================================
