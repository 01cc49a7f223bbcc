----------------------------- MODULE SerialPort -----------------------------
(***************************************************************************)
(* A serial port (tSerialPortMain.c) over the UART of the board            *)
(* (tMbedSerial.c): tasks that write and read, the two interrupts of the   *)
(* UART, and the peer with its flow control.  The two semaphores of the    *)
(* port hand on the right to put into the send buffer while it has room,   *)
(* and the right to take from the receive buffer while it has characters.  *)
(* The port is open and its control word set; the rings are sequences.     *)
(***************************************************************************)
EXTENDS Integers, Sequences, FiniteSets, SequencesExt

CONSTANTS
  Tasks,
  sendBufferSize, receiveBufferSize,
  MaxWritten,  \* bound of the model on the characters each task writes
  PORTS        \* the ports and their users; of each:
               \* ioControl   subset of ECHO, CRLF, FCSND, FCRCV and FCANY
               \* texts       of each task, the texts it writes
               \* lengths     of each task, the lengths of its reads
               \* releasable  the tasks other tasks release from waiting (rel_wai)
               \* incoming    what the peer sends, at most maxReceived characters beside
               \*             those of the flow control

ASSUME PortAssumption ==
  /\ {sendBufferSize, receiveBufferSize} \subseteq Nat \ {0} /\ "port" \notin Tasks
  /\ \A p \in PORTS : /\ p.ioControl \subseteq {"ECHO", "CRLF", "FCSND", "FCRCV", "FCANY"}
                      /\ p.incoming \subseteq {"c", "LF", "STOP", "START"}
                      /\ \A t \in Tasks : /\ p.texts[t] \subseteq Seq({"c", "LF"}) \ {<<>>}
                                         /\ p.lengths[t] \subseteq Nat \ {0}

VARIABLES
  port,      \* one of PORTS
  sendBuffer, receiveBuffer,
  receiveFlowControl, receiveStopped, sendStopped,
  errorFlag,
  portSem,   \* count and waiting tasks of the semaphores "send" and "receive"
  job,       \* of each task, where it is in eSerialPort_write or eSerialPort_read
  txReg,     \* the transmit register of the UART, empty or one character
  txEnabled, \* the transmit interrupt
  transmitted, \* of each task, the number of the last of its characters to leave the UART
  told,      \* the flow control character that left the UART last
  written,   \* of each task, the number of characters it has handed over
  arrived    \* number of characters from the peer

buffers == <<sendBuffer, receiveBuffer>>
flow == <<receiveFlowControl, receiveStopped, sendStopped>>
line == <<transmitted, told>>
uart == <<txReg, txEnabled, line>>
pvars == <<buffers, flow, errorFlag, portSem, job, uart, written, arrived, port>>

\* want: characters still to read, or NoRead in a write; empty: buffer_empty.
NoRead == -1
NoJob == [pc |-> "idle", text |-> <<>>, cr |-> FALSE, want |-> NoRead, empty |-> FALSE]

NoFlow == "none"
Flow(c) == [from |-> "port", n |-> 0, c |-> c]

PortInit ==
  /\ port \in PORTS
  /\ sendBuffer = <<>> /\ receiveBuffer = <<>>
  /\ receiveFlowControl = NoFlow /\ receiveStopped = FALSE /\ sendStopped = FALSE
  /\ errorFlag = FALSE
  /\ portSem = [send |-> [cnt |-> 1, wait |-> <<>>], receive |-> [cnt |-> 0, wait |-> <<>>]]
  /\ job = [t \in Tasks |-> NoJob]
  /\ txReg = <<>> /\ txEnabled = FALSE /\ transmitted = [t \in Tasks |-> 0] /\ told = "START"
  /\ written = [t \in Tasks |-> 0] /\ arrived = 0

----------------------------------------------------------------------------
\* The semaphores.  A task that gets one goes on with putting or with getting.
Granted(s) == IF s = "send" THEN "put" ELSE "get"

Wait(t, s) ==
  IF portSem[s].cnt > 0
  THEN portSem' = [portSem EXCEPT ![s].cnt = @ - 1] /\ job' = [job EXCEPT ![t].pc = Granted(s)]
  ELSE portSem' = [portSem EXCEPT ![s].wait = Append(@, t)] /\ job' = [job EXCEPT ![t].pc = "blocked"]

\* The semaphore is signalled while the jobs are j.
Signal(s, j) ==
  IF portSem[s].wait # <<>>
  THEN /\ portSem' = [portSem EXCEPT ![s].wait = Tail(@)]
       /\ job' = [j EXCEPT ![Head(portSem[s].wait)].pc = Granted(s)]
       /\ UNCHANGED errorFlag
  ELSE /\ portSem' = [portSem EXCEPT ![s].cnt = 1]
       /\ job' = j
       /\ errorFlag' = (errorFlag \/ portSem[s].cnt = 1)

Writable == txReg = <<>>

\* serialPort_sendChar; the transmit interrupt is enabled if it fails.
SendFlow(c) ==
  IF Writable THEN txReg' = <<Flow(c)>> /\ UNCHANGED <<txEnabled, receiveFlowControl>>
  ELSE txEnabled' = TRUE /\ receiveFlowControl' = c /\ UNCHANGED txReg

----------------------------------------------------------------------------
AfterGet_wait(j) == IF j.want > 0 THEN "rwait" ELSE IF j.empty THEN "idle" ELSE "rsignal" \* Fault: waits every time.

\* Where a read goes on after a character, and a write or an echo at its end.
AfterGet(j) ==
  IF j.want > 0 THEN (IF j.empty THEN "rwait" ELSE "get")
  ELSE IF j.empty THEN "idle" ELSE "rsignal"
AfterWrite(j) == IF j.want = NoRead THEN "idle" ELSE AfterGet(j)

eSerialPort_write(t, text) ==
  /\ job[t].pc = "idle" /\ ~ errorFlag
  /\ written[t] + 2 * Len(text) <= MaxWritten
  /\ job' = [job EXCEPT ![t] = [NoJob EXCEPT !.pc = "swait", !.text = text]]
  /\ UNCHANGED <<buffers, flow, errorFlag, portSem, uart, written, arrived, port>>

eSerialPort_read(t, len) ==
  /\ job[t].pc = "idle" /\ ~ errorFlag
  /\ job' = [job EXCEPT ![t] = [NoJob EXCEPT !.pc = "rwait", !.want = len]]
  /\ UNCHANGED <<buffers, flow, errorFlag, portSem, uart, written, arrived, port>>

WaitToSend(t) ==
  /\ job[t].pc = "swait" /\ Wait(t, "send")
  /\ UNCHANGED <<buffers, flow, errorFlag, uart, written, arrived, port>>

WaitToReceive(t) ==
  /\ job[t].pc = "rwait" /\ Wait(t, "receive")
  /\ UNCHANGED <<buffers, flow, errorFlag, uart, written, arrived, port>>

\* A character goes to the UART at once if nothing waits before it.
Direct_stopped == sendBuffer = <<>> /\ Writable \* Fault: in spite of a STOP.
Direct_over == ~ sendStopped /\ Writable \* Fault: in front of those that wait.

Direct == sendBuffer = <<>> /\ ~ sendStopped /\ Writable

FillsBuffer == ~ Direct /\ Len(sendBuffer) + 1 = sendBufferSize

\* Fault: the transmit interrupt is left alone.
Put_quiet(t, c) ==
  LET x == [from |-> t, n |-> written[t] + 1, c |-> c]
  IN  /\ IF Direct THEN txReg' = <<x>> /\ UNCHANGED <<sendBuffer, txEnabled>>
         ELSE sendBuffer' = Append(sendBuffer, x) /\ UNCHANGED <<txReg, txEnabled>>
      /\ written' = [written EXCEPT ![t] = @ + 1]

Put(t, c) ==
  LET x == [from |-> t, n |-> written[t] + 1, c |-> c]
  IN  /\ IF Direct THEN txReg' = <<x>> /\ UNCHANGED <<sendBuffer, txEnabled>>
         ELSE /\ sendBuffer' = Append(sendBuffer, x)
              /\ txEnabled' = (txEnabled \/ (sendBuffer = <<>> /\ ~ sendStopped))
              /\ UNCHANGED txReg
      /\ written' = [written EXCEPT ![t] = @ + 1]

\* serialPort_writeChar; the writer waits again when it has filled the buffer.
NeedsCR(t) == Head(job[t].text) = "LF" /\ "CRLF" \in port.ioControl /\ ~ job[t].cr

PutCR(t) ==
  /\ job[t].pc = "put" /\ NeedsCR(t)
  /\ Put(t, "CR")
  /\ job' = [job EXCEPT ![t].cr = TRUE, ![t].pc = IF FillsBuffer THEN "swait" ELSE "put"]
  /\ UNCHANGED <<receiveBuffer, flow, errorFlag, portSem, line, arrived, port>>

PutChar(t) ==
  /\ job[t].pc = "put" /\ ~ NeedsCR(t)
  /\ Put(t, Head(job[t].text))
  /\ LET j == [job[t] EXCEPT !.text = Tail(@), !.cr = FALSE]
     IN  job' = [job EXCEPT ![t] = [j EXCEPT !.pc =
                  IF j.text # <<>> THEN (IF FillsBuffer THEN "swait" ELSE "put")
                  ELSE IF FillsBuffer THEN AfterWrite(j) ELSE "ssignal"]]
  /\ UNCHANGED <<receiveBuffer, flow, errorFlag, portSem, line, arrived, port>>

SignalSend(t) ==
  /\ job[t].pc = "ssignal"
  /\ Signal("send", [job EXCEPT ![t].pc = AfterWrite(job[t])])
  /\ UNCHANGED <<buffers, flow, uart, written, arrived, port>>

\* serialPort_readChar: the peer may go on once the buffer is half empty.
GetChar(t) ==
  /\ job[t].pc = "get" /\ receiveBuffer # <<>>
  /\ receiveBuffer' = Tail(receiveBuffer)
  /\ IF receiveStopped /\ Len(receiveBuffer') <= receiveBufferSize \div 2
     THEN SendFlow("START") /\ receiveStopped' = FALSE
     ELSE UNCHANGED <<receiveFlowControl, receiveStopped, txReg, txEnabled>>
  /\ LET j == [job[t] EXCEPT !.want = @ - 1, !.empty = receiveBuffer' = <<>>]
     IN  job' = [job EXCEPT ![t] =
                  IF "ECHO" \in port.ioControl THEN [j EXCEPT !.text = <<Head(receiveBuffer)>>, !.pc = "swait"]
                  ELSE [j EXCEPT !.pc = AfterGet(j)]]
  /\ UNCHANGED <<sendBuffer, sendStopped, errorFlag, portSem, line, written, arrived, port>>

SignalReceive(t) ==
  /\ job[t].pc = "rsignal"
  /\ Signal("receive", [job EXCEPT ![t] = NoJob])
  /\ UNCHANGED <<buffers, flow, uart, written, arrived, port>>

\* A wait of a read ends by its timeout, any wait by rel_wai: the call returns.
GiveUp(t, s) ==
  /\ \E i \in DOMAIN portSem[s].wait :
       portSem[s].wait[i] = t /\ portSem' = [portSem EXCEPT ![s].wait = RemoveAt(@, i)]
  /\ job' = [job EXCEPT ![t] = NoJob]
  /\ UNCHANGED <<buffers, flow, errorFlag, uart, written, arrived, port>>

TaskStep(t) ==
  \/ WaitToSend(t) \/ PutCR(t) \/ PutChar(t) \/ SignalSend(t)
  \/ WaitToReceive(t) \/ GetChar(t) \/ SignalReceive(t)

PortCalls(t) ==
  \/ \E text \in port.texts[t] : eSerialPort_write(t, text)
  \/ \E len \in port.lengths[t] : eSerialPort_read(t, len)

----------------------------------------------------------------------------
\* A character is taken out of the send buffer; a full one gets room again.
\* Fault: the room is seen only when the buffer has been emptied.
TakeFromSendBuffer_last(n) ==
  /\ sendBuffer' = SubSeq(sendBuffer, n + 1, Len(sendBuffer))
  /\ IF n = Len(sendBuffer) THEN Signal("send", job) ELSE UNCHANGED <<portSem, job, errorFlag>>

TakeFromSendBuffer(n) ==
  /\ sendBuffer' = SubSeq(sendBuffer, n + 1, Len(sendBuffer))
  /\ IF n > 0 /\ Len(sendBuffer) = sendBufferSize THEN Signal("send", job)
     ELSE UNCHANGED <<portSem, job, errorFlag>>

\* The transmit interrupt with the register empty (eiTxISR_main).
eiSIOCBR_readySend ==
  /\ txEnabled /\ Writable
  /\ \/ /\ receiveFlowControl # NoFlow
        /\ txReg' = <<Flow(receiveFlowControl)>> /\ receiveFlowControl' = NoFlow
        /\ UNCHANGED <<sendBuffer, portSem, job, errorFlag, txEnabled>>
     \/ /\ receiveFlowControl = NoFlow /\ ~ sendStopped /\ sendBuffer # <<>>
        /\ txReg' = <<Head(sendBuffer)>> /\ TakeFromSendBuffer(1)
        /\ UNCHANGED <<receiveFlowControl, txEnabled>>
     \/ /\ receiveFlowControl = NoFlow /\ (sendStopped \/ sendBuffer = <<>>)
        /\ txEnabled' = FALSE
        /\ UNCHANGED <<sendBuffer, portSem, job, errorFlag, txReg, receiveFlowControl>>
  /\ UNCHANGED <<receiveBuffer, receiveStopped, sendStopped, line, written, arrived, port>>

Stopped(c) ==
  /\ "FCSND" \in port.ioControl /\ c = "STOP"
  /\ sendStopped' = TRUE
  /\ UNCHANGED <<buffers, receiveFlowControl, receiveStopped, errorFlag, portSem, job, uart>>

\* The transmit register takes one character of those that wait.
Restarts(c) == sendStopped /\ (c = "START" \/ "FCANY" \in port.ioControl)

Restarted(c) ==
  /\ ~ ("FCSND" \in port.ioControl /\ c = "STOP") /\ Restarts(c)
  /\ sendStopped' = FALSE
  /\ LET n == IF Writable /\ sendBuffer # <<>> THEN 1 ELSE 0
     IN  /\ TakeFromSendBuffer(n)
         /\ txReg' = txReg \o SubSeq(sendBuffer, 1, n)
         /\ txEnabled' = (txEnabled \/ n < Len(sendBuffer))
  /\ UNCHANGED <<receiveBuffer, receiveFlowControl, receiveStopped, line>>

Dropped(c) ==
  /\ ~ Restarts(c) /\ ~ ("FCSND" \in port.ioControl /\ c = "STOP")
  /\ ("FCSND" \in port.ioControl /\ c = "START") \/ Len(receiveBuffer) = receiveBufferSize
  /\ UNCHANGED <<buffers, flow, errorFlag, portSem, job, uart>>

\* The peer is told to stop when the buffer is three quarters full.
Stored(c) ==
  /\ ~ Restarts(c) /\ ~ ("FCSND" \in port.ioControl /\ c \in {"STOP", "START"})
  /\ Len(receiveBuffer) < receiveBufferSize
  /\ receiveBuffer' = Append(receiveBuffer, c)
  /\ IF receiveBuffer = <<>> THEN Signal("receive", job) ELSE UNCHANGED <<portSem, job, errorFlag>>
  /\ IF "FCRCV" \in port.ioControl /\ ~ receiveStopped /\ Len(receiveBuffer') >= (receiveBufferSize * 3) \div 4
     THEN SendFlow("STOP") /\ receiveStopped' = TRUE
     ELSE UNCHANGED <<receiveFlowControl, receiveStopped, txReg, txEnabled>>
  /\ UNCHANGED <<sendBuffer, sendStopped, line>>

\* The receive interrupt (eiRxISR_main) with a character of the peer.
eiSIOCBR_readyReceive(c) ==
  /\ c \in {"STOP", "START"} \/ arrived < port.maxReceived
  /\ arrived' = arrived + IF c \in {"STOP", "START"} THEN 0 ELSE 1
  /\ Stopped(c) \/ Restarted(c) \/ Dropped(c) \/ Stored(c)
  /\ UNCHANGED <<written, port>>

\* The UART sends what is in its register.
Transmit ==
  /\ txReg # <<>>
  /\ LET x == Head(txReg)
     IN  IF x.from = "port" THEN told' = x.c /\ UNCHANGED transmitted
         ELSE transmitted' = [transmitted EXCEPT ![x.from] = x.n] /\ UNCHANGED told
  /\ txReg' = <<>>
  /\ UNCHANGED <<buffers, flow, errorFlag, portSem, job, txEnabled, written, arrived, port>>

PortNext ==
  \/ \E t \in Tasks : \/ TaskStep(t) \/ PortCalls(t)
                      \/ GiveUp(t, "receive")
                      \/ t \in port.releasable /\ GiveUp(t, "send")
  \/ eiSIOCBR_readySend
  \/ \E c \in port.incoming : eiSIOCBR_readyReceive(c)
  \/ Transmit

PortSpec == PortInit /\ [][PortNext]_pvars

\* Tasks and interrupts run, and a peer that has stopped the port starts it
\* again.  Nothing is assumed of the calls.
FairPortSpec ==
  /\ PortSpec
  /\ \A t \in Tasks : WF_pvars(TaskStep(t))
  /\ WF_pvars(eiSIOCBR_readySend) /\ WF_pvars(Transmit)
  /\ WF_pvars(sendStopped /\ eiSIOCBR_readyReceive("START"))

----------------------------------------------------------------------------
\* The right to put is in the semaphore, with one task, or nowhere while the
\* buffer is full; the right to get likewise while the buffer is empty.  So no
\* task puts into a full buffer or takes from an empty one, no semaphore
\* overflows, and nobody waits while the right is there (tSerialPort.cdl, the two semaphores of the port).
MayPut == {t \in Tasks : job[t].pc \in {"put", "ssignal"}}
MayGet == {t \in Tasks : /\ job[t].want # NoRead
                         /\ \/ job[t].pc \in {"get", "rsignal"}
                            \/ job[t].text # <<>> /\ ~ job[t].empty
                            \/ job[t].pc = "ssignal" /\ ~ job[t].empty}
TokensOK ==
  /\ portSem.send.cnt + Cardinality(MayPut) = (IF Len(sendBuffer) = sendBufferSize THEN 0 ELSE 1)
  /\ portSem.receive.cnt + Cardinality(MayGet) = (IF receiveBuffer = <<>> THEN 0 ELSE 1)
  /\ Len(sendBuffer) <= sendBufferSize /\ Len(receiveBuffer) <= receiveBufferSize
  /\ \A s \in DOMAIN portSem : portSem[s].wait # <<>> => portSem[s].cnt = 0
  /\ ~ errorFlag

\* What a task hands over leaves the port once and in order, whoever else writes and
\* whatever the peer stops: what is under way are the next of its characters.
WrittenInOrder ==
  \A t \in Tasks :
    LET under == txReg \o sendBuffer
        own == {i \in DOMAIN under : under[i].from = t}
    IN  /\ transmitted[t] <= written[t]
        /\ {under[i].n : i \in own} = transmitted[t] + 1 .. written[t]
        /\ \A i, j \in own : i < j => under[i].n < under[j].n

\* The transmit interrupt is on while there is something it has to send.
PendingIsDrained ==
  receiveFlowControl # NoFlow \/ (sendBuffer # <<>> /\ ~ sendStopped) => txEnabled

\* Each character leaves once and in order, and nothing waits for an interrupt that
\* does not come (tSerialPortMain.c).
PortOK == TokensOK /\ WrittenInOrder /\ PendingIsDrained

\* Nothing is put into the UART while the peer has stopped the port, except
\* the flow control of the other direction (tSerialPortMain.c:567).
StopObeyed ==
  [][sendStopped /\ txReg' # txReg => txReg' = <<>> \/ txReg'[1].from = "port" \/ ~ sendStopped']_pvars

\* A write comes to its end.
WritersFinish ==
  \A t \in Tasks : job[t].pc # "idle" /\ job[t].want = NoRead ~> job[t].pc = "idle"

\* receiveStopped tells whether the peer was told to stop: "STOPを送った状態か？"
\* (tSerialPort.cdl:128).
LastFlow == IF txReg # <<>> /\ txReg[1].from = "port" THEN txReg[1].c ELSE told
StopsAgree == receiveFlowControl = NoFlow => (receiveStopped <=> LastFlow = "STOP")
=============================================================================
