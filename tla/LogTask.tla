------------------------------ MODULE LogTask -------------------------------
(***************************************************************************)
(* The system log task (tLogTaskMain.c): it takes the records out of the   *)
(* log buffer and writes them to the serial port, and eLogTask_flush polls *)
(* until that is done.  Of the serial port only the number of characters   *)
(* that wait to be sent is kept, in units of half a record's text; module  *)
(* SerialPort models the port itself.                                      *)
(***************************************************************************)
EXTENDS SysLog

CONSTANTS
  Flushers,       \* the tasks that call eLogTask_flush
  Counts,         \* the counts they pass
  SendBufferSize, \* of the serial port
  MaxLog          \* bound of the model: no calls after this many records

ASSUME LogTaskAssumption == Flushers # {} /\ {SendBufferSize, MaxLog} \subseteq Nat \ {0}

VARIABLES
  taskPc,    \* where the log task is
  unsent,    \* text of the record in hand not yet written to the port
  sendCount, \* text in the buffer of the port
  caller     \* of each flusher: what it waits for, and the records stored when it called

taskvars == <<logvars, taskPc, unsent, sendCount, caller>>

Text == 2 \* Bound: a record is written in two pieces.

Outside == [count |-> -1, owed |-> 0, ok |-> FALSE]

TaskInit ==
  /\ LogInit
  /\ taskPc = "start" /\ unsent = 0 /\ sendCount = 0
  /\ caller = [f \in Flushers |-> Outside]

----------------------------------------------------------------------------
\* eLogTaskBody_main.
Started ==
  /\ taskPc = "start"
  /\ \E p \in Priorities : eSysLog_write(p)
  /\ taskPc' = "read"
  /\ UNCHANGED <<unsent, sendCount, caller>>

TakeRecord ==
  /\ taskPc = "read"
  /\ eSysLog_read
  /\ taskPc' = "print" /\ unsent' = Text
  /\ UNCHANGED <<sendCount, caller>>

\* The task waits while the buffer of the port is full.
logtask_putc ==
  /\ taskPc = "print"
  /\ sendCount < SendBufferSize
  /\ sendCount' = sendCount + 1
  /\ unsent' = unsent - 1
  /\ taskPc' = IF unsent = 1 THEN "read" ELSE "print"
  /\ UNCHANGED <<logvars, caller>>

\* Fault: sleeps with records left.
Sleep_early == taskPc = "read" /\ taskPc' = "sleep" /\ UNCHANGED <<logvars, unsent, sendCount, caller>>

Sleep ==
  /\ taskPc = "read" /\ count = 0
  /\ taskPc' = "sleep"
  /\ UNCHANGED <<logvars, unsent, sendCount, caller>>

\* The interval of dly_tsk is over.
WakeUp ==
  /\ taskPc = "sleep"
  /\ taskPc' = "read"
  /\ UNCHANGED <<logvars, unsent, sendCount, caller>>

LogTaskStep == Started \/ TakeRecord \/ logtask_putc \/ Sleep \/ WakeUp

\* The port sends what is in its buffer.
PortSends == sendCount > 0 /\ sendCount' = sendCount - 1 /\ UNCHANGED <<logvars, taskPc, unsent, caller>>

----------------------------------------------------------------------------
eLogTask_flush(f, n) ==
  /\ caller[f].count = -1
  /\ caller' = [caller EXCEPT ![f] = [count |-> n, owed |-> stored, ok |-> FALSE]]
  /\ UNCHANGED <<logvars, taskPc, unsent, sendCount>>

\* cSysLog_refer and cSerialPort_refer; between the two looks the caller may
\* be preempted, and so may it be for as long as dly_tsk takes.
Looked(f) ==
  /\ caller[f].count >= 0 /\ ~ caller[f].ok
  /\ count <= caller[f].count
  /\ caller' = IF caller[f].count = 0 THEN [caller EXCEPT ![f].ok = TRUE]
               ELSE [caller EXCEPT ![f] = Outside]
  /\ UNCHANGED <<logvars, taskPc, unsent, sendCount>>

AllSent(f) ==
  /\ caller[f].ok
  /\ sendCount = 0
  /\ caller' = [caller EXCEPT ![f] = Outside]
  /\ UNCHANGED <<logvars, taskPc, unsent, sendCount>>

\* After dly_tsk everything is looked at again.
NotSent(f) ==
  /\ caller[f].ok
  /\ sendCount > 0
  /\ caller' = [caller EXCEPT ![f].ok = FALSE]
  /\ UNCHANGED <<logvars, taskPc, unsent, sendCount>>

FlusherStep(f) == Looked(f) \/ AllSent(f) \/ NotSent(f)

TaskNext ==
  \/ stored < MaxLog /\ SysLogCalls /\ UNCHANGED <<taskPc, unsent, sendCount, caller>>
  \/ LogTaskStep
  \/ PortSends
  \/ \E f \in Flushers : FlusherStep(f) \/ \E n \in Counts : eLogTask_flush(f, n)

TaskSpec == TaskInit /\ [][TaskNext]_taskvars

\* The log task has one of the highest priorities of the system, and the port
\* sends on; nothing is assumed of the callers of the log.
FairTaskSpec == TaskSpec /\ WF_taskvars(LogTaskStep) /\ WF_taskvars(PortSends)

----------------------------------------------------------------------------
\* Every record stored is in the end taken from the buffer or reported lost
\* (tLogTaskMain.c, eLogTaskBody_main).
RecordsLeave == \A n \in 1 .. MaxLog + 1 : stored >= n ~> stored - count >= n

\* eLogTask_flush is said to wait for the output of the log: when a flush of
\* count 0 returns E_OK, what was stored when it was called is out of the hands
\* of the log task (tLogTaskMain.c:70, "システムログ出力の待ち合わせ").
FlushWaits ==
  [][\A f \in Flushers : AllSent(f) => taken.num > caller[f].owed \/ unsent = 0]_taskvars
=============================================================================
