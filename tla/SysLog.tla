------------------------------- MODULE SysLog -------------------------------
(***************************************************************************)
(* The log buffer of the system (tSysLog.c).  Its functions lock the       *)
(* interrupts, so each is one step, from any task or interrupt handler.    *)
(* A record is known by its number: the records that pass the mask are     *)
(* numbered from 1 in the order in which they are written.                 *)
(***************************************************************************)
EXTENDS Integers

CONSTANTS
  LogBufferSize, \* ATTR_logBufferSize
  Priorities,    \* the priorities of the records
  Masks          \* the masks the callers of eSysLog_mask pass

ASSUME LogAssumption ==
  /\ LogBufferSize \in Nat \ {0}
  /\ Masks \subseteq SUBSET Priorities

VARIABLES
  logBuffer, count, head, tail, lost,
  logMask, lowMask,
  stored, \* number of the record stored last
  taken   \* what the last read that took a record told: the number of the
          \* record, the loss it reported, and the number of the one before

buffer == <<logBuffer, count, head, tail, lost, stored, taken>>
logvars == <<logBuffer, count, head, tail, lost, logMask, lowMask, stored, taken>>

LogInit ==
  /\ logBuffer = [i \in 0 .. LogBufferSize - 1 |-> 0]
  /\ count = 0 /\ head = 0 /\ tail = 0 /\ lost = 0
  /\ logMask = Priorities /\ lowMask = {}
  /\ stored = 0 /\ taken = [num |-> 0, lost |-> 0, before |-> -1]

NextIndex(i) == IF i + 1 >= LogBufferSize THEN 0 ELSE i + 1

\* The slot that is i slots behind slot h.
Slot(h, i) == IF h + i < LogBufferSize THEN h + i ELSE h + i - LogBufferSize

\* Fault: head stays.
Overwrite_head == lost' = lost + 1 /\ head' = head /\ count' = count

\* A full buffer loses its oldest record.
Overwrite == lost' = lost + 1 /\ head' = NextIndex(tail) /\ count' = count

eSysLog_write(p) ==
  /\ IF p \in logMask
     THEN /\ logBuffer' = [logBuffer EXCEPT ![tail] = stored + 1]
          /\ tail' = NextIndex(tail)
          /\ \/ /\ count < LogBufferSize
                /\ count' = count + 1
                /\ UNCHANGED <<head, lost>>
             \/ count >= LogBufferSize /\ Overwrite
          /\ stored' = stored + 1
          /\ UNCHANGED taken
     ELSE UNCHANGED buffer
  /\ UNCHANGED <<logMask, lowMask>>

\* Fault: lost is cleared before it is read.
eSysLog_read_order ==
  /\ count > 0 /\ taken' = [num |-> logBuffer[head], lost |-> 0, before |-> taken.num]
  /\ count' = count - 1 /\ head' = NextIndex(head) /\ lost' = 0 /\ UNCHANGED <<logBuffer, tail, logMask, lowMask, stored>>

\* A record is taken, with the number of records lost before it.
eSysLog_read ==
  /\ count > 0
  /\ taken' = [num |-> logBuffer[head], lost |-> lost, before |-> taken.num]
  /\ count' = count - 1
  /\ head' = NextIndex(head)
  /\ lost' = 0
  /\ UNCHANGED <<logBuffer, tail, logMask, lowMask, stored>>

\* Everything is taken in one step, as by reads that nothing comes between.
eSysLog_flush ==
  /\ count > 0
  /\ taken' = [num |-> logBuffer[Slot(head, count - 1)],
               lost |-> IF count = 1 THEN lost ELSE 0,
               before |-> IF count = 1 THEN taken.num ELSE logBuffer[Slot(head, count - 2)]]
  /\ count' = 0 /\ head' = tail /\ lost' = 0
  /\ UNCHANGED <<logBuffer, tail, logMask, lowMask, stored>>

eSysLog_mask(m, l) == logMask' = m /\ lowMask' = l /\ UNCHANGED buffer

SysLogCalls ==
  \/ \E p \in Priorities : eSysLog_write(p)
  \/ \E m, l \in Masks : eSysLog_mask(m, l)
  \/ eSysLog_flush

LogNext == SysLogCalls \/ eSysLog_read

LogSpec == LogInit /\ [][LogNext]_logvars

----------------------------------------------------------------------------
\* The ring holds the records stored last, oldest first, and every record is
\* in it, taken, or counted in lost.
RingOK ==
  /\ logBuffer \in [0 .. LogBufferSize - 1 -> Nat]
  /\ head \in 0 .. LogBufferSize - 1 /\ tail = Slot(head, count)
  /\ count \in 0 .. LogBufferSize /\ lost \in Nat /\ stored \in Nat
  /\ \A i \in 0 .. count - 1 : logBuffer[Slot(head, i)] = stored - count + 1 + i
  /\ lost > 0 => count = LogBufferSize
  /\ taken.num + lost + count = stored

\* Who prints the log can tell from the losses reported exactly which records
\* are missing: between a record taken and the one taken before lie as many
\* records as the read reported lost (tSysLog.c: VAR_lost).
GapsCounted == taken.num = taken.before + taken.lost + 1

\* The log keeps the last records in order and counts every other one (eSysLog_write,
\* eSysLog_read).
LogKept == RingOK /\ GapsCounted
=============================================================================
