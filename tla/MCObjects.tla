----------------------------- MODULE MCObjects -----------------------------
(***************************************************************************)
(* What tasks exchange: event flags and data queues, composed on one       *)
(* kernel, and the configurations the runs check.                          *)
(***************************************************************************)
EXTENDS EventFlag, DataQueue, TLC

CONSTANTS t1, t2, t3, f1, q1, p1, v1, v2

queuevars == <<dtq, free_dtq>>

OInit == FlgInit /\ DtqInit

ONext ==
  \/ FlgStep /\ winfo_dtq' = Returned /\ UNCHANGED queuevars
  \/ DtqStep /\ ~InSetFlg /\ flg' = Frames
  \/ Next /\ ~InSetFlg /\ flg' = Frames /\ winfo_dtq' = Returned /\ UNCHANGED queuevars

OSpec == OInit /\ [][ONext]_<<vars, flg, queuevars, winfo_dtq>>

----------------------------------------------------------------------------
None == [o \in {} |-> 0]
BothQueues(S) == S \cup {RWait(q) : q \in S}
Objects == {f1} \cup BothQueues({q1, p1})

\* All started by the kernel: t1 below the others, or above them.
OneBelow == [t \in TSK |-> [tskatr |-> "TA_NULL", act |-> TRUE, itskpri |-> IF t = t1 THEN 1 ELSE 0]]
OneAbove == [t \in TSK |-> [tskatr |-> "TA_NULL", act |-> TRUE, itskpri |-> IF t = t1 THEN 0 ELSE 1]]

Config(tskini, nesting, calls) ==
  [tskini |-> tskini, semini |-> None, mtxini |-> None, wobjini |-> None, flgini |-> None,
   bits |-> {}, dtqini |-> None, cnts |-> {}, sent |-> {}, depth |-> nesting, calls |-> calls]

\* A flag for several tasks, queued by priority, that is never cleared as a whole.
Flag == [Config(OneBelow, 1, {"set_flg", "clr_flg", "wai_flg", "ini_flg", "loc_cpu", "chg_pri"})
         EXCEPT !.wobjini = [f \in {f1} |-> "TA_TPRI"], !.bits = {1},
                !.flgini = [f \in {f1} |-> [wmul |-> TRUE, clr |-> FALSE, iflgptn |-> {}]]]
\* Flags of all attributes.
FlagLife == [Config(OneBelow, 0, {"set_flg", "clr_flg", "wai_flg", "pol_flg", "ini_flg", "acre_flg",
                                  "del_flg", "slp_tsk"})
             EXCEPT !.bits = {1, 2}]

\* The configuration c with the queue q of two entries, whose senders wait by priority.
WithQueue(c, q) ==
  [c EXCEPT !.wobjini = [o \in BothQueues({q}) |-> IF o = q THEN "TA_TPRI" ELSE "TA_TFIFO"],
            !.dtqini = [p \in {q} |-> 2], !.sent = [data : {v1, v2}, datapri : 0 .. 2]]
DataQ == WithQueue(Config(OneAbove, 1, {"snd_dtq", "psnd_dtq", "fsnd_dtq", "rcv_dtq", "chg_pri"}), q1)
PriQ == WithQueue(Config([t \in {t1, t2} |-> OneAbove[t]], 1,
                         {"snd_dtq", "psnd_dtq", "rcv_dtq", "prcv_dtq", "ini_dtq"}), p1)
\* Queues that come and go, of no or one entry.
DtqLife == [Config(OneAbove, 0, {"acre_dtq", "del_dtq", "ini_dtq", "snd_dtq", "rcv_dtq", "slp_tsk"})
            EXCEPT !.cnts = {0, 1}, !.sent = [data : {v1}, datapri : {0, 1}]]

ObjectConfigs == {Flag, FlagLife, DataQ, PriQ, DtqLife}

----------------------------------------------------------------------------
\* What set_flg, the data queues and their callers, who may be handlers or hold the
\* CPU lock, leave behind: wait queues and schedule are right, the objects intact,
\* and nobody waits for what is there (eventflag.c, dataqueue.c, pridataq.c).
ObjectsOK ==
  /\ WaitQueueOK /\ SchedOK /\ FlgTypeOK /\ DtqTypeOK
  /\ NobodyOverlooked /\ NoNeedlessWait
=============================================================================
