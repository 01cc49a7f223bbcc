------------------------------ MODULE MCKernel ------------------------------
(***************************************************************************)
(* The configurations the runs of module Kernel check: the objects that    *)
(* exist at the start, and the service calls the programs use.             *)
(***************************************************************************)
EXTENDS Kernel, TLC

CONSTANTS t1, t2, t3

\* All tasks are started by the kernel, at the same priority.
AllStarted == [t \in TSK |-> [tskatr |-> "TA_NULL", act |-> TRUE, itskpri |-> TNUM_TPRI - 1]]
\* t1 and t2 are started, t2 above t1 and without queued activations.
TwoLevels(S) == [t \in S |-> [tskatr |-> IF t = t2 THEN "TA_NOACTQUE" ELSE "TA_NULL",
                              act |-> t \in {t1, t2}, itskpri |-> IF t = t1 THEN 1 ELSE 0]]
None == [o \in {} |-> 0]

Config(tskini, depth, calls) ==
  [tskini |-> tskini, semini |-> None, mtxini |-> None, wobjini |-> None,
   depth |-> depth, calls |-> calls]

\* The scheduler: priorities, queue positions, disabled dispatching, nested handlers.
Sched == Config(AllStarted, 2, {"act_tsk", "ext_tsk", "slp_tsk", "wup_tsk", "chg_pri", "rot_rdq",
                                "dis_dsp", "ena_dsp", "chg_ipm"})
\* Termination by request and what waits when it comes.
Term == Config(TwoLevels(TSK), 1, {"act_tsk", "ext_tsk", "ras_ter", "dis_ter", "ena_ter", "slp_tsk",
                                   "wup_tsk", "sus_tsk", "rsm_tsk", "dis_dsp", "ena_dsp"})
\* Waits with a time limit and their forced release, beside terminations that are put off.
Delays == Config(TwoLevels(TSK), 1, {"slp_tsk", "dly_tsk", "rel_wai", "wup_tsk", "ras_ter",
                                     "dis_ter", "ena_ter", "act_tsk", "loc_cpu"})
\* Creation and deletion, and the calls that read a priority before they lock.
Create == Config(TwoLevels({t1, t2}), 1, {"acre_tsk", "del_tsk", "act_tsk", "ext_tsk", "slp_tsk",
                                          "wup_tsk", "can_act", "can_wup", "chg_pri_ini", "rot_rdq_self",
                                          "ter_tsk"})
ChgPri == Config(TwoLevels({t1, t2}), 1, {"acre_tsk", "chg_pri_ini", "slp_tsk", "wup_tsk"})

TaskConfigs == {Sched, Term, Delays, Create}
ChgPriConfigs == {ChgPri}
=============================================================================
