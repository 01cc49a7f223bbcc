----------------------------- MODULE TaskCalls -----------------------------
(***************************************************************************)
(* The service calls on tasks and on the state of the system:              *)
(* task_manage.c, task_sync.c, task_term.c, sys_manage.c and chg_ipm of    *)
(* interrupt.c.  A call that is refused changes nothing, so the guards are *)
(* the conditions under which it is accepted.                              *)
(***************************************************************************)
EXTENDS KernelContext

Exists(t) == ker.tskatr[t] # "TA_NOEXS"

----------------------------------------------------------------------------
(* task_manage.c                                                           *)

acre_tsk(atr, act, pri) ==
  /\ TaskCall("acre_tsk")
  /\ ker.free_tcb # <<>>
  /\ LET t == Head(ker.free_tcb)
         d == make_dormant([ker EXCEPT !.free_tcb = Tail(@), !.tskatr[t] = atr,
                                       !.ipriority[t] = pri, !.actque[t] = FALSE,
                                       !.lastmtx[t] = <<>>], t)
     IN  Return(IF act THEN make_active(d, t) ELSE d)

del_tsk(t) ==
  /\ TaskCall("del_tsk")
  /\ Exists(t) /\ t \notin STSK(ker.cfg) /\ TSTAT_DORMANT(ker, t)
  /\ ker' = [ker EXCEPT !.tskatr[t] = "TA_NOEXS", !.free_tcb = Append(@, t)]
  /\ UNCHANGED <<nest, cpulock>>

act_tsk(t) ==
  /\ AnyCall("act_tsk")
  /\ Exists(t)
  /\ \/ TSTAT_DORMANT(ker, t) /\ Return(make_active(ker, t))
     \/ /\ ~TSTAT_DORMANT(ker, t)
        /\ ker.tskatr[t] # "TA_NOACTQUE" /\ ~ker.actque[t]
        /\ ker' = [ker EXCEPT !.actque[t] = TRUE]
        /\ UNCHANGED <<nest, cpulock>>

can_act(t) ==
  /\ TaskCall("can_act")
  /\ Exists(t)
  /\ ker' = [ker EXCEPT !.actque[t] = FALSE]
  /\ UNCHANGED <<nest, cpulock>>

\* chg_pri from the point where it locks the CPU: accepted, and what it does.
ChgPriAccepted(t, newbpri) ==
  /\ Exists(t) /\ ~TSTAT_DORMANT(ker, t)
  /\ (ker.lastmtx[t] # <<>> \/ TSTAT_WAIT_MTX(ker, t)) => mutex_check_ceilpri(ker, t, newbpri)

ChangeBasePriority(k, t, newbpri) ==
  LET b == [k EXCEPT !.bpriority[t] = newbpri]
  IN  IF k.lastmtx[t] # <<>> /\ mutex_scan_ceilmtx(b, t) THEN b
      ELSE change_priority(b, t, newbpri, FALSE)

chg_pri(t, pri) ==
  /\ TaskCall("chg_pri")
  /\ ChgPriAccepted(t, pri)
  /\ Return(ChangeBasePriority(ker, t, pri))

\* chg_pri(t, TPRI_INI) reads the initial priority before it locks the CPU
\* and before it knows that t exists,
chg_pri_ini(t) ==
  /\ TaskCall("chg_pri_ini")
  /\ ker' = [ker EXCEPT !.pending[Self] =
               [call |-> "chg_pri", tsk |-> t, pri |-> ker.ipriority[t]]]
  /\ UNCHANGED <<nest, cpulock>>

\* and does the rest when it next has the processor.
chg_pri_ini_locked ==
  /\ nest = 0 /\ ~cpulock /\ Self # NULL
  /\ ker.pending[Self].call = "chg_pri"
  /\ LET c == ker.pending[Self]
         k == [ker EXCEPT !.pending[Self] = IDLE]
     IN  Return(IF ChgPriAccepted(c.tsk, c.pri)
                THEN ChangeBasePriority(k, c.tsk, c.pri) ELSE k)

----------------------------------------------------------------------------
(* task_sync.c                                                             *)

\* slp_tsk, and tslp_tsk when tmo holds.
slp_tsk(tmo) ==
  /\ DispatchCall("slp_tsk")
  /\ ~ker.raster[Self]
  /\ IF ker.wupque[Self]
     THEN ker' = [ker EXCEPT !.wupque[Self] = FALSE] /\ UNCHANGED <<nest, cpulock>>
     ELSE Return(make_wait(ker, "SLP", tmo))

\* Fault: a task that is suspended as well is not woken.
wup_tsk_suspended(t) ==
  /\ AnyCall("wup_tsk")
  /\ Exists(t) /\ ~TSTAT_DORMANT(ker, t)
  /\ \/ ker.tstat[t] = TS_WAITING("SLP") /\ Return(wait_complete(ker, t))
     \/ /\ ker.tstat[t] # TS_WAITING("SLP") /\ ~ker.wupque[t]
        /\ ker' = [ker EXCEPT !.wupque[t] = TRUE]
        /\ UNCHANGED <<nest, cpulock>>

wup_tsk(t) ==
  /\ AnyCall("wup_tsk")
  /\ Exists(t) /\ ~TSTAT_DORMANT(ker, t)
  /\ \/ ker.tstat[t].wai = "SLP" /\ Return(wait_complete(ker, t))
     \/ /\ ker.tstat[t].wai # "SLP" /\ ~ker.wupque[t]
        /\ ker' = [ker EXCEPT !.wupque[t] = TRUE]
        /\ UNCHANGED <<nest, cpulock>>

can_wup(t) ==
  /\ TaskCall("can_wup")
  /\ Exists(t) /\ ~TSTAT_DORMANT(ker, t)
  /\ ker' = [ker EXCEPT !.wupque[t] = FALSE]
  /\ UNCHANGED <<nest, cpulock>>

rel_wai(t) ==
  /\ AnyCall("rel_wai")
  /\ Exists(t) /\ TSTAT_WAITING(ker, t)
  /\ Return(make_non_wait(
       SetWercd(wait_dequeue_tmevtb(wait_dequeue_wobj(ker, t), t), t, "E_RLWAI"), t))

sus_tsk(t) ==
  /\ TaskCall("sus_tsk")
  /\ t = Self => ker.dspflg
  /\ Exists(t) /\ ~TSTAT_DORMANT(ker, t) /\ ~ker.raster[t] /\ ~TSTAT_SUSPENDED(ker, t)
  /\ Return(IF TSTAT_RUNNABLE(ker, t)
            THEN make_non_runnable([ker EXCEPT !.tstat[t] = TS_SUSPENDED], t)
            ELSE [ker EXCEPT !.tstat[t].sus = TRUE])

rsm_tsk(t) ==
  /\ TaskCall("rsm_tsk")
  /\ Exists(t) /\ TSTAT_SUSPENDED(ker, t)
  /\ Return(IF TSTAT_WAITING(ker, t)
            THEN [ker EXCEPT !.tstat[t].sus = FALSE]
            ELSE make_runnable([ker EXCEPT !.tstat[t] = TS_RUNNABLE], t))

dly_tsk ==
  /\ DispatchCall("dly_tsk")
  /\ ~ker.raster[Self]
  /\ Return(make_wait(ker, "DLY", TRUE))

----------------------------------------------------------------------------
(* task_term.c                                                             *)

\* Accepted with the CPU locked and with dispatching disabled: both end.
ext_tsk ==
  /\ "ext_tsk" \in Calls(ker.cfg) /\ TaskRuns
  /\ ExitAndDispatch(task_terminate(
       IF ker.dspflg THEN ker
       ELSE set_dspflg([ker EXCEPT !.enadsp = TRUE, !.ipm = FALSE]), Self))

\* The wait of t ends because its termination is requested.
AbandonWait(k, t) ==
  LET w == IF TSTAT_WAITING(k, t)
           THEN SetWercd(wait_dequeue_tmevtb(wait_dequeue_wobj(k, t), t), t, "E_RASTER")
           ELSE k
  IN  make_runnable([w EXCEPT !.tstat[t] = TS_RUNNABLE], t)

ras_ter(t) ==
  /\ TaskCall("ras_ter")
  /\ t # Self /\ Exists(t) /\ ~TSTAT_DORMANT(ker, t)
  /\ LET k == [ker EXCEPT !.raster[t] = TRUE]
     IN  Return(IF ker.enater[t] THEN task_terminate(ker, t)
                ELSE IF TSTAT_RUNNABLE(ker, t) THEN k
                ELSE AbandonWait(k, t))

dis_ter ==
  /\ TaskCall("dis_ter")
  /\ ker' = [ker EXCEPT !.enater[Self] = FALSE]
  /\ UNCHANGED <<nest, cpulock>>

ena_ter ==
  /\ TaskCall("ena_ter")
  /\ IF ker.raster[Self] /\ ker.dspflg
     THEN ExitAndDispatch(task_terminate(ker, Self))
     ELSE ker' = [ker EXCEPT !.enater[Self] = TRUE] /\ UNCHANGED <<nest, cpulock>>

ter_tsk(t) ==
  /\ TaskCall("ter_tsk")
  /\ t # Self /\ Exists(t) /\ ~TSTAT_DORMANT(ker, t)
  /\ Return(task_terminate(ker, t))

----------------------------------------------------------------------------
(* sys_manage.c and chg_ipm                                                *)

rot_rdq(pri) ==
  /\ AnyCall("rot_rdq")
  /\ Return(rotate_ready_queue(ker, pri))

\* rot_rdq(TPRI_SELF) reads the base priority before it locks the CPU.
rot_rdq_self ==
  /\ TaskCall("rot_rdq_self")
  /\ ker' = [ker EXCEPT !.pending[Self] =
               [call |-> "rot_rdq", tsk |-> Self, pri |-> ker.bpriority[Self]]]
  /\ UNCHANGED <<nest, cpulock>>

rot_rdq_self_locked ==
  /\ nest = 0 /\ ~cpulock /\ Self # NULL
  /\ ker.pending[Self].call = "rot_rdq"
  /\ Return(rotate_ready_queue([ker EXCEPT !.pending[Self] = IDLE], ker.pending[Self].pri))

loc_cpu ==
  /\ "loc_cpu" \in Calls(ker.cfg) /\ ~cpulock /\ (nest > 0 \/ TaskRuns)
  /\ cpulock' = TRUE
  /\ UNCHANGED <<ker, nest>>

unl_cpu ==
  /\ cpulock
  /\ cpulock' = FALSE
  /\ UNCHANGED <<ker, nest>>

dis_dsp ==
  /\ TaskCall("dis_dsp")
  /\ ker' = [ker EXCEPT !.enadsp = FALSE, !.dspflg = FALSE]
  /\ UNCHANGED <<nest, cpulock>>

\* Fault: a request that was put off is forgotten.
Reenable_forgets(k) == Return(set_dspflg(k))

\* Dispatching becomes possible again: a request to terminate the task that
\* was put off is honoured now.
Reenable(k) ==
  LET s == set_dspflg(k)
  IN  IF s.raster[Self] /\ s.enater[Self] THEN ExitAndDispatch(task_terminate(s, Self))
      ELSE Return(s)

ena_dsp ==
  /\ TaskCall("ena_dsp")
  /\ LET k == [ker EXCEPT !.enadsp = TRUE]
     IN  IF ker.ipm THEN ker' = k /\ UNCHANGED <<nest, cpulock>> ELSE Reenable(k)

\* ipm is TRUE when the interrupt priority mask is not TIPM_ENAALL.
chg_ipm(mask) ==
  /\ TaskCall("chg_ipm")
  /\ LET k == [ker EXCEPT !.ipm = mask]
     IN  IF ~mask /\ ker.enadsp THEN Reenable(k)
         ELSE ker' = [k EXCEPT !.dspflg = FALSE] /\ UNCHANGED <<nest, cpulock>>

----------------------------------------------------------------------------
TaskStep ==
  \/ \E atr \in {"TA_NULL", "TA_NOACTQUE"}, act \in BOOLEAN, pri \in PRI : acre_tsk(atr, act, pri)
  \/ \E t \in TSK : \/ del_tsk(t) \/ act_tsk(t) \/ can_act(t)
                    \/ wup_tsk(t) \/ can_wup(t) \/ rel_wai(t)
                    \/ sus_tsk(t) \/ rsm_tsk(t)
                    \/ ras_ter(t) \/ ter_tsk(t)
                    \/ chg_pri_ini(t)
                    \/ \E pri \in PRI : chg_pri(t, pri)
  \/ chg_pri_ini_locked
  \/ \E tmo \in BOOLEAN : slp_tsk(tmo)
  \/ dly_tsk
  \/ ext_tsk \/ dis_ter \/ ena_ter
  \/ \E pri \in PRI : rot_rdq(pri)
  \/ rot_rdq_self \/ rot_rdq_self_locked
  \/ loc_cpu \/ unl_cpu \/ dis_dsp \/ ena_dsp
  \/ \E mask \in BOOLEAN : chg_ipm(mask)

InterruptStep == IntEnter \/ IntExit \/ \E t \in TSK : Timeout(t)
=============================================================================
