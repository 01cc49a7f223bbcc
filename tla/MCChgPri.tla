------------------------------ MODULE MCChgPri ------------------------------
(***************************************************************************)
(* chg_pri(t, TPRI_INI) reads the initial priority of t before it locks    *)
(* the CPU.  A history variable records which of the tasks in such a call  *)
(* have read it from a control block that was not registered.              *)
(***************************************************************************)
EXTENDS MCKernel

VARIABLE unregistered   \* the tasks whose call has read an invalid field

hvars == <<ker, nest, cpulock, unregistered>>

HInit == Init /\ unregistered = {}

InChgPri(k, t) == k.pending[t].call = "chg_pri"

HNext ==
  /\ Next
  /\ unregistered' =
       {t \in TSK : /\ InChgPri(ker', t)
                    /\ \/ t \in unregistered
                       \/ ~InChgPri(ker, t) /\ ~Exists(ker'.pending[t].tsk)}

HSpec == HInit /\ [][HNext]_hvars

\* The comment in chg_pri: the assignment reads an invalid field when the task
\* is not registered, but in that case the value of newbpri is not used.
InvalidFieldUnused ==
  [][\A t \in TSK :
       (t \in unregistered /\ ker.pending[t] # IDLE /\ ker'.pending[t] = IDLE)
       => LET c == ker.pending[t] IN ~ChgPriAccepted(c.tsk, c.pri)]_hvars
=============================================================================
