--------------------------- MODULE KernelContext ---------------------------
(***************************************************************************)
(* The processor as the kernel sees it: the kernel data, the context that  *)
(* executes (a task, or interrupt handlers nested "nest" deep), the CPU    *)
(* lock, and who may call what (check.h).  A service call locks the CPU    *)
(* for its whole body, so it is one action; interrupts come between the    *)
(* calls of a task, and between a check made before the lock and the lock. *)
(***************************************************************************)
EXTENDS KernelOps

CONSTANTS
  MAXNEST     \* bound of the model on excpt_nest_count

\* What configuration c defines: tinib_table, seminib_table, mtxinib_table, the
\* attributes of the other static objects, the service calls that its programs
\* use and how deep its interrupt handlers nest.
TSKINI(c) == c.tskini
SEMINI(c) == c.semini
MTXINI(c) == c.mtxini
WOBJINI(c) == c.wobjini
Calls(c) == c.calls
Depth(c) == c.depth

\* The objects created statically (IDs up to tmax_stskid, tmax_ssemid, ...).
STSK(c) == DOMAIN TSKINI(c)
SSEM(c) == DOMAIN SEMINI(c)
SMTX(c) == DOMAIN MTXINI(c)

ASSUME MaxnestAssumption == MAXNEST \in Nat
ASSUME StaticAssumption ==
  \A c \in CFG : STSK(c) \subseteq TSK /\ SSEM(c) \subseteq SEM /\ SMTX(c) \subseteq MTX
ASSUME TskiniAssumption ==
  \A c \in CFG :
    TSKINI(c) \in [STSK(c) -> [tskatr : {"TA_NULL", "TA_NOACTQUE"}, act : BOOLEAN, itskpri : PRI]]
ASSUME SeminiAssumption ==
  \A c \in CFG :
    /\ SEMINI(c) \in [SSEM(c) -> [sematr : {"TA_TFIFO", "TA_TPRI"}, isemcnt : Nat, maxsem : Nat]]
    /\ \A s \in SSEM(c) : SEMINI(c)[s].isemcnt <= SEMINI(c)[s].maxsem
ASSUME MtxiniAssumption ==
  \A c \in CFG :
    MTXINI(c) \in [SMTX(c) -> [mtxatr : {"TA_TFIFO", "TA_TPRI", "TA_CEILING"}, ceilpri : PRI]]
ASSUME WobjiniAssumption ==
  \A c \in CFG :
    /\ WOBJINI(c) \in [DOMAIN WOBJINI(c) -> {"TA_TFIFO", "TA_TPRI"}]
    /\ DOMAIN WOBJINI(c) \subseteq WOBJ

VARIABLES
  ker,      \* the kernel data, an element of KState
  nest,     \* excpt_nest_count: 0 in task context
  cpulock   \* TRUE between loc_cpu and unl_cpu

vars == <<ker, nest, cpulock>>

----------------------------------------------------------------------------
(* Initial state (initialize_task, initialize_semaphore, initialize_mutex, *)
(* start_dispatch): the static objects exist, the TA_ACT tasks are ready   *)
(* in the order of their creation.                                         *)

Orders(S) ==
  {s \in UNION {[1 .. n -> S] : n \in 0 .. Cardinality(S)} :
     /\ Distinct(s)
     /\ \A x \in S : InQueue(s, x)}

ActAt(c, p) == {t \in STSK(c) : TSKINI(c)[t].act /\ TSKINI(c)[t].itskpri = p}

InitialKState(c, rdq, ftsk, fsem, fmtx) ==
  LET ipri == [t \in TSK |-> IF t \in STSK(c) THEN TSKINI(c)[t].itskpri ELSE 0]
      map == {p \in PRI : rdq[p] # <<>>}
      top == IF map = {} THEN NULL ELSE Head(rdq[primap_search(map)])
  IN [cfg |-> c,
      tskatr |-> [t \in TSK |-> IF t \in STSK(c) THEN TSKINI(c)[t].tskatr ELSE "TA_NOEXS"],
      ipriority |-> ipri,
      tstat |-> [t \in TSK |-> IF t \in STSK(c) /\ TSKINI(c)[t].act THEN TS_RUNNABLE ELSE TS_DORMANT],
      bpriority |-> ipri, priority |-> ipri,
      actque |-> [t \in TSK |-> FALSE], wupque |-> [t \in TSK |-> FALSE],
      raster |-> [t \in TSK |-> FALSE], enater |-> [t \in TSK |-> t \in STSK(c)],
      winfo |-> [t \in TSK |-> "none"], wobj |-> [t \in TSK |-> NULL],
      lastmtx |-> [t \in TSK |-> <<>>], pending |-> [t \in TSK |-> IDLE],
      free_tcb |-> ftsk, ready_queue |-> rdq, ready_primap |-> map,
      runtsk |-> top, schedtsk |-> top,
      enadsp |-> TRUE, ipm |-> FALSE, dspflg |-> TRUE, tmevt |-> {},
      wobjatr |-> [o \in OBJ |-> IF o \in SSEM(c) THEN SEMINI(c)[o].sematr
                                 ELSE IF o \in SMTX(c) THEN MTXINI(c)[o].mtxatr
                                 ELSE IF o \in DOMAIN WOBJINI(c) THEN WOBJINI(c)[o] ELSE "TA_NOEXS"],
      wait_queue |-> [o \in OBJ |-> <<>>],
      free_semcb |-> fsem,
      semcnt |-> [s \in SEM |-> IF s \in SSEM(c) THEN SEMINI(c)[s].isemcnt ELSE 0],
      isemcnt |-> [s \in SEM |-> IF s \in SSEM(c) THEN SEMINI(c)[s].isemcnt ELSE 0],
      maxsem |-> [s \in SEM |-> IF s \in SSEM(c) THEN SEMINI(c)[s].maxsem ELSE 0],
      free_mtxcb |-> fmtx,
      ceilpri |-> [m \in MTX |-> IF m \in SMTX(c) THEN MTXINI(c)[m].ceilpri ELSE 0],
      loctsk |-> [m \in MTX |-> NULL],
      failed |-> FALSE]

Init ==
  /\ \E c \in CFG :
     \E rdq \in [PRI -> UNION {Orders(ActAt(c, p)) : p \in PRI}], ftsk \in Orders(TSK \ STSK(c)),
        fsem \in Orders(SEM \ SSEM(c)), fmtx \in Orders(MTX \ SMTX(c)) :
       /\ \A p \in PRI : rdq[p] \in Orders(ActAt(c, p))
       /\ ker = InitialKState(c, rdq, ftsk, fsem, fmtx)
  /\ nest = 0
  /\ cpulock = FALSE

----------------------------------------------------------------------------
(* Who may call (check.h).  "Self" is the running task.                    *)

Self == ker.runtsk

\* A task executes application code, and not the rest of a call it has begun.
TaskRuns == nest = 0 /\ Self # NULL /\ ker.pending[Self] = IDLE

\* CHECK_TSKCTX_UNL
TaskCall(c) == c \in Calls(ker.cfg) /\ ~cpulock /\ TaskRuns

\* CHECK_UNL: an interrupt handler may call as well.
AnyCall(c) == c \in Calls(ker.cfg) /\ ~cpulock /\ (nest > 0 \/ TaskRuns)

\* Fault: the dispatch-disabled state is not checked.
DispatchCall_unchecked(c) == TaskCall(c)

\* CHECK_DISPATCH
DispatchCall(c) == TaskCall(c) /\ ker.dspflg

\* How a call ends that may have made another task the one to run: in task
\* context it dispatches, a handler leaves that to its return.
Return(k) ==
  /\ ker' = IF nest = 0 /\ k.runtsk # k.schedtsk THEN dispatch(k) ELSE k
  /\ UNCHANGED <<nest, cpulock>>

\* exit_and_dispatch: the context of the caller is thrown away.
ExitAndDispatch(k) ==
  /\ ker' = dispatch(k)
  /\ cpulock' = FALSE
  /\ UNCHANGED nest

----------------------------------------------------------------------------
(* Interrupts (core_support.S): entry, and the return that dispatches.     *)

IntEnter ==
  /\ nest < MAXNEST /\ nest < Depth(ker.cfg) /\ ~cpulock
  /\ nest' = nest + 1
  /\ UNCHANGED <<ker, cpulock>>

IntExit ==
  /\ nest > 0 /\ ~cpulock
  /\ nest' = nest - 1
  /\ ker' = IF nest = 1 /\ ker.runtsk # ker.schedtsk THEN dispatch(ker) ELSE ker
  /\ UNCHANGED cpulock

\* The timer handler (signal_time) takes the event of t out of the heap and
\* calls its callback; which event is due when is the subject of module TimeEvent.
Timeout(t) ==
  /\ nest > 0 /\ ~cpulock
  /\ t \in ker.tmevt
  /\ LET k == [ker EXCEPT !.tmevt = @ \ {t}]
     IN  ker' = IF ker.tstat[t].wai = "DLY" THEN wait_tmout_ok(k, t) ELSE wait_tmout(k, t)
  /\ UNCHANGED <<nest, cpulock>>
=============================================================================
