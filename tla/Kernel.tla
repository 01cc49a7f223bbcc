------------------------------- MODULE Kernel -------------------------------
(***************************************************************************)
(* The ASP3 kernel: tasks, semaphores, mutexes, interrupts and the         *)
(* dispatcher composed, and what must hold of it.                          *)
(***************************************************************************)
EXTENDS TaskCalls, SemCalls, MutexCalls

Next == TaskStep \/ SemStep \/ MutexStep \/ InterruptStep

Spec == Init /\ [][Next]_vars

----------------------------------------------------------------------------
TypeOK == ker \in KState /\ nest \in 0 .. MAXNEST /\ cpulock \in BOOLEAN

\* Every runnable task is in the queue of its current priority, once, and
\* nobody else is in a ready queue; the bitmap names the queues with tasks.
Queued(k, S) ==
  /\ \A p \in PRI : Distinct(k.ready_queue[p])
  /\ \A p \in PRI, t \in TSK : InQueue(k.ready_queue[p], t) <=> t \in S /\ k.priority[t] = p
  /\ \A p \in PRI : p \in k.ready_primap <=> k.ready_queue[p] # <<>>

ReadyQueueOK == Queued(ker, {t \in TSK : TSTAT_RUNNABLE(ker, t)})

\* x is the first task of the highest priority queue with tasks.
IsTop(k, x) ==
  IF x = NULL THEN \A p \in PRI : k.ready_queue[p] = <<>>
  ELSE \E p \in PRI : /\ k.ready_queue[p] # <<>> /\ Head(k.ready_queue[p]) = x
                      /\ \A q \in PRI : q < p => k.ready_queue[q] = <<>>

\* The incremental updates of p_schedtsk always arrive at the task a search of
\* the ready queue would find, while dispatching is possible; while it is not,
\* p_schedtsk stays at the running task, which stays runnable.  In task context
\* the running task is p_schedtsk.
SchedOK ==
  /\ ker.dspflg => IsTop(ker, ker.schedtsk)
  /\ ~ker.dspflg => /\ ker.runtsk # NULL /\ ker.schedtsk = ker.runtsk
                    /\ TSTAT_RUNNABLE(ker, ker.runtsk)
  /\ nest = 0 => ker.runtsk = ker.schedtsk
  /\ ker.dspflg <=> ker.enadsp /\ ~ker.ipm

\* No assert() of the code ever fails: make_non_runnable never takes p_schedtsk
\* away while dispatching is impossible, make_non_wait is given waiting tasks
\* only, a successful lock needs no dispatch, and an error code is never taken
\* for the address of a time event block (the WINFO union).
NoAssertFails == ~ker.failed

\* The scheduler: the ready queue is what the states of the tasks say, p_schedtsk is
\* what the ready queue says, and the assertions of the code that rest on both hold
\* (task.c, wait.c).
SchedulerOK == ReadyQueueOK /\ SchedOK /\ NoAssertFails

\* A task is in the wait queue of an object, once, exactly while it waits for
\* that object; an object that does not exist has no waiters; and the queue of
\* a TA_TPRI or TA_CEILING object is ordered by current priority, also when the
\* priority of a waiting task is changed.
WaitQueueOK ==
  \A o \in OBJ : LET q == ker.wait_queue[o] IN
    /\ Distinct(q)
    /\ \A t \in TSK : InQueue(q, t) <=> TSTAT_WAIT_WOBJ(ker, t) /\ ker.wobj[t] = o
    /\ ker.wobjatr[o] = "TA_NOEXS" => q = <<>>
    /\ ker.wobjatr[o] \in {"TA_TPRI", "TA_CEILING"} =>
         \A i, j \in DOMAIN q : i < j => ker.priority[q[i]] <= ker.priority[q[j]]

\* A time event block lives on the stack of the waiting task: it is registered
\* only while the task waits with a time limit, however the wait ends.
TimeEventOK ==
  \A t \in TSK : /\ t \in ker.tmevt <=> TSTAT_WAITING(ker, t) /\ ker.winfo[t] = "tmevtb"
                 /\ TSTAT_WAITING(ker, t) <=> ker.winfo[t] \in {"null", "tmevtb"}

\* The queue of an object and the time event of a wait agree with the state of the
\* task, whichever of completion, timeout, release, reset, deletion and termination
\* ends the wait (wait.c).
WaitsOK == WaitQueueOK /\ TimeEventOK

\* A request to terminate a task is pending only for a task that is not waiting
\* and not suspended, and only while the task forbids its termination or, being
\* the running task, dispatching is impossible.
TerminationOK ==
  \A t \in TSK : ker.raster[t] =>
    /\ TSTAT_RUNNABLE(ker, t)
    /\ ker.enater[t] => t = ker.runtsk /\ ~ker.dspflg

\* No wakeup is lost: a task that sleeps has none queued.
WakeupOK == \A t \in TSK : ker.wupque[t] => ker.tstat[t].wai # "SLP"

\* A dormant task keeps nothing of its earlier life: no mutex, no queued
\* activation, no wakeup.  The free list holds the tasks that do not exist.
DormantOK ==
  /\ \A t \in TSK : TSTAT_DORMANT(ker, t) =>
       ~ker.actque[t] /\ ~ker.wupque[t] /\ ker.lastmtx[t] = <<>> /\ ker.pending[t] = IDLE
  /\ \A t \in TSK : ~Exists(t) => TSTAT_DORMANT(ker, t)
  /\ \A t \in TSK : InQueue(ker.free_tcb, t) <=> ~Exists(t)
  /\ Distinct(ker.free_tcb)

\* What a task is left with when its waits and its life end: no wakeup beside a
\* sleep, no time event without a wait, nothing of an earlier life (task_sync.c,
\* wait.c, make_dormant).
TasksOK == WakeupOK /\ TimeEventOK /\ DormantOK

\* The list of a task holds each mutex it owns once and no other; a mutex with
\* waiters has an owner, who is not waiting for it.
MutexOK ==
  /\ \A t \in TSK : Distinct(ker.lastmtx[t])
  /\ \A m \in MTX, t \in TSK : m \in Holds(ker, t) <=> MtxExists(m) /\ ker.loctsk[m] = t
  /\ \A m \in MTX : ker.wait_queue[m] # <<>> =>
       ker.loctsk[m] # NULL /\ ~InQueue(ker.wait_queue[m], ker.loctsk[m])

\* The current priority, which the code updates step by step, is the highest of
\* the base priority and the ceilings of the mutexes the task has; and the base
\* priority is never above a ceiling the task has or waits for.
CeilingOK ==
  \A t \in TSK :
    /\ ker.priority[t] = mutex_calc_priority(ker, t)
    /\ mutex_check_ceilpri(ker, t, ker.bpriority[t])

\* Owners, their lists and the priorities that follow from them (mutex.c).
MutexesOK == MutexOK /\ CeilingOK

\* While dispatching stays impossible no other task gets the processor.
NoPreemption == [][~ker.dspflg /\ ~ker'.dspflg => ker'.runtsk = ker.runtsk]_vars

\* A task that loses the processor while it is ready, without a call that moves
\* it, keeps the first place among the tasks of its priority (μITRON precedence).
MovesTasks ==
  \/ \E pri \in PRI : rot_rdq(pri) \/ \E t \in TSK : chg_pri(t, pri)
  \/ rot_rdq_self_locked \/ chg_pri_ini_locked \/ ext_tsk \/ ena_ter \/ ena_dsp
  \/ \E mask \in BOOLEAN : chg_ipm(mask)
PreemptedKeepsPlace ==
  [][\A t \in TSK :
       (/\ t = ker.runtsk /\ ker.dspflg /\ Head(ker.ready_queue[ker.priority[t]]) = t
        /\ TSTAT_RUNNABLE(ker', t) /\ ~MovesTasks)
       => Head(ker'.ready_queue[ker'.priority[t]]) = t]_vars

\* Neither disabled dispatching nor preemption costs a task its place (set_dspflg,
\* make_runnable, dispatch).
PlacesKept == NoPreemption /\ PreemptedKeepsPlace

\* A task whose wait for a mutex ends with E_OK was first in the queue and has
\* the mutex; with any other code it does not have it.
GrantOK ==
  [][\A t \in TSK : TSTAT_WAIT_MTX(ker, t) =>
       LET m == ker.wobj[t] IN
       /\ ker'.winfo[t] = "E_OK" => /\ ker'.loctsk[m] = t
                                    /\ t = Head(ker.wait_queue[m])
       /\ ker'.winfo[t] \in WERCD \ {"E_OK"} => ker'.loctsk[m] # t]_vars

----------------------------------------------------------------------------
(* Refinement: every mutex is a lock, every semaphore a counter.           *)

WaitersOf(o) == {ker.wait_queue[o][i] : i \in DOMAIN ker.wait_queue[o]}

MutexesAsLocks == INSTANCE LockSpec WITH
  owner <- [m \in MTX |-> IF MtxExists(m) THEN ker.loctsk[m] ELSE NULL],
  waiters <- [m \in MTX |-> WaitersOf(m)]
SemaphoresAsCounts == INSTANCE CountSpec WITH
  exists <- [s \in SEM |-> SemExists(s)], count <- ker.semcnt, initial <- ker.isemcnt,
  max <- ker.maxsem, waiters <- [s \in SEM |-> WaitersOf(s)]

\* The mutexes of the kernel implement LockSpec: one owner, no lock taken past
\* a waiting task, an owner lost only by unlocking, termination or reset.
MutexesAreLocks == MutexesAsLocks!Spec

\* A mutex passes from owner to waiter as a lock does, and the waiter is told the
\* truth about it (mutex_release, wait_tmout).
MutexesPass == MutexesAreLocks /\ GrantOK

\* The semaphores implement CountSpec: no unit lost or invented when a wakeup,
\* a timeout and a reset meet, none taken past a waiting task.
SemaphoresCount == SemaphoresAsCounts!Spec
=============================================================================
