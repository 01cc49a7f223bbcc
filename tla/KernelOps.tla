----------------------------- MODULE KernelOps -----------------------------
(***************************************************************************)
(* The data structures of the TOPPERS/ASP3 kernel (asp3_dcre/kernel) and   *)
(* the internal functions that service calls are built from: task.c,       *)
(* wait.c/wait.h and the internal part of mutex.c.                         *)
(*                                                                         *)
(* All of this data is read and written only while the CPU is locked, so a *)
(* C function that changes it is an operator from kernel states to kernel  *)
(* states: "k" is the record of the kernel's global variables and of the   *)
(* fields of its control blocks, and the sequence of calls in C is a       *)
(* composition of operators.  A queue (queue.h) is a sequence, the         *)
(* priority bitmap ready_primap a set of priorities.                       *)
(***************************************************************************)
EXTENDS Naturals, Sequences, FiniteSets

CONSTANTS
  TSK,        \* task IDs, i.e. the entries of tcb_table
  SEM, MTX,   \* semaphore and mutex IDs
  WOBJ,       \* the other objects tasks wait for: event flags, data queues, ...
  TNUM_TPRI,  \* number of task priorities
  MAXSEM,     \* bound of the model on maxsem (TMAX_MAXSEM in the code)
  CFG,        \* the configurations the kernel is built with (kernel_cfg.c)
  NULL        \* the null pointer

ASSUME TnumTpriAssumption == TNUM_TPRI \in Nat \ {0}
ASSUME NullAssumption == NULL \notin TSK
ASSUME FiniteAssumption == \A S \in {TSK, SEM, MTX, WOBJ} : IsFiniteSet(S)
ASSUME ObjectAssumption == SEM \cap MTX = {} /\ WOBJ \cap (SEM \cup MTX) = {}
ASSUME MaxsemAssumption == MAXSEM \in Nat \ {0}

PRI == 0 .. TNUM_TPRI - 1      \* internal priorities: 0 is the highest
OBJ == SEM \cup MTX \cup WOBJ  \* what has a queue of waiting tasks

----------------------------------------------------------------------------
(* Task states: the bits of tstat and the waiting factor (task.h).         *)

FACTOR == {"SLP", "DLY", "RDTQ", "RPDQ", "SEM", "FLG", "SDTQ", "SPDQ", "MTX", "MPF"}
TSTAT == {s \in [run : BOOLEAN, sus : BOOLEAN, wai : FACTOR \cup {"none"}] :
            s.run => ~s.sus /\ s.wai = "none"}

TS_DORMANT   == [run |-> FALSE, sus |-> FALSE, wai |-> "none"]
TS_RUNNABLE  == [run |-> TRUE,  sus |-> FALSE, wai |-> "none"]
TS_SUSPENDED == [run |-> FALSE, sus |-> TRUE,  wai |-> "none"]
TS_WAITING(factor) == [run |-> FALSE, sus |-> FALSE, wai |-> factor]

TSTAT_DORMANT(k, t)   == k.tstat[t] = TS_DORMANT
TSTAT_RUNNABLE(k, t)  == k.tstat[t].run
TSTAT_WAITING(k, t)   == k.tstat[t].wai # "none"
TSTAT_SUSPENDED(k, t) == k.tstat[t].sus
TSTAT_WAIT_WOBJ(k, t) == k.tstat[t].wai \in FACTOR \ {"SLP", "DLY"}
\* The receivers of a data queue wait in a queue of their own, in FIFO order.
TSTAT_WAIT_WOBJCB(k, t) == k.tstat[t].wai \in FACTOR \ {"SLP", "DLY", "RDTQ", "RPDQ"}
TSTAT_WAIT_MTX(k, t)  == k.tstat[t].wai = "MTX"

(* WINFO is a union: the pointer to the time event block while the task    *)
(* waits, the error code the wait returns with once it is over.  "none" is *)
(* the state after the waiting call has returned.                          *)
WERCD == {"E_OK", "E_TMOUT", "E_RLWAI", "E_DLT", "E_RASTER"}
WINFO == {"none", "null", "tmevtb"} \cup WERCD

(* What a task has read before it locked the CPU in a call that it has not *)
(* finished: the call, its target and the priority read.  A task that lost *)
(* the processor in set_flg, called with the CPU locked, is in that call.  *)
IDLE == [call |-> "none", tsk |-> NULL, pri |-> 0]
PENDING == [call : {"chg_pri", "rot_rdq", "set_flg"}, tsk : TSK, pri : PRI]

KState ==
  [cfg : CFG,                        \* the tables of the static objects
   tskatr : [TSK -> {"TA_NOEXS", "TA_NULL", "TA_NOACTQUE"}],
   ipriority : [TSK -> PRI],          \* TINIB
   tstat : [TSK -> TSTAT], bpriority : [TSK -> PRI], priority : [TSK -> PRI],
   actque : [TSK -> BOOLEAN], wupque : [TSK -> BOOLEAN],
   raster : [TSK -> BOOLEAN], enater : [TSK -> BOOLEAN],
   winfo : [TSK -> WINFO], wobj : [TSK -> OBJ \cup {NULL}],
   lastmtx : [TSK -> Seq(MTX)],       \* p_lastmtx, then the p_prevmtx links
   pending : [TSK -> PENDING \cup {IDLE}],
   free_tcb : Seq(TSK),
   ready_queue : [PRI -> Seq(TSK)], ready_primap : SUBSET PRI,
   runtsk : TSK \cup {NULL}, schedtsk : TSK \cup {NULL},
   enadsp : BOOLEAN, ipm : BOOLEAN, dspflg : BOOLEAN,
   tmevt : SUBSET TSK,                \* tasks whose time event is registered
   wobjatr : [OBJ -> {"TA_NOEXS", "TA_TFIFO", "TA_TPRI", "TA_CEILING"}],
   wait_queue : [OBJ -> Seq(TSK)],
   free_semcb : Seq(SEM), semcnt : [SEM -> Nat],
   isemcnt : [SEM -> Nat], maxsem : [SEM -> Nat],
   free_mtxcb : Seq(MTX), ceilpri : [MTX -> PRI], loctsk : [MTX -> TSK \cup {NULL}],
   failed : BOOLEAN]                  \* an assert() of the code has failed

----------------------------------------------------------------------------
(* Queues (include/queue.h).                                               *)

InQueue(q, t) == \E i \in DOMAIN q : q[i] = t
Distinct(q) == \A i, j \in DOMAIN q : q[i] = q[j] => i = j

\* queue_delete: unlinks t from the queue it is in.
queue_delete(q, t) ==
  LET at == CHOOSE i \in DOMAIN q : q[i] = t
  IN  [i \in 1 .. Len(q) - 1 |-> IF i < at THEN q[i] ELSE q[i + 1]]

\* queue_insert_prev applied to the at-th entry.
InsertBefore(q, at, t) ==
  [i \in 1 .. Len(q) + 1 |-> IF i < at THEN q[i] ELSE IF i = at THEN t ELSE q[i - 1]]

\* queue_insert_tpri: behind the tasks of the same or a higher priority, where
\* the search stops at the first task whose priority is lower.
queue_insert_tpri(q, t, pri) ==
  LET lower == {i \in DOMAIN q : pri[t] < pri[q[i]]}
      at == IF lower = {} THEN Len(q) + 1
            ELSE CHOOSE i \in lower : \A j \in lower : i <= j
  IN  InsertBefore(q, at, t)

----------------------------------------------------------------------------
(* Ready queue and scheduling (task.c).                                    *)

primap_search(map) == CHOOSE p \in map : \A q \in map : p <= q

search_schedtsk(k) == Head(k.ready_queue[primap_search(k.ready_primap)])

\* Fault: the bit is set only when no other task was ready.
make_runnable_lost_bit(k, t) ==
  LET p == k.priority[t]
  IN  [k EXCEPT !.ready_queue[p] = Append(@, t),
                !.ready_primap = IF @ = {} THEN {p} ELSE @,
                !.schedtsk = IF k.dspflg /\ (@ = NULL \/ p < k.priority[@])
                             THEN t ELSE @]

\* Fault: p_schedtsk is updated while dispatching is disabled.
make_runnable_no_dspflg(k, t) ==
  LET p == k.priority[t]
  IN  [k EXCEPT !.ready_queue[p] = Append(@, t),
                !.ready_primap = @ \cup {p},
                !.schedtsk = IF @ = NULL \/ p < k.priority[@] THEN t ELSE @]

make_runnable(k, t) ==
  LET p == k.priority[t]
  IN  [k EXCEPT !.ready_queue[p] = Append(@, t),
                !.ready_primap = @ \cup {p},
                !.schedtsk = IF k.dspflg /\ (@ = NULL \/ p < k.priority[@])
                             THEN t ELSE @]

make_non_runnable(k, t) ==
  LET p == k.priority[t]
      q == queue_delete(k.ready_queue[p], t)
      d == [k EXCEPT !.ready_queue[p] = q,
                     !.ready_primap = IF q = <<>> THEN @ \ {p} ELSE @]
  IN  [d EXCEPT !.schedtsk = CASE @ # t -> @
                               [] @ = t /\ q # <<>> -> Head(q)
                               [] @ = t /\ q = <<>> ->
                                    IF d.ready_primap = {} THEN NULL ELSE search_schedtsk(d),
                !.failed = @ \/ (k.schedtsk = t /\ ~k.dspflg)]

set_dspflg(k) ==
  [k EXCEPT !.dspflg = TRUE, !.schedtsk = search_schedtsk(k)]

\* Fault: a move to the queue of p_schedtsk, but in front of it, is overlooked.
Requeue_strict(k, t, oldpri, newpri, mtxmode) ==
  LET q == queue_delete(k.ready_queue[oldpri], t)
      d == [k EXCEPT !.ready_queue[oldpri] = q,
                     !.ready_primap = IF q = <<>> THEN @ \ {oldpri} ELSE @]
      e == [d EXCEPT !.ready_queue[newpri] = IF mtxmode THEN <<t>> \o @ ELSE Append(@, t),
                     !.ready_primap = @ \cup {newpri}]
  IN  [e EXCEPT !.schedtsk = IF e.dspflg /\ newpri < e.priority[@] THEN t ELSE @]

\* The move of a runnable task between the queues in change_priority.
Requeue(k, t, oldpri, newpri, mtxmode) ==
  LET q == queue_delete(k.ready_queue[oldpri], t)
      d == [k EXCEPT !.ready_queue[oldpri] = q,
                     !.ready_primap = IF q = <<>> THEN @ \ {oldpri} ELSE @]
      e == [d EXCEPT !.ready_queue[newpri] = IF mtxmode THEN <<t>> \o @ ELSE Append(@, t),
                     !.ready_primap = @ \cup {newpri}]
  IN  [e EXCEPT !.schedtsk =
         CASE ~e.dspflg -> @
           [] e.dspflg /\ @ = t -> IF newpri >= oldpri THEN search_schedtsk(e) ELSE @
           [] e.dspflg /\ @ # t -> IF newpri <= e.priority[@]
                                   THEN Head(e.ready_queue[newpri]) ELSE @]

\* Fault: the queue keeps its order.
wobj_change_priority_no_sort(k, t) == k

\* wobj_change_priority (wait.h): TA_CEILING includes the bit of TA_TPRI.
wobj_change_priority(k, t) ==
  LET o == k.wobj[t]
  IN  IF k.wobjatr[o] \in {"TA_TPRI", "TA_CEILING"}
      THEN [k EXCEPT !.wait_queue[o] = queue_insert_tpri(queue_delete(@, t), t, k.priority)]
      ELSE k

change_priority(k, t, newpri, mtxmode) ==
  LET c == [k EXCEPT !.priority[t] = newpri]
  IN  IF TSTAT_RUNNABLE(k, t) THEN Requeue(c, t, k.priority[t], newpri, mtxmode)
      ELSE IF TSTAT_WAIT_WOBJCB(k, t) THEN wobj_change_priority(c, t)
      ELSE c

rotate_ready_queue(k, p) ==
  LET q == k.ready_queue[p]
      r == Append(Tail(q), Head(q))
  IN  IF Len(q) < 2 THEN k
      ELSE [k EXCEPT !.ready_queue[p] = r,
                     !.schedtsk = IF k.dspflg /\ @ = Head(q) THEN Head(r) ELSE @]

\* Fault: a queued wakeup survives.
make_dormant_wupque(k, t) ==
  [k EXCEPT !.tstat[t] = TS_DORMANT,
            !.bpriority[t] = k.ipriority[t], !.priority[t] = k.ipriority[t],
            !.raster[t] = FALSE, !.enater[t] = TRUE,
            !.winfo[t] = "none", !.wobj[t] = NULL, !.pending[t] = IDLE]

make_dormant(k, t) ==
  [k EXCEPT !.tstat[t] = TS_DORMANT,
            !.bpriority[t] = k.ipriority[t], !.priority[t] = k.ipriority[t],
            !.wupque[t] = FALSE, !.raster[t] = FALSE, !.enater[t] = TRUE,
            \* the stack of the task, with the locals of its calls, is gone
            !.winfo[t] = "none", !.wobj[t] = NULL, !.pending[t] = IDLE]

make_active(k, t) == make_runnable([k EXCEPT !.tstat[t] = TS_RUNNABLE], t)

----------------------------------------------------------------------------
(* Waiting (wait.c, wait.h).                                               *)

\* make_wait and make_wait_tmout: tmo is FALSE for TMO_FEVR.
make_wait(k, factor, tmo) ==
  LET t == k.runtsk
      w == make_non_runnable([k EXCEPT !.tstat[t] = TS_WAITING(factor)], t)
  IN  [w EXCEPT !.winfo[t] = IF tmo THEN "tmevtb" ELSE "null",
                !.tmevt = IF tmo THEN @ \cup {t} ELSE @]

wobj_queue_insert(k, o) ==
  [k EXCEPT !.wait_queue[o] = IF k.wobjatr[o] \in {"TA_TPRI", "TA_CEILING"}
                              THEN queue_insert_tpri(@, k.runtsk, k.priority)
                              ELSE Append(@, k.runtsk)]

\* wobj_make_wait and wobj_make_wait_tmout.
wobj_make_wait(k, o, factor, tmo) ==
  [wobj_queue_insert(make_wait(k, factor, tmo), o) EXCEPT !.wobj[k.runtsk] = o]

\* Fault: the bit of the runnable state is set, those of the wait stay.
make_non_wait_or(k, t) ==
  IF TSTAT_SUSPENDED(k, t) THEN [k EXCEPT !.tstat[t] = TS_SUSPENDED]
  ELSE make_runnable([k EXCEPT !.tstat[t].run = TRUE], t)

make_non_wait(k, t) ==
  LET w == [k EXCEPT !.failed = @ \/ ~TSTAT_WAITING(k, t)]
  IN  IF TSTAT_SUSPENDED(k, t)
      THEN [w EXCEPT !.tstat[t] = TS_SUSPENDED]
      ELSE make_runnable([w EXCEPT !.tstat[t] = TS_RUNNABLE], t)

wait_dequeue_wobj(k, t) ==
  IF TSTAT_WAIT_WOBJ(k, t)
  THEN [k EXCEPT !.wait_queue[k.wobj[t]] = queue_delete(@, t)]
  ELSE k

\* p_tmevtb != NULL; an error code left in the union would be taken for an
\* address ("E_OK" is 0), which the model records as a failure.
wait_dequeue_tmevtb(k, t) ==
  IF k.winfo[t] \in {"null", "E_OK"} THEN k
  ELSE [k EXCEPT !.tmevt = @ \ {t}, !.failed = @ \/ k.winfo[t] # "tmevtb"]

\* p_winfo->wercd = ercd; the wait object pointer is not read any more.
SetWercd(k, t, ercd) == [k EXCEPT !.winfo[t] = ercd, !.wobj[t] = NULL]

\* Fault: the time event stays registered.
wait_complete_tmevt(k, t) == make_non_wait(SetWercd(k, t, "E_OK"), t)

wait_complete(k, t) ==
  make_non_wait(SetWercd(wait_dequeue_tmevtb(k, t), t, "E_OK"), t)

\* Fault: the task stays in the wait queue of the object.
wait_tmout_queued(k, t) == make_non_wait(SetWercd(k, t, "E_TMOUT"), t)

\* Fault: the code of wait_tmout_ok.
wait_tmout_e_ok(k, t) == make_non_wait(SetWercd(wait_dequeue_wobj(k, t), t, "E_OK"), t)

wait_tmout(k, t) ==
  make_non_wait(SetWercd(wait_dequeue_wobj(k, t), t, "E_TMOUT"), t)

wait_tmout_ok(k, t) == make_non_wait(SetWercd(k, t, "E_OK"), t)

init_wait_queue(k, o) ==
  LET q == k.wait_queue[o]
      after[n \in 0 .. Len(q)] ==
        IF n = 0 THEN k
        ELSE LET d == [after[n - 1] EXCEPT !.wait_queue[o] = Tail(@)]
             IN  make_non_wait(SetWercd(wait_dequeue_tmevtb(d, q[n]), q[n], "E_DLT"), q[n])
  IN  after[Len(q)]

----------------------------------------------------------------------------
(* Mutexes (the internal functions of mutex.c).                            *)

MTX_CEILING(k, m) == k.wobjatr[m] = "TA_CEILING"

Holds(k, t) == {k.lastmtx[t][i] : i \in DOMAIN k.lastmtx[t]}

HeldCeilings(k, t) == {k.ceilpri[m] : m \in {x \in Holds(k, t) : MTX_CEILING(k, x)}}

mutex_check_ceilpri(k, t, bpri) ==
  /\ \A m \in Holds(k, t) : MTX_CEILING(k, m) => bpri >= k.ceilpri[m]
  /\ TSTAT_WAIT_MTX(k, t) /\ MTX_CEILING(k, k.wobj[t]) => bpri >= k.ceilpri[k.wobj[t]]

mutex_scan_ceilmtx(k, t) == \E m \in Holds(k, t) : MTX_CEILING(k, m)

mutex_calc_priority(k, t) ==
  primap_search({k.bpriority[t]} \cup HeldCeilings(k, t))

mutex_drop_priority(k, t, m) ==
  LET newpri == mutex_calc_priority(k, t)
  IN  IF MTX_CEILING(k, m) /\ k.ceilpri[m] = k.priority[t] /\ newpri # k.priority[t]
      THEN change_priority(k, t, newpri, TRUE)
      ELSE k

mutex_acquire(k, t, m) ==
  LET a == [k EXCEPT !.loctsk[m] = t, !.lastmtx[t] = <<m>> \o @]
  IN  IF MTX_CEILING(k, m) /\ k.ceilpri[m] < k.priority[t]
      THEN change_priority(a, t, k.ceilpri[m], TRUE)
      ELSE a

\* Fault: the priority of the new owner is not raised to the ceiling.
mutex_release_no_ceiling(k, m) ==
  LET t == Head(k.wait_queue[m])
      d == SetWercd(wait_dequeue_tmevtb([k EXCEPT !.wait_queue[m] = Tail(@)], t), t, "E_OK")
  IN  IF k.wait_queue[m] = <<>> THEN [k EXCEPT !.loctsk[m] = NULL]
      ELSE make_non_wait([d EXCEPT !.loctsk[m] = t, !.lastmtx[t] = <<m>> \o @], t)

\* Fault: the other waiters are woken with the one that gets the mutex.
mutex_release_broadcast(k, m) ==
  LET t == Head(k.wait_queue[m])
      d == SetWercd(wait_dequeue_tmevtb([k EXCEPT !.wait_queue[m] = Tail(@)], t), t, "E_OK")
      a == [d EXCEPT !.loctsk[m] = t, !.lastmtx[t] = <<m>> \o @]
  IN  IF k.wait_queue[m] = <<>> THEN [k EXCEPT !.loctsk[m] = NULL]
      ELSE init_wait_queue(make_non_wait(a, t), m)

mutex_release(k, m) ==
  LET t == Head(k.wait_queue[m])
      d == SetWercd(wait_dequeue_tmevtb([k EXCEPT !.wait_queue[m] = Tail(@)], t), t, "E_OK")
      a == [d EXCEPT !.loctsk[m] = t, !.lastmtx[t] = <<m>> \o @,
                     !.priority[t] = IF MTX_CEILING(k, m) /\ k.ceilpri[m] < @
                                     THEN k.ceilpri[m] ELSE @]
  IN  IF k.wait_queue[m] = <<>> THEN [k EXCEPT !.loctsk[m] = NULL]
      ELSE make_non_wait(a, t)

mutex_release_all(k, t) ==
  LET held == k.lastmtx[t]
      after[n \in 0 .. Len(held)] ==
        IF n = 0 THEN k
        ELSE mutex_release([after[n - 1] EXCEPT !.lastmtx[t] = Tail(@)], held[n])
  IN  after[Len(held)]

\* Fault: only the last mutex locked can be taken out of the list.
UnlinkMutex_last(k, t, m) ==
  IF k.lastmtx[t] # <<>> /\ m = Head(k.lastmtx[t]) THEN [k EXCEPT !.lastmtx[t] = Tail(@)] ELSE k

\* Removal of m from the list of the mutexes t has locked (del_mtx, ini_mtx).
UnlinkMutex(k, t, m) ==
  IF m \in Holds(k, t) THEN [k EXCEPT !.lastmtx[t] = queue_delete(@, m)] ELSE k

----------------------------------------------------------------------------
(* Termination (task.c) and the dispatcher (core_support.S).               *)

task_terminate(k, t) ==
  LET w == IF TSTAT_RUNNABLE(k, t) THEN make_non_runnable(k, t)
           ELSE IF TSTAT_WAITING(k, t)
                THEN wait_dequeue_tmevtb(wait_dequeue_wobj(k, t), t)
           ELSE k
      m == IF w.lastmtx[t] # <<>> THEN mutex_release_all(w, t) ELSE w
      d == make_dormant(m, t)
  IN  IF d.actque[t] THEN make_active([d EXCEPT !.actque[t] = FALSE], t) ELSE d

\* Fault: a task that loses the processor goes to the end of its queue.
dispatch_round_robin(k) ==
  LET t == k.schedtsk
      r == k.runtsk
  IN  [k EXCEPT !.runtsk = t,
                !.ready_queue = IF r \notin {NULL, t} /\ TSTAT_RUNNABLE(k, r)
                                THEN [@ EXCEPT ![k.priority[r]] = Append(queue_delete(@, r), r)]
                                ELSE @,
                !.winfo = IF t # NULL THEN [@ EXCEPT ![t] = "none"] ELSE @]

\* The processor goes to the task that should run; a task that was waiting
\* returns from its call with the code in winfo.
dispatch(k) ==
  LET t == k.schedtsk
  IN  [k EXCEPT !.runtsk = t,
                !.winfo = IF t # NULL THEN [@ EXCEPT ![t] = "none"] ELSE @]
=============================================================================
