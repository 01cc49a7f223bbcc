--------------------------- MODULE TerminationProofs ---------------------------
(***************************************************************************)
(* Requests to terminate a task, and the places of the tasks in the ready  *)
(* queue, for every number of tasks and priorities, in the systems without *)
(* objects to wait for.  The invariant of KernelProofs is used, a second   *)
(* one is proved along with the property of the steps: what a call does is *)
(* summed up as a change of one task (Acts), and two lemmas say what       *)
(* follows for any such change.                                            *)
(***************************************************************************)
EXTENDS KernelProofs

\* There are no semaphores, mutexes or other objects to wait for.
TaskOnly == SEM = {} /\ MTX = {} /\ WOBJ = {}

\* Nobody holds a mutex then, and no call of semaphore.c or mutex.c is taken.
LEMMA NoMutex ==
  ASSUME TaskOnly, NEW k \in KState, NEW t \in TSK
  PROVE  k.lastmtx[t] = <<>>
<1>1. k.lastmtx[t] \in Seq({})
  BY DEF KState, TaskOnly
<1>2. QED  BY <1>1

LEMMA NoObjectSteps ==
  ASSUME TaskOnly
  PROVE  ~SemStep /\ ~MutexStep
<1>1. ~SemStep  BY DEF TaskOnly, SemStep
<1>2. ~MutexStep  BY DEF TaskOnly, MutexStep
<1>3. QED  BY <1>1, <1>2

----------------------------------------------------------------------------
(* Termination and precedence.  What follows looks at these fields only,   *)
(* of records that need not be complete kernel states.                     *)

Fields(k) ==
  /\ {"tstat", "priority", "bpriority", "ipriority", "raster", "enater", "dspflg", "enadsp",
      "ipm", "runtsk", "schedtsk", "ready_queue", "ready_primap", "failed", "winfo", "tmevt",
      "wait_queue", "wobj", "wobjatr", "lastmtx", "actque", "wupque", "pending", "tskatr",
      "free_tcb"} \subseteq DOMAIN k
  /\ k.priority \in [TSK -> PRI] /\ k.ready_queue \in [PRI -> Seq(TSK)]
  /\ DOMAIN k.tstat = TSK /\ DOMAIN k.raster = TSK /\ DOMAIN k.enater = TSK

\* From k to r only the task u has changed; the processor has not passed to another
\* one, and without dispatching nobody else is to get it.
Acts(k, r, u) ==
  /\ Fields(r)
  /\ r.dspflg = k.dspflg /\ r.runtsk = k.runtsk
  /\ k.failed => r.failed
  /\ ~k.dspflg => r.schedtsk = k.schedtsk \/ r.failed
  /\ \A v \in TSK \ {u} : /\ r.tstat[v] = k.tstat[v] /\ r.priority[v] = k.priority[v]
                          /\ r.raster[v] = k.raster[v] /\ r.enater[v] = k.enater[v]

\* Who is first in a ready queue stays first, but for u.
FirstStays(k, r, u) ==
  \A p \in PRI : \A v \in TSK \ {u} :
    k.ready_queue[p] # <<>> /\ Head(k.ready_queue[p]) = v
      => r.ready_queue[p] # <<>> /\ Head(r.ready_queue[p]) = v

LEMMA StateFields ==
  ASSUME NEW k \in KState
  PROVE  Fields(k)
BY DEF Fields, KState

LEMMA ActsTransitive ==
  ASSUME NEW a, NEW b, NEW c, NEW u, Acts(a, b, u), Acts(b, c, u)
  PROVE  Acts(a, c, u)
BY DEF Acts

LEMMA MakeRunnableActs ==
  ASSUME NEW k, Fields(k), NEW t \in TSK
  PROVE  LET r == make_runnable(k, t) IN
         /\ Acts(k, r, t) /\ FirstStays(k, r, t)
         /\ r.tstat = k.tstat /\ r.raster = k.raster /\ r.enater = k.enater
<1> DEFINE r == make_runnable(k, t)
           p == k.priority[t]
<1>1. p \in PRI /\ k.ready_queue[p] \in Seq(TSK)
  BY DEF Fields
<1>2. /\ DOMAIN r = DOMAIN k
      /\ r.tstat = k.tstat /\ r.priority = k.priority /\ r.raster = k.raster /\ r.enater = k.enater
      /\ r.dspflg = k.dspflg /\ r.runtsk = k.runtsk /\ r.failed = k.failed
      /\ r.ready_queue = [k.ready_queue EXCEPT ![p] = Append(@, t)]
      /\ ~k.dspflg => r.schedtsk = k.schedtsk
  BY DEF make_runnable, Fields
<1>3. Append(k.ready_queue[p], t) \in Seq(TSK)
  BY <1>1
<1> HIDE DEF r, p
<1>4. Fields(r)
  BY <1>1, <1>2, <1>3 DEF Fields
<1>5. FirstStays(k, r, t)
  <2>1. \A x \in PRI : r.ready_queue[x] =
                        IF x = p THEN Append(k.ready_queue[p], t) ELSE k.ready_queue[x]
    BY <1>1, <1>2 DEF Fields
  <2>2. k.ready_queue[p] # <<>> => /\ Append(k.ready_queue[p], t) # <<>>
                                   /\ Head(Append(k.ready_queue[p], t)) = Head(k.ready_queue[p])
    BY <1>1
  <2>3. QED  BY <2>1, <2>2 DEF FirstStays
<1>6. QED
  BY <1>2, <1>4, <1>5 DEF Acts, r

LEMMA MakeNonRunnableActs ==
  ASSUME NEW k, Fields(k), NEW t \in TSK, InQueue(k.ready_queue[k.priority[t]], t),
         Distinct(k.ready_queue[k.priority[t]])
  PROVE  LET r == make_non_runnable(k, t) IN
         /\ Acts(k, r, t) /\ FirstStays(k, r, t)
         /\ r.tstat = k.tstat /\ r.raster = k.raster /\ r.enater = k.enater
<1> DEFINE r == make_non_runnable(k, t)
           p == k.priority[t]
           q == queue_delete(k.ready_queue[p], t)
<1>1. p \in PRI /\ k.ready_queue[p] \in Seq(TSK)
  BY DEF Fields
<1>2. /\ q \in Seq(TSK)
      /\ Head(k.ready_queue[p]) # t => q # <<>> /\ Head(q) = Head(k.ready_queue[p])
  BY <1>1, QueueDelete
<1>3. /\ DOMAIN r = DOMAIN k
      /\ r.tstat = k.tstat /\ r.priority = k.priority /\ r.raster = k.raster /\ r.enater = k.enater
      /\ r.dspflg = k.dspflg /\ r.runtsk = k.runtsk
      /\ r.failed = (k.failed \/ (k.schedtsk = t /\ ~k.dspflg))
      /\ r.ready_queue = [k.ready_queue EXCEPT ![p] = q]
  <2> HIDE DEF q
  <2>1. QED  BY DEF make_non_runnable, Fields, q
<1>4. k.schedtsk # t => r.schedtsk = k.schedtsk
  BY DEF make_non_runnable, Fields
<1> HIDE DEF r, p, q
<1>5. Fields(r)
  BY <1>1, <1>2, <1>3 DEF Fields
<1>6. FirstStays(k, r, t)
  <2>1. \A x \in PRI : r.ready_queue[x] = IF x = p THEN q ELSE k.ready_queue[x]
    BY <1>1, <1>3 DEF Fields
  <2>2. QED  BY <1>2, <2>1 DEF FirstStays
<1>7. QED
  BY <1>3, <1>4, <1>5, <1>6 DEF Acts, r

\* Nothing of this changes but the failure record.
Quiet(k, r) ==
  /\ DOMAIN r = DOMAIN k
  /\ r.tstat = k.tstat /\ r.priority = k.priority /\ r.raster = k.raster /\ r.enater = k.enater
  /\ r.dspflg = k.dspflg /\ r.runtsk = k.runtsk /\ r.schedtsk = k.schedtsk
  /\ r.ready_queue = k.ready_queue /\ r.lastmtx = k.lastmtx
  /\ k.failed => r.failed

LEMMA QuietActs ==
  ASSUME NEW k, Fields(k), NEW r, Quiet(k, r), NEW u
  PROVE  Acts(k, r, u) /\ FirstStays(k, r, u)
BY DEF Quiet, Fields, Acts, FirstStays

LEMMA WaitEndQuiet ==
  ASSUME NEW k, Fields(k), NEW t \in TSK, NEW ercd
  PROVE  /\ Quiet(k, wait_dequeue_wobj(k, t))
         /\ Quiet(k, wait_dequeue_tmevtb(k, t))
         /\ Quiet(k, SetWercd(k, t, ercd))
<1>1. Quiet(k, wait_dequeue_wobj(k, t))
  BY DEF Quiet, Fields, wait_dequeue_wobj
<1>2. Quiet(k, wait_dequeue_tmevtb(k, t))
  BY DEF Quiet, Fields, wait_dequeue_tmevtb
<1>3. Quiet(k, SetWercd(k, t, ercd))
  BY DEF Quiet, Fields, SetWercd
<1>4. QED  BY <1>1, <1>2, <1>3

LEMMA QuietTransitive ==
  ASSUME NEW a, NEW b, NEW c, Quiet(a, b), Quiet(b, c)
  PROVE  Quiet(a, c)
BY DEF Quiet

LEMMA QuietFields ==
  ASSUME NEW k, Fields(k), NEW r, Quiet(k, r)
  PROVE  Fields(r)
BY DEF Quiet, Fields

\* The task t, whose wait is over, is made ready or stays suspended.
LEMMA MakeNonWaitActs ==
  ASSUME NEW k, Fields(k), NEW t \in TSK
  PROVE  LET r == make_non_wait(k, t) IN
         /\ Acts(k, r, t) /\ FirstStays(k, r, t)
         /\ r.raster = k.raster /\ r.enater = k.enater
<1> DEFINE w == [k EXCEPT !.failed = @ \/ ~TSTAT_WAITING(k, t)]
           a == [w EXCEPT !.tstat[t] = TS_SUSPENDED]
           b == [w EXCEPT !.tstat[t] = TS_RUNNABLE]
<1>1. Quiet(k, w)
  BY DEF Quiet, Fields
<1>2. Fields(w)  BY <1>1, QuietFields
<1> HIDE DEF w
<1>3. /\ DOMAIN a = DOMAIN w /\ Fields(a) /\ Acts(w, a, t) /\ FirstStays(w, a, t)
      /\ a.raster = w.raster /\ a.enater = w.enater
  BY <1>2 DEF Fields, Acts, FirstStays
<1>4. /\ DOMAIN b = DOMAIN w /\ Fields(b) /\ Acts(w, b, t) /\ b.ready_queue = w.ready_queue
      /\ b.raster = w.raster /\ b.enater = w.enater
  BY <1>2 DEF Fields, Acts
<1> HIDE DEF a, b
<1>5. LET r == make_runnable(b, t) IN
      /\ Acts(b, r, t) /\ FirstStays(b, r, t)
      /\ r.raster = b.raster /\ r.enater = b.enater
  BY <1>4, MakeRunnableActs
<1>6. Acts(k, w, t)  BY <1>1, QuietActs
<1>7. CASE TSTAT_SUSPENDED(k, t)
  <2>1. make_non_wait(k, t) = a  BY <1>7 DEF make_non_wait, a, w
  <2>2. Acts(k, a, t)  BY <1>3, <1>6, ActsTransitive
  <2>3. QED  BY <1>1, <1>3, <2>1, <2>2 DEF Quiet, FirstStays
<1>8. CASE ~TSTAT_SUSPENDED(k, t)
  <2> DEFINE r == make_runnable(b, t)
  <2>1. make_non_wait(k, t) = r  BY <1>8 DEF make_non_wait, b, w
  <2> HIDE DEF r
  <2>2. Acts(b, r, t) /\ FirstStays(b, r, t) /\ r.raster = b.raster /\ r.enater = b.enater
    BY <1>5 DEF r
  <2>3. Acts(k, b, t)  BY <1>4, <1>6, ActsTransitive
  <2>4. Acts(k, r, t)  BY <2>2, <2>3, ActsTransitive
  <2>5. QED  BY <1>1, <1>4, <2>1, <2>2, <2>4 DEF Quiet, FirstStays
<1>9. QED  BY <1>7, <1>8

\* A task in the ready queue is in that of its priority.
LEMMA InItsQueue ==
  ASSUME NEW k, Good(k), NEW t \in Ready(k)
  PROVE  /\ t \in TSK /\ k.priority[t] \in PRI
         /\ InQueue(k.ready_queue[k.priority[t]], t) /\ Distinct(k.ready_queue[k.priority[t]])
BY DEF Good, SchedInv, Queued, KState, Ready

\* A task that is terminated has no request to terminate any more.
LEMMA TerminateActs ==
  ASSUME TaskOnly, NEW k, Good(k), NEW t \in TSK
  PROVE  LET r == task_terminate(k, t) IN
         Acts(k, r, t) /\ FirstStays(k, r, t) /\ r.raster[t] = FALSE
<1> DEFINE w == IF TSTAT_RUNNABLE(k, t) THEN make_non_runnable(k, t)
                ELSE IF TSTAT_WAITING(k, t)
                     THEN wait_dequeue_tmevtb(wait_dequeue_wobj(k, t), t)
                ELSE k
           d == make_dormant(w, t)
           e == [d EXCEPT !.actque[t] = FALSE]
           f == [e EXCEPT !.tstat[t] = TS_RUNNABLE]
<1>1. k \in KState /\ Fields(k)
  BY StateFields DEF Good, SchedInv
<1>2. Acts(k, w, t) /\ FirstStays(k, w, t) /\ Fields(w) /\ w.lastmtx = k.lastmtx
      /\ w.ipriority = k.ipriority
  <2>1. CASE TSTAT_RUNNABLE(k, t)
    <3>1. t \in Ready(k)  BY <2>1 DEF Ready
    <3>2. Acts(k, w, t) /\ FirstStays(k, w, t)
      BY <1>1, <2>1, <3>1, InItsQueue, MakeNonRunnableActs
    <3>3. w.lastmtx = k.lastmtx /\ w.ipriority = k.ipriority
      BY <1>1, <2>1 DEF make_non_runnable, Fields
    <3>4. QED  BY <3>2, <3>3 DEF Acts
  <2>2. CASE ~TSTAT_RUNNABLE(k, t) /\ TSTAT_WAITING(k, t)
    <3> DEFINE v == wait_dequeue_wobj(k, t)
    <3>1. Quiet(k, v) /\ Fields(v) /\ v.ipriority = k.ipriority
      BY <1>1, WaitEndQuiet, QuietFields DEF wait_dequeue_wobj, Fields
    <3> HIDE DEF v
    <3>2. Quiet(v, wait_dequeue_tmevtb(v, t)) /\ wait_dequeue_tmevtb(v, t).ipriority = v.ipriority
      BY <3>1, WaitEndQuiet DEF wait_dequeue_tmevtb, Fields
    <3>3. w = wait_dequeue_tmevtb(v, t)  BY <2>2 DEF v
    <3> HIDE DEF w
    <3>4. Quiet(k, w)  BY <3>1, <3>2, <3>3, QuietTransitive
    <3>5. QED  BY <1>1, <3>1, <3>2, <3>3, <3>4, QuietActs, QuietFields DEF Quiet
  <2>3. CASE ~TSTAT_RUNNABLE(k, t) /\ ~TSTAT_WAITING(k, t)
    <3>1. w = k /\ Quiet(k, k)  BY <2>3 DEF Quiet
    <3>2. QED  BY <1>1, <3>1, QuietActs
  <2>4. QED  BY <2>1, <2>2, <2>3
<1>3. task_terminate(k, t) = IF d.actque[t] THEN make_runnable(f, t) ELSE d
  <2>1. w.lastmtx[t] = <<>>  BY <1>1, <1>2, NoMutex
  <2>2. task_terminate(k, t) = IF d.actque[t] THEN make_active(e, t) ELSE d
    BY <2>1 DEF task_terminate
  <2>3. make_active(e, t) = make_runnable(f, t)
    BY DEF make_active
  <2> HIDE DEF d, e, f
  <2>4. QED  BY <2>2, <2>3
<1> HIDE DEF w
<1>4. Acts(w, d, t) /\ FirstStays(w, d, t) /\ d.raster[t] = FALSE /\ Fields(d)
  <2>1. k.ipriority[t] \in PRI  BY <1>1 DEF KState
  <2>2. w.ipriority[t] \in PRI  BY <1>2, <2>1
  <2>3. /\ DOMAIN d = DOMAIN w
        /\ d.ready_queue = w.ready_queue /\ d.dspflg = w.dspflg /\ d.runtsk = w.runtsk
        /\ d.schedtsk = w.schedtsk /\ d.failed = w.failed
        /\ d.priority = [w.priority EXCEPT ![t] = w.ipriority[t]]
        /\ d.raster = [w.raster EXCEPT ![t] = FALSE]
        /\ d.enater = [w.enater EXCEPT ![t] = TRUE]
        /\ d.tstat = [w.tstat EXCEPT ![t] = TS_DORMANT]
    BY <1>2 DEF make_dormant, Fields
  <2> HIDE DEF d
  <2>4. Fields(d)  BY <1>2, <2>2, <2>3 DEF Fields
  <2>5. QED  BY <1>2, <2>3, <2>4 DEF Fields, Acts, FirstStays
<1> HIDE DEF d
<1>5. Acts(d, f, t) /\ FirstStays(d, f, t) /\ f.raster[t] = FALSE /\ Fields(f)
  BY <1>4 DEF Fields, Acts, FirstStays
<1> HIDE DEF f
<1>6. LET r == make_runnable(f, t) IN
      Acts(f, r, t) /\ FirstStays(f, r, t) /\ r.raster[t] = FALSE
  BY <1>5, MakeRunnableActs
<1>7. Acts(k, d, t) /\ FirstStays(k, d, t)
  BY <1>2, <1>4, ActsTransitive DEF FirstStays
<1>8. LET r == make_runnable(f, t) IN Acts(k, r, t) /\ FirstStays(k, r, t)
  <2> DEFINE r == make_runnable(f, t)
  <2>1. Acts(f, r, t) /\ FirstStays(f, r, t)  BY <1>6
  <2> HIDE DEF r
  <2>2. Acts(k, r, t)  BY <1>5, <1>7, <2>1, ActsTransitive
  <2>3. FirstStays(k, r, t)  BY <1>5, <1>7, <2>1 DEF FirstStays
  <2>4. QED  BY <2>2, <2>3 DEF r
<1>9. QED
  BY <1>3, <1>4, <1>6, <1>7, <1>8

\* A change of priority moves t only.
LEMMA ChangePriorityActs ==
  ASSUME NEW k, Fields(k), NEW t \in TSK, NEW pri \in PRI, NEW mtxmode \in BOOLEAN,
         TSTAT_RUNNABLE(k, t) => /\ InQueue(k.ready_queue[k.priority[t]], t)
                                 /\ Distinct(k.ready_queue[k.priority[t]])
  PROVE  LET r == change_priority(k, t, pri, mtxmode) IN
         Acts(k, r, t) /\ r.tstat = k.tstat /\ r.raster = k.raster /\ r.enater = k.enater
<1> DEFINE c == [k EXCEPT !.priority[t] = pri]
           old == k.priority[t]
           r == Requeue(c, t, old, pri, mtxmode)
<1>1. /\ DOMAIN c = DOMAIN k /\ Fields(c)
      /\ c.tstat = k.tstat /\ c.raster = k.raster /\ c.enater = k.enater
      /\ c.priority = [k.priority EXCEPT ![t] = pri]
      /\ c.dspflg = k.dspflg /\ c.runtsk = k.runtsk /\ c.schedtsk = k.schedtsk
      /\ c.failed = k.failed /\ c.ready_queue = k.ready_queue
  BY DEF Fields
<1>2. Acts(k, c, t)  BY <1>1 DEF Fields, Acts
<1> HIDE DEF c
<1>3. CASE TSTAT_RUNNABLE(k, t)
  <2> DEFINE q == queue_delete(c.ready_queue[old], t)
             d == [c EXCEPT !.ready_queue[old] = q,
                            !.ready_primap = IF q = <<>> THEN @ \ {old} ELSE @]
             e == [d EXCEPT !.ready_queue[pri] = IF mtxmode THEN <<t>> \o @ ELSE Append(@, t),
                            !.ready_primap = @ \cup {pri}]
  <2>1. old \in PRI /\ c.ready_queue[old] \in Seq(TSK)  BY <1>1 DEF Fields
  <2>2. q \in Seq(TSK)  BY <1>1, <1>3, <2>1, QueueDelete
  <2> HIDE DEF q
  <2>3. /\ DOMAIN d = DOMAIN c /\ d.tstat = c.tstat /\ d.raster = c.raster /\ d.enater = c.enater
        /\ d.priority = c.priority /\ d.dspflg = c.dspflg /\ d.runtsk = c.runtsk
        /\ d.schedtsk = c.schedtsk /\ d.failed = c.failed
        /\ d.ready_queue = [c.ready_queue EXCEPT ![old] = q]
    BY <1>1 DEF Fields
  <2>4. Fields(d)  BY <1>1, <2>1, <2>2, <2>3 DEF Fields
  <2> HIDE DEF d
  <2> DEFINE n == IF mtxmode THEN <<t>> \o d.ready_queue[pri] ELSE Append(d.ready_queue[pri], t)
  <2>5. n \in Seq(TSK)
    <3>1. d.ready_queue[pri] \in Seq(TSK)  BY <2>4 DEF Fields
    <3>2. QED  BY <3>1
  <2>6. e = [d EXCEPT !.ready_queue[pri] = n, !.ready_primap = @ \cup {pri}]
    BY <2>4 DEF Fields
  <2> HIDE DEF n, e
  <2>7. /\ DOMAIN e = DOMAIN d /\ e.tstat = d.tstat /\ e.raster = d.raster /\ e.enater = d.enater
        /\ e.priority = d.priority /\ e.dspflg = d.dspflg /\ e.runtsk = d.runtsk
        /\ e.schedtsk = d.schedtsk /\ e.failed = d.failed
        /\ e.ready_queue = [d.ready_queue EXCEPT ![pri] = n]
    BY <2>4, <2>6 DEF Fields
  <2>8. Fields(e)  BY <2>4, <2>5, <2>7 DEF Fields
  <2>9. r = [e EXCEPT !.schedtsk =
              CASE ~e.dspflg -> @
                [] e.dspflg /\ @ = t -> IF pri >= old THEN search_schedtsk(e) ELSE @
                [] e.dspflg /\ @ # t -> IF pri <= e.priority[@]
                                        THEN Head(e.ready_queue[pri]) ELSE @]
    BY DEF Requeue, q, d, e
  <2> HIDE DEF r, old
  <2>10. /\ DOMAIN r = DOMAIN e /\ r.tstat = e.tstat /\ r.raster = e.raster /\ r.enater = e.enater
         /\ r.priority = e.priority /\ r.dspflg = e.dspflg /\ r.runtsk = e.runtsk
         /\ r.failed = e.failed /\ r.ready_queue = e.ready_queue
         /\ ~e.dspflg => r.schedtsk = e.schedtsk
    BY <2>8, <2>9 DEF Fields
  <2>11. Fields(r)  BY <2>8, <2>10 DEF Fields
  <2>12. change_priority(k, t, pri, mtxmode) = r
    BY <1>3 DEF change_priority, r, old, c
  <2>13. Acts(c, r, t)  BY <2>3, <2>7, <2>10, <2>11 DEF Acts
  <2>14. Acts(k, r, t)  BY <1>2, <2>13, ActsTransitive
  <2>15. QED  BY <1>1, <2>3, <2>7, <2>10, <2>12, <2>14
<1>4. CASE ~TSTAT_RUNNABLE(k, t)
  <2> DEFINE w == wobj_change_priority(c, t)
  <2>1. Quiet(c, w)  BY <1>1 DEF wobj_change_priority, Fields, Quiet
  <2> HIDE DEF w
  <2>2. Acts(c, w, t)  BY <1>1, <2>1, QuietActs
  <2>3. Acts(k, w, t)  BY <1>2, <2>2, ActsTransitive
  <2>4. change_priority(k, t, pri, mtxmode) \in {w, c}
    BY <1>4 DEF change_priority, c, w
  <2>5. QED  BY <1>1, <1>2, <2>1, <2>3, <2>4 DEF Quiet
<1>5. QED  BY <1>3, <1>4

LEMMA BasePriorityActs ==
  ASSUME TaskOnly, NEW k, Good(k), NEW t \in TSK, NEW pri \in PRI
  PROVE  LET r == ChangeBasePriority(k, t, pri) IN
         Acts(k, r, t) /\ r.tstat = k.tstat /\ r.raster = k.raster /\ r.enater = k.enater
<1> DEFINE b == [k EXCEPT !.bpriority[t] = pri]
<1>1. k \in KState /\ Fields(k) /\ k.lastmtx[t] = <<>>
  BY StateFields, NoMutex DEF Good, SchedInv
<1>2. Quiet(k, b) /\ Fields(b) /\ Acts(k, b, t)
  <2>1. Quiet(k, b)  BY <1>1 DEF Fields, Quiet
  <2>2. QED  BY <1>1, <2>1, QuietFields, QuietActs
<1>3. TSTAT_RUNNABLE(b, t) => /\ InQueue(b.ready_queue[b.priority[t]], t)
                              /\ Distinct(b.ready_queue[b.priority[t]])
  <2>1. TSTAT_RUNNABLE(b, t) => t \in Ready(k)  BY <1>2 DEF Quiet, Ready, TSTAT_RUNNABLE
  <2>2. QED  BY <1>2, <2>1, InItsQueue DEF Quiet
<1>4. ChangeBasePriority(k, t, pri) = change_priority(b, t, pri, FALSE)
  BY <1>1 DEF ChangeBasePriority
<1> HIDE DEF b
<1>5. LET r == change_priority(b, t, pri, FALSE) IN
      Acts(b, r, t) /\ r.tstat = b.tstat /\ r.raster = b.raster /\ r.enater = b.enater
  BY <1>2, <1>3, ChangePriorityActs
<1>6. QED  BY <1>2, <1>4, <1>5, ActsTransitive DEF Quiet

LEMMA RotateActs ==
  ASSUME NEW k, Fields(k), NEW p \in PRI, NEW u
  PROVE  LET r == rotate_ready_queue(k, p) IN
         Acts(k, r, u) /\ r.tstat = k.tstat /\ r.raster = k.raster /\ r.enater = k.enater
<1> DEFINE q == k.ready_queue[p]
           n == Append(Tail(q), Head(q))
           r == [k EXCEPT !.ready_queue[p] = n,
                          !.schedtsk = IF k.dspflg /\ @ = Head(q) THEN Head(n) ELSE @]
<1>1. CASE Len(q) < 2
  <2>1. rotate_ready_queue(k, p) = k  BY <1>1 DEF rotate_ready_queue
  <2>2. Quiet(k, k)  BY DEF Quiet
  <2>3. QED  BY <2>1, <2>2, QuietActs
<1>2. CASE ~(Len(q) < 2)
  <2>1. q \in Seq(TSK)  BY DEF Fields
  <2>2. n \in Seq(TSK)
    <3>1. q # <<>>  BY <1>2, <2>1
    <3>2. QED  BY <2>1, <3>1
  <2>3. rotate_ready_queue(k, p) = r  BY <1>2 DEF rotate_ready_queue
  <2> HIDE DEF q, n
  <2>4. /\ DOMAIN r = DOMAIN k /\ r.tstat = k.tstat /\ r.raster = k.raster /\ r.enater = k.enater
        /\ r.priority = k.priority /\ r.dspflg = k.dspflg /\ r.runtsk = k.runtsk
        /\ r.failed = k.failed /\ r.ready_queue = [k.ready_queue EXCEPT ![p] = n]
        /\ ~k.dspflg => r.schedtsk = k.schedtsk
    BY DEF Fields
  <2> HIDE DEF r
  <2>5. Fields(r)  BY <2>2, <2>4 DEF Fields
  <2>6. QED  BY <2>3, <2>4, <2>5 DEF Acts
<1>3. QED  BY <1>1, <1>2

----------------------------------------------------------------------------
(* The second invariant: requests to terminate and the running task.       *)

TermInv ==
  /\ TerminationOK
  /\ ker.runtsk # NULL => TSTAT_RUNNABLE(ker, ker.runtsk)

\* What a call makes of the task u, the only one that it changes.
Changes(k, u) ==
  /\ Acts(ker, k, u)
  /\ u \in TSK => /\ k.raster[u] => /\ TSTAT_RUNNABLE(k, u)
                                    /\ k.enater[u] => u = ker.runtsk /\ ~ker.dspflg
                  /\ u = ker.runtsk /\ nest' > 0 => TSTAT_RUNNABLE(k, u)

\* ... and of the order of the tasks, if the call is not meant to change it.
Precedes(k, u) ==
  /\ FirstStays(ker, k, u)
  /\ u \in TSK /\ u = ker.runtsk /\ TSTAT_RUNNABLE(k, u)
       => k.ready_queue = ker.ready_queue /\ k.priority = ker.priority

\* The call ends, and the processor goes on with whoever is to have it.
Ends(k) == ker' = k \/ (nest' = 0 /\ ker' = dispatch(k))

TermStep == TermInv' /\ (~ker.dspflg /\ ~ker'.dspflg => ker'.runtsk = ker.runtsk)

FirstKept ==
  \A t \in TSK :
    (/\ t = ker.runtsk /\ ker.dspflg /\ Head(ker.ready_queue[ker.priority[t]]) = t
     /\ TSTAT_RUNNABLE(ker', t))
    => Head(ker'.ready_queue[ker'.priority[t]]) = t

LEMMA DispatchFields ==
  ASSUME NEW k, Fields(k)
  PROVE  LET r == dispatch(k) IN
         /\ DOMAIN r = DOMAIN k /\ r.runtsk = k.schedtsk
         /\ r.tstat = k.tstat /\ r.raster = k.raster /\ r.enater = k.enater
         /\ r.priority = k.priority /\ r.dspflg = k.dspflg /\ r.schedtsk = k.schedtsk
         /\ r.failed = k.failed /\ r.ready_queue = k.ready_queue
BY DEF Fields, dispatch

\* In task context the running task is runnable.
LEMMA TaskContextRuns ==
  ASSUME NEW k, Good(k), k.runtsk = k.schedtsk, k.runtsk # NULL
  PROVE  k.runtsk \in TSK /\ TSTAT_RUNNABLE(k, k.runtsk)
<1>1. k \in KState /\ k.schedtsk \in TSK
  BY DEF Good, SchedInv, KState
<1>2. k.schedtsk \in Ready(k)
  <2>1. CASE k.dspflg
    <3>1. Ready(k) \subseteq TSK /\ Queued(k, Ready(k)) /\ IsTop(k, k.schedtsk)
      BY <2>1 DEF Good, SchedInv
    <3>2. QED  BY <1>1, <3>1, TopTask
  <2>2. CASE ~k.dspflg
    BY <2>2 DEF Good, SchedInv
  <2>3. QED  BY <2>1, <2>2
<1>3. QED  BY <1>1, <1>2 DEF Ready

LEMMA CallKeepsTerm ==
  ASSUME IInv, IInv', TermInv, NEW k, NEW u, Changes(k, u), Ends(k)
  PROVE  TermStep
<1>1. /\ ker \in KState /\ Good(ker') /\ ~ker'.failed /\ nest' \in Nat
      /\ nest' = 0 => ker'.runtsk = ker'.schedtsk
      /\ ~ker.dspflg => ker.schedtsk = ker.runtsk
  BY MaxnestAssumption DEF IInv, Good, SchedInv
<1>2. Fields(k) /\ k.dspflg = ker.dspflg /\ k.runtsk = ker.runtsk
  BY DEF Changes, Acts
<1>3. /\ ker'.tstat = k.tstat /\ ker'.raster = k.raster /\ ker'.enater = k.enater
      /\ ker'.dspflg = k.dspflg /\ ker'.failed = k.failed
      /\ ker'.runtsk = k.runtsk \/ (nest' = 0 /\ ker'.runtsk = k.schedtsk)
  BY <1>2, DispatchFields DEF Ends
<1>4. ~ker.dspflg => ker'.runtsk = ker.runtsk
  BY <1>1, <1>2, <1>3 DEF Changes, Acts
<1>5. ASSUME NEW t \in TSK, ker'.raster[t]
      PROVE  TSTAT_RUNNABLE(ker', t) /\ (ker'.enater[t] => t = ker'.runtsk /\ ~ker'.dspflg)
  <2>1. CASE t = u
    BY <1>2, <1>3, <1>4, <1>5, <2>1 DEF Changes, TSTAT_RUNNABLE
  <2>2. CASE t # u
    <3>1. /\ k.tstat[t] = ker.tstat[t] /\ k.raster[t] = ker.raster[t]
          /\ k.enater[t] = ker.enater[t]
      BY <2>2 DEF Changes, Acts
    <3>2. ker.raster[t]  BY <1>3, <1>5, <3>1
    <3>3. TSTAT_RUNNABLE(ker, t) /\ (ker.enater[t] => t = ker.runtsk /\ ~ker.dspflg)
      BY <3>2 DEF TermInv, TerminationOK
    <3>4. QED  BY <1>2, <1>3, <1>4, <3>1, <3>3 DEF TSTAT_RUNNABLE
  <2>3. QED  BY <2>1, <2>2
<1>6. ker'.runtsk # NULL => TSTAT_RUNNABLE(ker', ker'.runtsk)
  <2>1. CASE nest' = 0
    BY <1>1, <2>1, TaskContextRuns
  <2>2. CASE nest' > 0
    <3>1. ker'.runtsk = ker.runtsk  BY <1>2, <1>3, <2>2
    <3>2. ker.runtsk \in TSK \cup {NULL}  BY <1>1 DEF KState
    <3>3. CASE ker.runtsk = u
      BY <1>3, <2>2, <3>1, <3>2, <3>3 DEF Changes, TSTAT_RUNNABLE
    <3>4. CASE ker.runtsk # u
      <4>1. ker.runtsk # NULL => k.tstat[ker.runtsk] = ker.tstat[ker.runtsk]
        BY <3>2, <3>4 DEF Changes, Acts
      <4>2. QED  BY <1>3, <3>1, <4>1 DEF TermInv, TSTAT_RUNNABLE
    <3>5. QED  BY <3>3, <3>4
  <2>3. QED  BY <1>1, <2>1, <2>2
<1>7. TerminationOK'
  BY <1>5 DEF TerminationOK
<1>8. QED
  BY <1>4, <1>6, <1>7 DEF TermStep, TermInv

LEMMA CallKeepsFirst ==
  ASSUME IInv, TermInv, NEW k, NEW u, Changes(k, u), Precedes(k, u), Ends(k)
  PROVE  FirstKept
<1>1. ker \in KState /\ Good(ker) /\ Fields(k)
  BY DEF IInv, Good, SchedInv, Changes, Acts
<1>2. /\ ker'.tstat = k.tstat /\ ker'.priority = k.priority /\ ker'.ready_queue = k.ready_queue
  BY <1>1, DispatchFields DEF Ends
<1>3. SUFFICES ASSUME NEW t \in TSK, t = ker.runtsk,
                      Head(ker.ready_queue[ker.priority[t]]) = t, TSTAT_RUNNABLE(ker', t)
               PROVE  Head(ker'.ready_queue[ker'.priority[t]]) = t
  BY DEF FirstKept
<1>4. CASE t = u
  <2>1. k.ready_queue = ker.ready_queue /\ k.priority = ker.priority
    BY <1>2, <1>3, <1>4 DEF Precedes, TSTAT_RUNNABLE
  <2>2. QED  BY <1>2, <1>3, <2>1
<1>5. CASE t # u
  <2>1. t \in Ready(ker)  BY <1>3, NullAssumption DEF TermInv, Ready
  <2>2. ker.priority[t] \in PRI /\ ker.ready_queue[ker.priority[t]] # <<>>
    BY <1>1, <2>1, InItsQueue DEF InQueue
  <2>3. k.priority[t] = ker.priority[t]  BY <1>5 DEF Changes, Acts
  <2>4. Head(k.ready_queue[ker.priority[t]]) = t
    BY <1>3, <1>5, <2>2 DEF Precedes, FirstStays
  <2>5. QED  BY <1>2, <2>3, <2>4
<1>6. QED  BY <1>4, <1>5

LEMMA ReturnEnds ==
  ASSUME NEW k, Return(k)
  PROVE  Ends(k) /\ nest' = nest
BY DEF Return, Ends

\* A call that changes the task u and nothing else of what matters here.  If u has the
\* processor, the call makes it give it up.
LEMMA OneTaskCall ==
  ASSUME IInv, IInv', TermInv, NEW k, NEW u \in TSK, Ends(k),
         Acts(ker, k, u), FirstStays(ker, k, u),
         k.raster[u] => TSTAT_RUNNABLE(k, u) /\ ~k.enater[u],
         u = ker.runtsk => nest' = 0 /\ ~TSTAT_RUNNABLE(k, u)
  PROVE  TermStep /\ FirstKept
<1>1. nest' \in Nat  BY MaxnestAssumption DEF IInv
<1>2. Changes(k, u)  BY <1>1 DEF Changes
<1>3. Precedes(k, u)  BY DEF Precedes
<1>4. QED  BY <1>2, <1>3, CallKeepsTerm, CallKeepsFirst

\* A call that changes no task, nor the ready queue.
LEMMA QuietCall ==
  ASSUME IInv, IInv', TermInv, NEW k, Quiet(ker, k), Ends(k)
  PROVE  TermStep /\ FirstKept
<1>1. Fields(ker)  BY StateFields DEF IInv, Good, SchedInv
<1>2. Acts(ker, k, NULL) /\ FirstStays(ker, k, NULL)  BY <1>1, QuietActs
<1>3. Changes(k, NULL) /\ Precedes(k, NULL)
  BY <1>2, NullAssumption DEF Changes, Precedes
<1>4. QED  BY <1>3, CallKeepsTerm, CallKeepsFirst

\* A task that is not runnable does not have the processor and is not to terminate.
LEMMA NotRunnable ==
  ASSUME TermInv, NEW t \in TSK, ~TSTAT_RUNNABLE(ker, t)
  PROVE  ~ker.raster[t] /\ t # ker.runtsk
BY NullAssumption DEF TermInv, TerminationOK

\* The end of a wait, or an activation: t is given to make_non_wait or
\* make_runnable.
LEMMA WakingCall ==
  ASSUME IInv, IInv', TermInv, NEW k, NEW t \in TSK, ~TSTAT_RUNNABLE(ker, t), Ends(k),
         Acts(ker, k, t), FirstStays(ker, k, t), k.raster = ker.raster
  PROVE  TermStep /\ FirstKept
BY NotRunnable, OneTaskCall

----------------------------------------------------------------------------
(* Termination and precedence, call by call: task_manage.c.                *)

LEMMA ActTskTerm ==
  ASSUME IInv, IInv', TermInv, NEW t \in TSK, act_tsk(t)
  PROVE  TermStep /\ FirstKept
<1>1. ker \in KState /\ Fields(ker)  BY StateFields DEF IInv, Good, SchedInv
<1>2. CASE TSTAT_DORMANT(ker, t)
  <2> DEFINE e == [ker EXCEPT !.tstat[t] = TS_RUNNABLE]
             r == make_runnable(e, t)
  <2>1. Return(r)  BY <1>2 DEF act_tsk, make_active
  <2>2. /\ Fields(e) /\ Acts(ker, e, t) /\ FirstStays(ker, e, t) /\ e.raster = ker.raster
        /\ e.ready_queue = ker.ready_queue
    BY <1>1 DEF Fields, Acts, FirstStays
  <2> HIDE DEF e
  <2>3. Acts(e, r, t) /\ FirstStays(e, r, t) /\ r.raster = e.raster
    BY <2>2, MakeRunnableActs
  <2> HIDE DEF r
  <2>4. Acts(ker, r, t) /\ FirstStays(ker, r, t) /\ r.raster = ker.raster
    BY <2>2, <2>3, ActsTransitive DEF FirstStays
  <2>5. ~TSTAT_RUNNABLE(ker, t)  BY <1>1, <1>2, TaskStates
  <2>6. QED  BY <2>1, <2>4, <2>5, ReturnEnds, WakingCall
<1>3. CASE ~TSTAT_DORMANT(ker, t)
  <2> DEFINE r == [ker EXCEPT !.actque[t] = TRUE]
  <2>1. ker' = r /\ Quiet(ker, r)  BY <1>1, <1>3 DEF act_tsk, Quiet, Fields
  <2>2. QED  BY <2>1, QuietCall DEF Ends
<1>4. QED  BY <1>2, <1>3

\* The calls that change only queued requests, or what a call has read.
LEMMA QuietCallsTerm ==
  ASSUME IInv, IInv', TermInv,
         \/ \E t \in TSK : can_act(t) \/ del_tsk(t) \/ chg_pri_ini(t) \/ can_wup(t)
         \/ rot_rdq_self \/ loc_cpu \/ unl_cpu \/ UNCHANGED vars
  PROVE  TermStep /\ FirstKept
<1>1. Fields(ker)  BY StateFields DEF IInv, Good, SchedInv
<1>2. ASSUME NEW t \in TSK, can_act(t) \/ del_tsk(t) \/ chg_pri_ini(t) \/ can_wup(t)
      PROVE  Quiet(ker, ker')
  <2>1. CASE can_act(t)  BY <1>1, <2>1 DEF can_act, Quiet, Fields
  <2>2. CASE del_tsk(t)  BY <1>1, <2>2 DEF del_tsk, Quiet, Fields
  <2>3. CASE chg_pri_ini(t)  BY <1>1, <2>3 DEF chg_pri_ini, Quiet, Fields
  <2>4. CASE can_wup(t)  BY <1>1, <2>4 DEF can_wup, Quiet, Fields
  <2>5. QED  BY <1>2, <2>1, <2>2, <2>3, <2>4
<1>3. CASE rot_rdq_self
  <2>1. Quiet(ker, ker')  BY <1>1, <1>3 DEF rot_rdq_self, Quiet, Fields
  <2>2. QED  BY <2>1, QuietCall DEF Ends
<1>4. CASE loc_cpu \/ unl_cpu \/ UNCHANGED vars
  <2>1. ker' = ker  BY <1>4 DEF loc_cpu, unl_cpu, vars
  <2>2. Quiet(ker, ker)  BY DEF Quiet
  <2>3. QED  BY <2>1, <2>2, QuietCall DEF Ends
<1>5. QED  BY <1>2, <1>3, <1>4, QuietCall DEF Ends

\* What is left of chg_pri: the task keeps its state.
LEMMA PriorityCall ==
  ASSUME IInv, IInv', TermInv, NEW k, NEW u, Ends(k), Acts(ker, k, u),
         k.tstat = ker.tstat, k.raster = ker.raster, k.enater = ker.enater
  PROVE  TermStep
<1>1. u \in TSK /\ u = ker.runtsk => TSTAT_RUNNABLE(ker, u)
  BY NullAssumption DEF TermInv
<1>2. u \in TSK /\ ker.raster[u] => /\ TSTAT_RUNNABLE(ker, u)
                                    /\ ker.enater[u] => u = ker.runtsk /\ ~ker.dspflg
  BY DEF TermInv, TerminationOK
<1>3. Changes(k, u)  BY <1>1, <1>2 DEF Changes, TSTAT_RUNNABLE
<1>4. QED  BY <1>3, CallKeepsTerm

LEMMA ChgPriTerm ==
  ASSUME TaskOnly, IInv, IInv', TermInv, NEW t \in TSK, NEW pri \in PRI, chg_pri(t, pri)
  PROVE  TermStep
<1> DEFINE r == ChangeBasePriority(ker, t, pri)
<1>1. Good(ker) /\ Return(r)  BY DEF IInv, chg_pri
<1>2. Acts(ker, r, t) /\ r.tstat = ker.tstat /\ r.raster = ker.raster /\ r.enater = ker.enater
  BY <1>1, BasePriorityActs
<1> HIDE DEF r
<1>3. QED  BY <1>1, <1>2, ReturnEnds, PriorityCall

LEMMA ChgPriIniLockedTerm ==
  ASSUME TaskOnly, IInv, IInv', TermInv, chg_pri_ini_locked
  PROVE  TermStep
<1> DEFINE c == ker.pending[Self]
           k == [ker EXCEPT !.pending[Self] = IDLE]
           r == ChangeBasePriority(k, c.tsk, c.pri)
<1>1. /\ Good(ker) /\ ker \in KState /\ nest = 0 /\ Self # NULL /\ c.call # "none"
  BY DEF IInv, Good, SchedInv, chg_pri_ini_locked
<1>2. Self \in TSK /\ ~TSTAT_DORMANT(ker, Self)  BY <1>1, RunningTask
<1>3. c.tsk \in TSK /\ c.pri \in PRI  BY <1>1, <1>2, PendingType
<1>4. Good(k)  BY <1>1, <1>2, Pending
<1>5. Quiet(ker, k) /\ Fields(ker)
  <2>1. Fields(ker)  BY <1>1, StateFields
  <2>2. QED  BY <2>1 DEF Fields, Quiet
<1>6. Return(IF ChgPriAccepted(c.tsk, c.pri) THEN r ELSE k)
  BY DEF chg_pri_ini_locked
<1> HIDE DEF k, c
<1>7. Acts(k, r, c.tsk) /\ r.tstat = k.tstat /\ r.raster = k.raster /\ r.enater = k.enater
  BY <1>3, <1>4, BasePriorityActs
<1> HIDE DEF r
<1>8. Acts(ker, k, c.tsk)  BY <1>5, QuietActs
<1>9. Acts(ker, r, c.tsk)  BY <1>7, <1>8, ActsTransitive
<1>10. CASE Return(r)
  BY <1>5, <1>7, <1>9, <1>10, ReturnEnds, PriorityCall DEF Quiet
<1>11. CASE Return(k)
  BY <1>5, <1>11, ReturnEnds, QuietCall
<1>12. QED  BY <1>6, <1>10, <1>11

LEMMA AcreTskTerm ==
  ASSUME IInv, IInv', TermInv, NEW atr \in {"TA_NULL", "TA_NOACTQUE"}, NEW act \in BOOLEAN,
         NEW pri \in PRI, acre_tsk(atr, act, pri)
  PROVE  TermStep /\ FirstKept
<1> DEFINE t == Head(ker.free_tcb)
           k == [ker EXCEPT !.free_tcb = Tail(@), !.tskatr[t] = atr,
                            !.ipriority[t] = pri, !.actque[t] = FALSE, !.lastmtx[t] = <<>>]
           d == make_dormant(k, t)
           e == [d EXCEPT !.tstat[t] = TS_RUNNABLE]
           r == make_runnable(e, t)
<1>1. /\ ker \in KState /\ Fields(ker) /\ SystemOK(ker) /\ TaskOK(ker, t)
      /\ t \in TSK /\ ker.tskatr[t] = "TA_NOEXS"
  <2>1. /\ ker \in KState /\ SystemOK(ker) /\ \A u \in TSK : TaskOK(ker, u)
    BY DEF IInv, Good, SchedInv
  <2>2. ker.free_tcb \in Seq(TSK) /\ ker.free_tcb # <<>>  BY <2>1 DEF KState, acre_tsk
  <2>3. t \in TSK /\ InQueue(ker.free_tcb, t)
    BY <2>2 DEF InQueue
  <2>4. QED  BY <2>1, <2>3, StateFields DEF SystemOK, FreeList
<1>2. Return(IF act THEN r ELSE d)
  BY DEF acre_tsk, make_active
<1> HIDE DEF t
<1>3. ~TSTAT_RUNNABLE(ker, t)
  BY <1>1, TaskStates DEF TaskOK
<1>4. /\ DOMAIN d = DOMAIN ker
      /\ d.ready_queue = ker.ready_queue /\ d.dspflg = ker.dspflg /\ d.runtsk = ker.runtsk
      /\ d.schedtsk = ker.schedtsk /\ d.failed = ker.failed
      /\ d.priority = [ker.priority EXCEPT ![t] = pri]
      /\ d.raster = [ker.raster EXCEPT ![t] = FALSE]
      /\ d.enater = [ker.enater EXCEPT ![t] = TRUE]
      /\ d.tstat = [ker.tstat EXCEPT ![t] = TS_DORMANT]
  <2>1. /\ DOMAIN k = DOMAIN ker /\ k.ipriority[t] = pri
        /\ k.ready_queue = ker.ready_queue /\ k.dspflg = ker.dspflg /\ k.runtsk = ker.runtsk
        /\ k.schedtsk = ker.schedtsk /\ k.failed = ker.failed /\ k.priority = ker.priority
        /\ k.raster = ker.raster /\ k.enater = ker.enater /\ k.tstat = ker.tstat
    BY <1>1 DEF KState
  <2> HIDE DEF k
  <2>2. QED  BY <1>1, <2>1 DEF make_dormant, Fields
<1> HIDE DEF d
<1>5. Fields(d)  BY <1>1, <1>4 DEF Fields
<1>6. Acts(ker, d, t) /\ FirstStays(ker, d, t) /\ d.raster[t] = FALSE
  BY <1>1, <1>4, <1>5 DEF Fields, Acts, FirstStays
<1>7. /\ Fields(e) /\ Acts(d, e, t) /\ e.raster = d.raster /\ e.ready_queue = d.ready_queue
  BY <1>5 DEF Fields, Acts
<1> HIDE DEF e
<1>8. Acts(e, r, t) /\ FirstStays(e, r, t) /\ r.raster = e.raster
  BY <1>1, <1>7, MakeRunnableActs
<1> HIDE DEF r
<1>9. Acts(ker, r, t)  BY <1>6, <1>7, <1>8, ActsTransitive
<1>10. FirstStays(ker, r, t)  BY <1>4, <1>7, <1>8 DEF FirstStays
<1>11. t # ker.runtsk  BY <1>1, <1>3, NotRunnable
<1>12. CASE Return(r)
  BY <1>1, <1>6, <1>7, <1>8, <1>9, <1>10, <1>11, <1>12, ReturnEnds, OneTaskCall
<1>13. CASE Return(d)
  BY <1>1, <1>6, <1>11, <1>13, ReturnEnds, OneTaskCall
<1>14. QED  BY <1>2, <1>12, <1>13

----------------------------------------------------------------------------
(* Termination and precedence, call by call: task_sync.c.                  *)

\* The task gives up the processor to wait.
LEMMA MakeWaitActs ==
  ASSUME NEW k, Good(k), k.runtsk \in Ready(k), NEW factor \in FACTOR, NEW tmo \in BOOLEAN
  PROVE  LET r == make_wait(k, factor, tmo) IN
         /\ Acts(k, r, k.runtsk) /\ FirstStays(k, r, k.runtsk)
         /\ r.raster = k.raster /\ ~TSTAT_RUNNABLE(r, k.runtsk)
<1> DEFINE t == k.runtsk
           e == [k EXCEPT !.tstat[t] = TS_WAITING(factor)]
           w == make_non_runnable(e, t)
           r == make_wait(k, factor, tmo)
<1>1. /\ Fields(k) /\ t \in TSK /\ InQueue(k.ready_queue[k.priority[t]], t)
      /\ Distinct(k.ready_queue[k.priority[t]])
  BY StateFields, InItsQueue DEF Good, SchedInv
<1>2. r = [w EXCEPT !.winfo[t] = IF tmo THEN "tmevtb" ELSE "null",
                    !.tmevt = IF tmo THEN @ \cup {t} ELSE @]
  BY DEF make_wait
<1> HIDE DEF r, t
<1>3. /\ Fields(e) /\ Acts(k, e, t) /\ e.raster = k.raster
      /\ e.ready_queue = k.ready_queue /\ e.priority = k.priority /\ ~TSTAT_RUNNABLE(e, t)
  BY <1>1, StateConstants DEF Fields, Acts, TSTAT_RUNNABLE
<1> HIDE DEF e
<1>4. Acts(e, w, t) /\ FirstStays(e, w, t) /\ w.tstat = e.tstat /\ w.raster = e.raster
  BY <1>1, <1>3, MakeNonRunnableActs
<1> HIDE DEF w
<1>5. Fields(w)  BY <1>4 DEF Acts
<1>6. Quiet(w, r)  BY <1>2, <1>5 DEF Quiet, Fields
<1>7. Acts(w, r, t)  BY <1>5, <1>6, QuietActs
<1>8. Acts(k, r, t)  BY <1>3, <1>4, <1>7, ActsTransitive
<1>9. FirstStays(k, r, t)  BY <1>3, <1>4, <1>6 DEF FirstStays, Quiet
<1>10. QED  BY <1>3, <1>4, <1>6, <1>8, <1>9 DEF Quiet, TSTAT_RUNNABLE, t, r

LEMMA WaitCall ==
  ASSUME IInv, IInv', TermInv, nest = 0, Self # NULL, ~ker.raster[Self],
         NEW factor \in FACTOR, NEW tmo \in BOOLEAN, Return(make_wait(ker, factor, tmo))
  PROVE  TermStep /\ FirstKept
<1> DEFINE r == make_wait(ker, factor, tmo)
<1>1. Good(ker) /\ Self \in TSK /\ Self \in Ready(ker)
  BY RunningTask DEF IInv
<1>2. Acts(ker, r, Self) /\ FirstStays(ker, r, Self) /\ r.raster = ker.raster
      /\ ~TSTAT_RUNNABLE(r, Self)
  BY <1>1, MakeWaitActs DEF Self
<1> HIDE DEF r
<1>3. Ends(r) /\ nest' = 0  BY ReturnEnds DEF r
<1>4. ~r.raster[Self]  BY <1>2
<1>5. QED  BY <1>1, <1>2, <1>3, <1>4, OneTaskCall

LEMMA SleepTerm ==
  ASSUME IInv, IInv', TermInv, (\E tmo \in BOOLEAN : slp_tsk(tmo)) \/ dly_tsk
  PROVE  TermStep /\ FirstKept
<1>1. nest = 0 /\ Self # NULL /\ ~ker.raster[Self] /\ "SLP" \in FACTOR /\ "DLY" \in FACTOR
  BY DEF slp_tsk, dly_tsk, DispatchCall, TaskCall, TaskRuns, FACTOR
<1>2. CASE dly_tsk
  BY <1>1, <1>2, WaitCall DEF dly_tsk
<1>3. ASSUME NEW tmo \in BOOLEAN, slp_tsk(tmo)  PROVE TermStep /\ FirstKept
  <2>1. CASE ker.wupque[Self]
    <3>1. Fields(ker)  BY StateFields DEF IInv, Good, SchedInv
    <3>2. Quiet(ker, ker')  BY <1>3, <2>1, <3>1 DEF slp_tsk, Quiet, Fields
    <3>3. QED  BY <3>2, QuietCall DEF Ends
  <2>2. CASE ~ker.wupque[Self]
    BY <1>1, <1>3, <2>2, WaitCall DEF slp_tsk
  <2>3. QED  BY <2>1, <2>2
<1>4. QED  BY <1>2, <1>3

\* A wait of t ends: k is the kernel with t taken out of what it waited for.
LEMMA WakeCall ==
  ASSUME IInv, IInv', TermInv, NEW t \in TSK, ~TSTAT_RUNNABLE(ker, t), NEW k, Quiet(ker, k),
         Ends(make_non_wait(k, t))
  PROVE  TermStep /\ FirstKept
<1> DEFINE r == make_non_wait(k, t)
<1>1. Fields(ker)  BY StateFields DEF IInv, Good, SchedInv
<1>2. Fields(k) /\ Acts(ker, k, t) /\ FirstStays(ker, k, t)
  BY <1>1, QuietFields, QuietActs
<1>3. Acts(k, r, t) /\ FirstStays(k, r, t) /\ r.raster = k.raster
  BY <1>2, MakeNonWaitActs
<1> HIDE DEF r
<1>4. Acts(ker, r, t)  BY <1>2, <1>3, ActsTransitive
<1>5. FirstStays(ker, r, t) /\ r.raster = ker.raster  BY <1>2, <1>3 DEF FirstStays, Quiet
<1>6. QED  BY <1>4, <1>5, WakingCall DEF r

LEMMA WupTskTerm ==
  ASSUME IInv, IInv', TermInv, NEW t \in TSK, wup_tsk(t)
  PROVE  TermStep /\ FirstKept
<1>1. ker \in KState /\ Fields(ker)  BY StateFields DEF IInv, Good, SchedInv
<1>2. CASE ker.tstat[t].wai = "SLP"
  <2> DEFINE a == wait_dequeue_tmevtb(ker, t)
             k == SetWercd(a, t, "E_OK")
  <2>1. Return(make_non_wait(k, t))  BY <1>2 DEF wup_tsk, wait_complete
  <2>2. Quiet(ker, a) /\ Fields(a)  BY <1>1, WaitEndQuiet, QuietFields
  <2> HIDE DEF a
  <2>3. Quiet(a, k)  BY <2>2, WaitEndQuiet
  <2>4. Quiet(ker, k)  BY <2>2, <2>3, QuietTransitive
  <2>5. ~TSTAT_RUNNABLE(ker, t)  BY <1>1, <1>2, TaskStates DEF TSTAT_WAITING
  <2> HIDE DEF k
  <2>6. QED  BY <2>1, <2>4, <2>5, ReturnEnds, WakeCall
<1>3. CASE ker.tstat[t].wai # "SLP"
  <2>1. Quiet(ker, ker')  BY <1>1, <1>3 DEF wup_tsk, Quiet, Fields
  <2>2. QED  BY <2>1, QuietCall DEF Ends
<1>4. QED  BY <1>2, <1>3

LEMMA RelWaiTerm ==
  ASSUME IInv, IInv', TermInv, NEW t \in TSK, rel_wai(t)
  PROVE  TermStep /\ FirstKept
<1> DEFINE a == wait_dequeue_wobj(ker, t)
           b == wait_dequeue_tmevtb(a, t)
           k == SetWercd(b, t, "E_RLWAI")
<1>1. ker \in KState /\ Fields(ker)  BY StateFields DEF IInv, Good, SchedInv
<1>2. Return(make_non_wait(k, t)) /\ TSTAT_WAITING(ker, t)  BY DEF rel_wai
<1>3. Quiet(ker, a) /\ Fields(a)  BY <1>1, WaitEndQuiet, QuietFields
<1> HIDE DEF a
<1>4. Quiet(a, b) /\ Fields(b)  BY <1>3, WaitEndQuiet, QuietFields
<1> HIDE DEF b
<1>5. Quiet(b, k)  BY <1>4, WaitEndQuiet
<1>6. Quiet(ker, k)  BY <1>3, <1>4, <1>5, QuietTransitive
<1>7. ~TSTAT_RUNNABLE(ker, t)  BY <1>1, <1>2, TaskStates
<1> HIDE DEF k
<1>8. QED  BY <1>2, <1>6, <1>7, ReturnEnds, WakeCall

\* The timer handler ends a wait.
LEMMA TimeoutTerm ==
  ASSUME IInv, IInv', TermInv, NEW t \in TSK, Timeout(t)
  PROVE  TermStep /\ FirstKept
<1> DEFINE k == [ker EXCEPT !.tmevt = @ \ {t}]
           a == wait_dequeue_wobj(k, t)
           m == SetWercd(a, t, "E_TMOUT")
           n == SetWercd(k, t, "E_OK")
<1>1. ker \in KState /\ Fields(ker) /\ TaskOK(ker, t)
  BY StateFields DEF IInv, Good, SchedInv
<1>2. TSTAT_WAITING(ker, t)  BY <1>1 DEF Timeout, TaskOK
<1>3. ker' = make_non_wait(m, t) \/ ker' = make_non_wait(n, t)
  BY DEF Timeout, wait_tmout, wait_tmout_ok
<1>4. Quiet(ker, k)  BY <1>1 DEF Quiet, Fields
<1>5. Fields(k)  BY <1>1, <1>4, QuietFields
<1> HIDE DEF k
<1>6. Quiet(k, a) /\ Fields(a)  BY <1>5, WaitEndQuiet, QuietFields
<1> HIDE DEF a
<1>7. Quiet(k, n) /\ Quiet(a, m)  BY <1>5, <1>6, WaitEndQuiet
<1>8. Quiet(ker, n) /\ Quiet(ker, m)  BY <1>4, <1>6, <1>7, QuietTransitive
<1>9. ~TSTAT_RUNNABLE(ker, t)  BY <1>1, <1>2, TaskStates
<1> HIDE DEF m, n
<1>10. QED  BY <1>3, <1>8, <1>9, WakeCall DEF Ends

LEMMA SusTskTerm ==
  ASSUME IInv, IInv', TermInv, NEW t \in TSK, sus_tsk(t)
  PROVE  TermStep /\ FirstKept
<1>1. /\ Good(ker) /\ ker \in KState /\ Fields(ker) /\ nest = 0 /\ ~ker.raster[t]
  BY StateFields DEF IInv, Good, SchedInv, sus_tsk, TaskCall, TaskRuns
<1>2. CASE TSTAT_RUNNABLE(ker, t)
  <2> DEFINE e == [ker EXCEPT !.tstat[t] = TS_SUSPENDED]
             r == make_non_runnable(e, t)
  <2>1. Return(r)  BY <1>2 DEF sus_tsk
  <2>2. /\ InQueue(ker.ready_queue[ker.priority[t]], t)
        /\ Distinct(ker.ready_queue[ker.priority[t]])
    BY <1>1, <1>2, InItsQueue DEF Ready
  <2>3. /\ Fields(e) /\ Acts(ker, e, t) /\ e.raster = ker.raster
        /\ e.ready_queue = ker.ready_queue /\ e.priority = ker.priority /\ ~TSTAT_RUNNABLE(e, t)
    BY <1>1, StateConstants DEF Fields, Acts, TSTAT_RUNNABLE
  <2> HIDE DEF e
  <2>4. Acts(e, r, t) /\ FirstStays(e, r, t) /\ r.tstat = e.tstat /\ r.raster = e.raster
    BY <2>2, <2>3, MakeNonRunnableActs
  <2> HIDE DEF r
  <2>5. Acts(ker, r, t)  BY <2>3, <2>4, ActsTransitive
  <2>6. FirstStays(ker, r, t)  BY <2>3, <2>4 DEF FirstStays
  <2>7. ~TSTAT_RUNNABLE(r, t) /\ ~r.raster[t]  BY <1>1, <2>3, <2>4 DEF TSTAT_RUNNABLE
  <2>8. QED  BY <1>1, <2>1, <2>5, <2>6, <2>7, ReturnEnds, OneTaskCall
<1>3. CASE ~TSTAT_RUNNABLE(ker, t)
  <2> DEFINE r == [ker EXCEPT !.tstat[t].sus = TRUE]
  <2>1. Return(r)  BY <1>3 DEF sus_tsk
  <2>2. Acts(ker, r, t) /\ FirstStays(ker, r, t) /\ r.raster = ker.raster
    BY <1>1 DEF Fields, Acts, FirstStays
  <2> HIDE DEF r
  <2>3. QED  BY <1>3, <2>1, <2>2, ReturnEnds, WakingCall
<1>4. QED  BY <1>2, <1>3

LEMMA RsmTskTerm ==
  ASSUME IInv, IInv', TermInv, NEW t \in TSK, rsm_tsk(t)
  PROVE  TermStep /\ FirstKept
<1>1. /\ ker \in KState /\ Fields(ker) /\ TSTAT_SUSPENDED(ker, t)
  BY StateFields DEF IInv, Good, SchedInv, rsm_tsk
<1>2. ~TSTAT_RUNNABLE(ker, t)  BY <1>1, TaskStates
<1>3. CASE TSTAT_WAITING(ker, t)
  <2> DEFINE r == [ker EXCEPT !.tstat[t].sus = FALSE]
  <2>1. Return(r)  BY <1>3 DEF rsm_tsk
  <2>2. Acts(ker, r, t) /\ FirstStays(ker, r, t) /\ r.raster = ker.raster
    BY <1>1 DEF Fields, Acts, FirstStays
  <2> HIDE DEF r
  <2>3. QED  BY <1>2, <2>1, <2>2, ReturnEnds, WakingCall
<1>4. CASE ~TSTAT_WAITING(ker, t)
  <2> DEFINE e == [ker EXCEPT !.tstat[t] = TS_RUNNABLE]
             r == make_runnable(e, t)
  <2>1. Return(r)  BY <1>4 DEF rsm_tsk
  <2>2. /\ Fields(e) /\ Acts(ker, e, t) /\ e.raster = ker.raster
        /\ e.ready_queue = ker.ready_queue
    BY <1>1 DEF Fields, Acts
  <2> HIDE DEF e
  <2>3. Acts(e, r, t) /\ FirstStays(e, r, t) /\ r.raster = e.raster
    BY <2>2, MakeRunnableActs
  <2> HIDE DEF r
  <2>4. Acts(ker, r, t)  BY <2>2, <2>3, ActsTransitive
  <2>5. FirstStays(ker, r, t) /\ r.raster = ker.raster  BY <2>2, <2>3 DEF FirstStays
  <2>6. QED  BY <1>2, <2>1, <2>4, <2>5, ReturnEnds, WakingCall
<1>5. QED  BY <1>3, <1>4

----------------------------------------------------------------------------
(* Termination and precedence, call by call: task_term.c.                  *)

\* Another task is terminated.
LEMMA TerminateCall ==
  ASSUME TaskOnly, IInv, IInv', TermInv, NEW t \in TSK, t # Self,
         Return(task_terminate(ker, t))
  PROVE  TermStep /\ FirstKept
<1> DEFINE r == task_terminate(ker, t)
<1>1. Acts(ker, r, t) /\ FirstStays(ker, r, t) /\ r.raster[t] = FALSE
  BY TerminateActs DEF IInv
<1> HIDE DEF r
<1>2. Ends(r)  BY ReturnEnds DEF r
<1>3. QED  BY <1>1, <1>2, OneTaskCall DEF Self

LEMMA TerTskTerm ==
  ASSUME TaskOnly, IInv, IInv', TermInv, NEW t \in TSK, ter_tsk(t)
  PROVE  TermStep /\ FirstKept
BY TerminateCall DEF ter_tsk

LEMMA RasTerTerm ==
  ASSUME TaskOnly, IInv, IInv', TermInv, NEW t \in TSK, ras_ter(t)
  PROVE  TermStep /\ FirstKept
<1> DEFINE k == [ker EXCEPT !.raster[t] = TRUE]
<1>1. ker \in KState /\ Fields(ker) /\ t # Self
  BY StateFields DEF IInv, Good, SchedInv, ras_ter
<1>2. CASE ker.enater[t]
  BY <1>1, <1>2, TerminateCall DEF ras_ter
<1>3. ASSUME ~ker.enater[t]  PROVE TermStep /\ FirstKept
  <2>1. Return(IF TSTAT_RUNNABLE(ker, t) THEN k ELSE AbandonWait(k, t))
    BY <1>3 DEF ras_ter
  <2>2. /\ Fields(k) /\ Acts(ker, k, t) /\ FirstStays(ker, k, t)
        /\ k.tstat = ker.tstat /\ ~k.enater[t]
    BY <1>1, <1>3 DEF Fields, Acts, FirstStays
  <2> HIDE DEF k
  <2>3. CASE TSTAT_RUNNABLE(ker, t)
    <3>1. Return(k)  BY <2>1, <2>3
    <3>2. Ends(k)  BY <3>1, ReturnEnds
    <3>3. TSTAT_RUNNABLE(k, t)  BY <2>2, <2>3 DEF TSTAT_RUNNABLE
    <3>4. QED  BY <1>1, <2>2, <3>2, <3>3, OneTaskCall DEF Self
  <2>4. CASE ~TSTAT_RUNNABLE(ker, t)
    <3> DEFINE a == wait_dequeue_wobj(k, t)
               b == wait_dequeue_tmevtb(a, t)
               w == IF TSTAT_WAITING(k, t) THEN SetWercd(b, t, "E_RASTER") ELSE k
               e == [w EXCEPT !.tstat[t] = TS_RUNNABLE]
               r == make_runnable(e, t)
    <3>1. Return(r)  BY <2>1, <2>4 DEF AbandonWait
    <3>2. Quiet(k, a) /\ Fields(a)  BY <2>2, WaitEndQuiet, QuietFields
    <3> HIDE DEF a
    <3>3. Quiet(a, b) /\ Fields(b)  BY <3>2, WaitEndQuiet, QuietFields
    <3> HIDE DEF b
    <3>4. Quiet(b, SetWercd(b, t, "E_RASTER"))  BY <3>3, WaitEndQuiet
    <3>5. Quiet(k, SetWercd(b, t, "E_RASTER"))  BY <3>2, <3>3, <3>4, QuietTransitive
    <3>6. Quiet(k, w)  BY <3>5 DEF Quiet
    <3> HIDE DEF w
    <3>7. Fields(w) /\ Acts(k, w, t)  BY <2>2, <3>6, QuietFields, QuietActs
    <3>8. /\ Fields(e) /\ Acts(w, e, t) /\ e.ready_queue = w.ready_queue
          /\ e.enater = w.enater /\ TSTAT_RUNNABLE(e, t)
      BY <3>7, StateConstants DEF Fields, Acts, TSTAT_RUNNABLE
    <3> HIDE DEF e
    <3>9. /\ Acts(e, r, t) /\ FirstStays(e, r, t) /\ r.tstat = e.tstat /\ r.enater = e.enater
      BY <3>8, MakeRunnableActs
    <3> HIDE DEF r
    <3>10. Acts(ker, r, t)  BY <2>2, <3>7, <3>8, <3>9, ActsTransitive
    <3>11. FirstStays(ker, r, t)  BY <2>2, <3>6, <3>8, <3>9 DEF FirstStays, Quiet
    <3>12. TSTAT_RUNNABLE(r, t) /\ ~r.enater[t]
      BY <2>2, <3>6, <3>8, <3>9 DEF Quiet, TSTAT_RUNNABLE
    <3>13. Ends(r)  BY <3>1, ReturnEnds
    <3>14. QED  BY <1>1, <3>10, <3>11, <3>12, <3>13, OneTaskCall DEF Self
  <2>5. QED  BY <2>3, <2>4
<1>4. QED  BY <1>2, <1>3

LEMMA DisTerTerm ==
  ASSUME IInv, IInv', TermInv, dis_ter
  PROVE  TermStep /\ FirstKept
<1> DEFINE r == [ker EXCEPT !.enater[Self] = FALSE]
<1>1. nest = 0 /\ Self # NULL  BY DEF dis_ter, TaskCall, TaskRuns
<1>2. Fields(ker) /\ Self \in TSK /\ TSTAT_RUNNABLE(ker, Self)
  BY <1>1, StateFields, RunningTask DEF IInv, Good, SchedInv
<1>3. ker' = r  BY DEF dis_ter
<1>4. /\ Acts(ker, r, Self) /\ FirstStays(ker, r, Self) /\ r.tstat = ker.tstat
      /\ r.ready_queue = ker.ready_queue /\ r.priority = ker.priority /\ ~r.enater[Self]
  BY <1>2 DEF Fields, Acts, FirstStays
<1> HIDE DEF r
<1>5. Changes(r, Self)  BY <1>2, <1>4 DEF Changes, TSTAT_RUNNABLE
<1>6. Precedes(r, Self) /\ Ends(r)  BY <1>3, <1>4 DEF Precedes, Ends
<1>7. QED  BY <1>5, <1>6, CallKeepsTerm, CallKeepsFirst

\* Dispatching is possible again, or still, and the running task has no request to
\* terminate that it permits.
LEMMA Dispatching ==
  ASSUME IInv', TermInv, nest' = 0, ker'.dspflg,
         \A t \in TSK \ {Self} : /\ ker'.tstat[t] = ker.tstat[t]
                                 /\ ker'.raster[t] = ker.raster[t]
                                 /\ ker'.enater[t] = ker.enater[t],
         Self \in TSK /\ ker'.raster[Self] => TSTAT_RUNNABLE(ker', Self) /\ ~ker'.enater[Self]
  PROVE  TermStep
<1>1. ASSUME NEW t \in TSK, ker'.raster[t]  PROVE TSTAT_RUNNABLE(ker', t) /\ ~ker'.enater[t]
  <2>1. CASE t = Self  BY <1>1, <2>1
  <2>2. CASE t # Self
    <3>1. TSTAT_RUNNABLE(ker, t) /\ ~ker.enater[t]
      BY <1>1, <2>2 DEF TermInv, TerminationOK, Self
    <3>2. QED  BY <2>2, <3>1 DEF TSTAT_RUNNABLE
  <2>3. QED  BY <2>1, <2>2
<1>2. ker'.runtsk # NULL => TSTAT_RUNNABLE(ker', ker'.runtsk)
  <2>1. Good(ker') /\ ker'.runtsk = ker'.schedtsk  BY DEF IInv
  <2>2. QED  BY <2>1, TaskContextRuns
<1>3. QED  BY <1>1, <1>2 DEF TermStep, TermInv, TerminationOK

\* The running task ends.
LEMMA ExitCall ==
  ASSUME TaskOnly, IInv', TermInv, nest = 0, Self \in TSK, NEW s, Good(s), s.dspflg,
         s.tstat = ker.tstat, s.raster = ker.raster, s.enater = ker.enater,
         ExitAndDispatch(task_terminate(s, Self))
  PROVE  TermStep
<1> DEFINE r == task_terminate(s, Self)
<1>1. Acts(s, r, Self) /\ r.raster[Self] = FALSE  BY TerminateActs
<1>2. ker' = dispatch(r) /\ nest' = nest  BY DEF ExitAndDispatch
<1> HIDE DEF r
<1>3. Fields(r) /\ r.dspflg  BY <1>1 DEF Acts
<1>4. /\ ker'.tstat = r.tstat /\ ker'.raster = r.raster /\ ker'.enater = r.enater
      /\ ker'.dspflg
  BY <1>2, <1>3, DispatchFields
<1>5. QED  BY <1>1, <1>2, <1>4, Dispatching DEF Acts

\* set_dspflg, of a kernel with the flags changed.
LEMMA FlagFields ==
  ASSUME NEW k, Fields(k)
  PROVE  LET s == set_dspflg(k) IN
         /\ Fields(s) /\ s.dspflg /\ s.tstat = k.tstat /\ s.raster = k.raster
         /\ s.enater = k.enater
<1> DEFINE x == search_schedtsk(k)
<1>1. set_dspflg(k) = [k EXCEPT !.dspflg = TRUE, !.schedtsk = x]  BY DEF set_dspflg
<1> HIDE DEF x
<1>2. QED  BY <1>1 DEF Fields

LEMMA EnaTerTerm ==
  ASSUME TaskOnly, IInv, IInv', TermInv, ena_ter
  PROVE  TermStep
<1>1. nest = 0 /\ Self # NULL /\ Good(ker)  BY DEF IInv, ena_ter, TaskCall, TaskRuns
<1>2. Fields(ker) /\ Self \in TSK /\ TSTAT_RUNNABLE(ker, Self)
  BY <1>1, StateFields, RunningTask DEF Good, SchedInv
<1>3. CASE ker.raster[Self] /\ ker.dspflg
  BY <1>1, <1>2, <1>3, ExitCall DEF ena_ter
<1>4. CASE ~(ker.raster[Self] /\ ker.dspflg)
  <2> DEFINE r == [ker EXCEPT !.enater[Self] = TRUE]
  <2>1. ker' = r  BY <1>4 DEF ena_ter
  <2>2. Acts(ker, r, Self) /\ r.tstat = ker.tstat /\ r.raster = ker.raster
    BY <1>2 DEF Fields, Acts
  <2> HIDE DEF r
  <2>3. Changes(r, Self)  BY <1>2, <1>4, <2>2 DEF Changes, TSTAT_RUNNABLE, Self
  <2>4. QED  BY <2>1, <2>3, CallKeepsTerm DEF Ends
<1>5. QED  BY <1>3, <1>4

LEMMA ExtTskTerm ==
  ASSUME TaskOnly, IInv, IInv', TermInv, ext_tsk
  PROVE  TermStep
<1> DEFINE e == [ker EXCEPT !.enadsp = TRUE, !.ipm = FALSE]
           s == IF ker.dspflg THEN ker ELSE set_dspflg(e)
<1>1. nest = 0 /\ Self # NULL /\ Good(ker) /\ ker \in KState
  BY DEF IInv, Good, SchedInv, ext_tsk, TaskRuns
<1>2. Self \in TSK /\ Fields(ker)  BY <1>1, RunningTask, StateFields
<1>3. ExitAndDispatch(task_terminate(s, Self))  BY DEF ext_tsk
<1>4. e \in KState  BY <1>1 DEF KState
<1>5. Fields(e) /\ e.tstat = ker.tstat /\ e.raster = ker.raster /\ e.enater = ker.enater
  BY <1>2 DEF Fields
<1>6. /\ Good(s) /\ s.dspflg /\ s.tstat = ker.tstat /\ s.raster = ker.raster
      /\ s.enater = ker.enater
  <2>1. CASE ker.dspflg  BY <1>1, <2>1
  <2>2. CASE ~ker.dspflg
    <3>1. s = set_dspflg(e)  BY <2>2
    <3>2. Good(set_dspflg(e)) /\ set_dspflg(e).dspflg
      BY <1>1, <1>4, Enable
    <3> HIDE DEF e, s
    <3>3. QED  BY <1>5, <3>1, <3>2, FlagFields
  <2>3. QED  BY <2>1, <2>2
<1> HIDE DEF s
<1>7. QED  BY <1>1, <1>2, <1>3, <1>6, ExitCall

----------------------------------------------------------------------------
(* Termination and precedence, call by call: sys_manage.c and chg_ipm.     *)

LEMMA RotRdqTerm ==
  ASSUME IInv, IInv', TermInv, (\E pri \in PRI : rot_rdq(pri)) \/ rot_rdq_self_locked
  PROVE  TermStep
<1>1. ker \in KState /\ Fields(ker)  BY StateFields DEF IInv, Good, SchedInv
<1>2. ASSUME NEW k, Quiet(ker, k), NEW pri \in PRI, Return(rotate_ready_queue(k, pri))
      PROVE  TermStep
  <2> DEFINE r == rotate_ready_queue(k, pri)
  <2>1. Fields(k) /\ Acts(ker, k, NULL)  BY <1>1, <1>2, QuietFields, QuietActs
  <2>2. /\ Acts(k, r, NULL) /\ r.tstat = k.tstat /\ r.raster = k.raster
        /\ r.enater = k.enater
    BY <2>1, RotateActs
  <2> HIDE DEF r
  <2>3. Acts(ker, r, NULL)  BY <2>1, <2>2, ActsTransitive
  <2>4. Ends(r)  BY <1>2, ReturnEnds DEF r
  <2>5. QED  BY <1>2, <2>2, <2>3, <2>4, PriorityCall DEF Quiet
<1>3. CASE \E pri \in PRI : rot_rdq(pri)
  <2>1. Quiet(ker, ker)  BY DEF Quiet
  <2>2. QED  BY <1>2, <1>3, <2>1 DEF rot_rdq
<1>4. CASE rot_rdq_self_locked
  <2> DEFINE k == [ker EXCEPT !.pending[Self] = IDLE]
  <2>1. nest = 0 /\ Self # NULL /\ ker.pending[Self].call # "none"
        /\ Return(rotate_ready_queue(k, ker.pending[Self].pri))
    BY <1>4 DEF rot_rdq_self_locked
  <2>2. ker.pending[Self].pri \in PRI  BY <1>1, <2>1, RunningTask, PendingType
  <2>3. Quiet(ker, k)  BY <1>1 DEF Quiet, Fields
  <2> HIDE DEF k
  <2>4. QED  BY <1>2, <2>1, <2>2, <2>3
<1>5. QED  BY <1>3, <1>4

LEMMA ReenableTerm ==
  ASSUME TaskOnly, IInv, IInv', TermInv, nest = 0, Self # NULL, NEW k \in KState,
         k = [ker EXCEPT !.enadsp = TRUE, !.ipm = FALSE], Reenable(k)
  PROVE  TermStep
<1> DEFINE s == set_dspflg(k)
<1>1. Good(s) /\ Self \in TSK /\ TSTAT_RUNNABLE(ker, Self)  BY Enable, RunningTask
<1>2. Fields(k) /\ Fields(ker)  BY StateFields DEF IInv, Good, SchedInv
<1>3. k.tstat = ker.tstat /\ k.raster = ker.raster /\ k.enater = ker.enater
  BY <1>2 DEF Fields
<1>4. /\ Fields(s) /\ s.dspflg /\ s.tstat = ker.tstat /\ s.raster = ker.raster
      /\ s.enater = ker.enater
  BY <1>2, <1>3, FlagFields
<1>5. IF s.raster[Self] /\ s.enater[Self] THEN ExitAndDispatch(task_terminate(s, Self))
      ELSE Return(s)
  BY DEF Reenable
<1> HIDE DEF s
<1>6. CASE s.raster[Self] /\ s.enater[Self]
  BY <1>1, <1>4, <1>5, <1>6, ExitCall
<1>7. CASE ~(s.raster[Self] /\ s.enater[Self])
  <2>1. Ends(s) /\ nest' = nest  BY <1>5, <1>7, ReturnEnds
  <2>2. /\ ker'.tstat = s.tstat /\ ker'.raster = s.raster /\ ker'.enater = s.enater
        /\ ker'.dspflg
    BY <1>4, <2>1, DispatchFields DEF Ends
  <2>3. QED  BY <1>1, <1>4, <1>7, <2>1, <2>2, Dispatching DEF TSTAT_RUNNABLE
<1>8. QED  BY <1>6, <1>7

\* Dispatching becomes impossible, or stays it.
LEMMA ForbidTerm ==
  ASSUME IInv, TermInv, NEW ena, NEW mask,
         ker' = [ker EXCEPT !.enadsp = ena, !.ipm = mask, !.dspflg = FALSE]
  PROVE  TermStep /\ FirstKept
<1>1. Fields(ker)  BY StateFields DEF IInv, Good, SchedInv
<1>2. /\ ker'.tstat = ker.tstat /\ ker'.raster = ker.raster /\ ker'.enater = ker.enater
      /\ ker'.ready_queue = ker.ready_queue /\ ker'.priority = ker.priority
      /\ ker'.runtsk = ker.runtsk /\ ~ker'.dspflg
  BY <1>1 DEF Fields
<1>3. TermInv'
  BY <1>2 DEF TermInv, TerminationOK, TSTAT_RUNNABLE
<1>4. QED  BY <1>2, <1>3 DEF TermStep, FirstKept

LEMMA DisDspTerm ==
  ASSUME IInv, IInv', TermInv, dis_dsp
  PROVE  TermStep /\ FirstKept
<1>1. Fields(ker) /\ ker \in KState  BY StateFields DEF IInv, Good, SchedInv
<1>2. ker' = [ker EXCEPT !.enadsp = FALSE, !.ipm = ker.ipm, !.dspflg = FALSE]
  BY <1>1 DEF dis_dsp, KState
<1>3. QED  BY <1>2, ForbidTerm

LEMMA EnaDspTerm ==
  ASSUME TaskOnly, IInv, IInv', TermInv, ena_dsp
  PROVE  TermStep
<1> DEFINE k == [ker EXCEPT !.enadsp = TRUE]
<1>1. /\ nest = 0 /\ Self # NULL /\ ker \in KState /\ ker.ipm \in BOOLEAN
      /\ Fields(ker)
  BY StateFields DEF IInv, Good, SchedInv, ena_dsp, TaskCall, TaskRuns, KState
<1>2. CASE ker.ipm
  <2>1. ker' = k  BY <1>2 DEF ena_dsp
  <2>2. Quiet(ker, k)  BY <1>1 DEF Quiet, Fields
  <2>3. QED  BY <2>1, <2>2, QuietCall DEF Ends
<1>3. CASE ~ker.ipm
  <2>1. Reenable(k)  BY <1>3 DEF ena_dsp
  <2>2. k = [ker EXCEPT !.enadsp = TRUE, !.ipm = FALSE]  BY <1>1, <1>3 DEF KState
  <2>3. k \in KState  BY <1>1 DEF KState
  <2> HIDE DEF k
  <2>4. QED  BY <1>1, <2>1, <2>2, <2>3, ReenableTerm
<1>4. QED  BY <1>2, <1>3

LEMMA ChgIpmTerm ==
  ASSUME TaskOnly, IInv, IInv', TermInv, NEW mask \in BOOLEAN, chg_ipm(mask)
  PROVE  TermStep
<1> DEFINE k == [ker EXCEPT !.ipm = mask]
<1>1. /\ nest = 0 /\ Self # NULL /\ ker \in KState /\ ker.enadsp \in BOOLEAN
  BY DEF IInv, Good, SchedInv, chg_ipm, TaskCall, TaskRuns, KState
<1>2. k \in KState  BY <1>1 DEF KState
<1>3. CASE ~mask /\ ker.enadsp
  <2>1. Reenable(k)  BY <1>3 DEF chg_ipm
  <2>2. k = [ker EXCEPT !.enadsp = TRUE, !.ipm = FALSE]  BY <1>1, <1>3 DEF KState
  <2> HIDE DEF k
  <2>3. QED  BY <1>1, <1>2, <2>1, <2>2, ReenableTerm
<1>4. CASE ~(~mask /\ ker.enadsp)
  <2>1. ker' = [k EXCEPT !.dspflg = FALSE]  BY <1>4 DEF chg_ipm
  <2>2. [k EXCEPT !.dspflg = FALSE]
          = [ker EXCEPT !.enadsp = ker.enadsp, !.ipm = mask, !.dspflg = FALSE]
    BY <1>1 DEF KState
  <2>3. QED  BY <2>1, <2>2, ForbidTerm
<1>5. QED  BY <1>3, <1>4

----------------------------------------------------------------------------
(* Termination and precedence: every step, and the initial state.          *)

LEMMA InterruptTerm ==
  ASSUME IInv, IInv', TermInv, InterruptStep
  PROVE  TermStep /\ FirstKept
<1>1. CASE \E t \in TSK : Timeout(t)
  BY <1>1, TimeoutTerm
<1>2. CASE IntEnter \/ IntExit
  <2>1. Quiet(ker, ker)  BY DEF Quiet
  <2>2. nest \in Nat  BY MaxnestAssumption DEF IInv
  <2>3. Ends(ker)  BY <1>2, <2>2 DEF IntEnter, IntExit, Ends
  <2>4. QED  BY <2>1, <2>3, QuietCall
<1>3. QED  BY <1>1, <1>2 DEF InterruptStep

LEMMA TaskStepTerm ==
  ASSUME TaskOnly, IInv, IInv', TermInv, TaskStep
  PROVE  TermStep /\ (~MovesTasks => FirstKept)
<1>1. CASE \E atr \in {"TA_NULL", "TA_NOACTQUE"}, act \in BOOLEAN, pri \in PRI :
             acre_tsk(atr, act, pri)
  BY <1>1, AcreTskTerm
<1>2. ASSUME NEW t \in TSK,
             \/ del_tsk(t) \/ act_tsk(t) \/ can_act(t)
             \/ wup_tsk(t) \/ can_wup(t) \/ rel_wai(t)
             \/ sus_tsk(t) \/ rsm_tsk(t)
             \/ ras_ter(t) \/ ter_tsk(t)
             \/ chg_pri_ini(t)
             \/ \E pri \in PRI : chg_pri(t, pri)
      PROVE  TermStep /\ (~MovesTasks => FirstKept)
  <2>1. CASE \E pri \in PRI : chg_pri(t, pri)
    BY <2>1, ChgPriTerm DEF MovesTasks
  <2>2. CASE del_tsk(t) \/ can_act(t) \/ can_wup(t) \/ chg_pri_ini(t)
    BY <2>2, QuietCallsTerm
  <2>3. QED
    BY <1>2, <2>1, <2>2, ActTskTerm, WupTskTerm, RelWaiTerm, SusTskTerm, RsmTskTerm,
       RasTerTerm, TerTskTerm
<1>3. CASE chg_pri_ini_locked  BY <1>3, ChgPriIniLockedTerm DEF MovesTasks
<1>4. CASE (\E tmo \in BOOLEAN : slp_tsk(tmo)) \/ dly_tsk
  BY <1>4, SleepTerm
<1>5. CASE ext_tsk \/ ena_ter
  BY <1>5, ExtTskTerm, EnaTerTerm DEF MovesTasks
<1>6. CASE (\E pri \in PRI : rot_rdq(pri)) \/ rot_rdq_self_locked
  BY <1>6, RotRdqTerm DEF MovesTasks
<1>7. CASE rot_rdq_self \/ loc_cpu \/ unl_cpu
  BY <1>7, QuietCallsTerm
<1>8. CASE ena_dsp \/ \E mask \in BOOLEAN : chg_ipm(mask)
  BY <1>8, EnaDspTerm, ChgIpmTerm DEF MovesTasks
<1>9. CASE dis_ter \/ dis_dsp
  BY <1>9, DisTerTerm, DisDspTerm
<1>10. QED
  BY <1>1, <1>2, <1>3, <1>4, <1>5, <1>6, <1>7, <1>8, <1>9 DEF TaskStep

LEMMA StepTerm ==
  ASSUME TaskOnly, IInv, TermInv, [Next]_vars
  PROVE  TermStep /\ (~MovesTasks => FirstKept)
<1>1. IInv'  BY StepKeeps
<1>2. CASE UNCHANGED vars  BY <1>1, <1>2, QuietCallsTerm
<1>3. CASE Next
  BY <1>1, <1>3, NoObjectSteps, TaskStepTerm, InterruptTerm DEF Next
<1>4. QED  BY <1>2, <1>3

LEMMA InitTerm ==
  ASSUME Init
  PROVE  TermInv
<1>1. Good(ker) /\ ker.runtsk = ker.schedtsk  BY InitInvariant DEF IInv, Init
<1>2. ker.runtsk # NULL => TSTAT_RUNNABLE(ker, ker.runtsk)
  BY <1>1, TaskContextRuns
<1>3. \A t \in TSK : ~ker.raster[t]
  BY DEF Init, InitialKState
<1>4. QED  BY <1>2, <1>3 DEF TermInv, TerminationOK

LEMMA TermInvariance ==
  ASSUME TaskOnly
  PROVE  Spec => []TermInv
<1>1. Init => TermInv  BY InitTerm
<1>2. IInv /\ TermInv /\ [Next]_vars => TermInv'  BY StepTerm DEF TermStep
<1>3. QED  BY <1>1, <1>2, Invariance, PTL DEF Spec

----------------------------------------------------------------------------
(* The theorems.                                                           *)

\* A request to terminate a task that is put off (ras_ter) is pending only while the
\* task forbids its termination or, being the running task, cannot be dispatched away;
\* the task is neither waiting nor suspended: the request is honoured as soon as ena_ter,
\* ena_dsp or chg_ipm make that possible.
THEOREM TerminationCorrect ==
  ASSUME TaskOnly
  PROVE  Spec => []TerminationOK
<1>1. TermInv => TerminationOK  BY DEF TermInv
<1>2. QED  BY <1>1, TermInvariance, PTL

\* While dispatching stays impossible no other task gets the processor, and a
\* task that loses it without a call that moves it keeps the first place among the tasks of
\* its priority.
THEOREM PlacesAreKept ==
  ASSUME TaskOnly
  PROVE  Spec => PlacesKept
<1>1. ASSUME IInv, TermInv, [Next]_vars
      PROVE  [~ker.dspflg /\ ~ker'.dspflg => ker'.runtsk = ker.runtsk]_vars
  BY <1>1, StepTerm DEF TermStep
<1>2. ASSUME IInv, TermInv, [Next]_vars
      PROVE  [\A t \in TSK :
                (/\ t = ker.runtsk /\ ker.dspflg /\ Head(ker.ready_queue[ker.priority[t]]) = t
                 /\ TSTAT_RUNNABLE(ker', t) /\ ~MovesTasks)
                => Head(ker'.ready_queue[ker'.priority[t]]) = t]_vars
  BY <1>2, StepTerm DEF FirstKept
<1>3. Spec => NoPreemption
  BY <1>1, Invariance, TermInvariance, PTL DEF Spec, NoPreemption
<1>4. Spec => PreemptedKeepsPlace
  BY <1>2, Invariance, TermInvariance, PTL DEF Spec, PreemptedKeepsPlace
<1>5. QED  BY <1>3, <1>4, PTL DEF PlacesKept
================================================================================
