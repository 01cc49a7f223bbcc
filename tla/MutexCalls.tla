----------------------------- MODULE MutexCalls -----------------------------
(***************************************************************************)
(* The mutex service calls (mutex.c), with the priority ceiling protocol.  *)
(***************************************************************************)
EXTENDS KernelContext

MtxExists(m) == ker.wobjatr[m] # "TA_NOEXS"

acre_mtx(m, atr, ceil) ==
  /\ TaskCall("acre_mtx")
  /\ ker.free_mtxcb # <<>> /\ m = Head(ker.free_mtxcb)
  /\ ker' = [ker EXCEPT !.free_mtxcb = Tail(@), !.wobjatr[m] = atr, !.ceilpri[m] = ceil,
                        !.wait_queue[m] = <<>>, !.loctsk[m] = NULL]
  /\ UNCHANGED <<nest, cpulock>>

\* The waiters leave with E_DLT, and the task that has the mutex loses it.
TakeBack(k, m) ==
  LET w == init_wait_queue(k, m)
      t == w.loctsk[m]
  IN  IF t = NULL THEN w ELSE mutex_drop_priority(UnlinkMutex(w, t, m), t, m)

\* p_loctsk of the block is left as it is: acre_mtx sets it.
del_mtx(m) ==
  /\ TaskCall("del_mtx")
  /\ MtxExists(m) /\ m \notin SMTX(ker.cfg)
  /\ Return([TakeBack(ker, m) EXCEPT !.wobjatr[m] = "TA_NOEXS",
                                     !.free_mtxcb = Append(@, m)])

\* E_ILUSE: the base priority of the task is above the ceiling.
CeilingAllows(m) == MTX_CEILING(ker, m) => ker.bpriority[Self] >= ker.ceilpri[m]

\* The assertion at the end of a successful lock: no dispatch is necessary.
Acquired(m) ==
  LET k == mutex_acquire(ker, Self, m)
  IN  /\ ker' = [k EXCEPT !.failed = @ \/ k.runtsk # k.schedtsk]
      /\ UNCHANGED <<nest, cpulock>>

\* loc_mtx, and tloc_mtx when tmo holds.
loc_mtx(m, tmo) ==
  /\ DispatchCall("loc_mtx")
  /\ MtxExists(m) /\ ~ker.raster[Self] /\ CeilingAllows(m)
  /\ \/ ker.loctsk[m] = NULL /\ Acquired(m)
     \/ /\ ker.loctsk[m] \notin {NULL, Self}
        /\ Return(wobj_make_wait(ker, m, "MTX", tmo))

\* ploc_mtx, and tloc_mtx with TMO_POL.
ploc_mtx(m) ==
  /\ TaskCall("ploc_mtx")
  /\ MtxExists(m) /\ CeilingAllows(m)
  /\ ker.loctsk[m] = NULL /\ Acquired(m)

unl_mtx(m) ==
  /\ TaskCall("unl_mtx")
  /\ MtxExists(m)
  /\ ker.lastmtx[Self] # <<>> /\ m = Head(ker.lastmtx[Self])
  /\ Return(mutex_release(
       mutex_drop_priority([ker EXCEPT !.lastmtx[Self] = Tail(@)], Self, m), m))

ini_mtx(m) ==
  /\ TaskCall("ini_mtx")
  /\ MtxExists(m)
  /\ Return([TakeBack(ker, m) EXCEPT !.loctsk[m] = NULL])

MutexStep ==
  \E m \in MTX :
    \/ \E atr \in {"TA_TFIFO", "TA_TPRI", "TA_CEILING"}, ceil \in PRI : acre_mtx(m, atr, ceil)
    \/ del_mtx(m) \/ ploc_mtx(m) \/ unl_mtx(m) \/ ini_mtx(m)
    \/ \E tmo \in BOOLEAN : loc_mtx(m, tmo)
=============================================================================
