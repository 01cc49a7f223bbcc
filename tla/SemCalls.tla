------------------------------ MODULE SemCalls ------------------------------
(***************************************************************************)
(* The semaphore service calls (semaphore.c).                              *)
(***************************************************************************)
EXTENDS KernelContext

SemExists(s) == ker.wobjatr[s] # "TA_NOEXS"

acre_sem(s, atr, isem, max) ==
  /\ TaskCall("acre_sem")
  /\ isem <= max /\ 1 <= max /\ max <= MAXSEM
  /\ ker.free_semcb # <<>> /\ s = Head(ker.free_semcb)
  /\ ker' = [ker EXCEPT !.free_semcb = Tail(@), !.wobjatr[s] = atr,
                        !.isemcnt[s] = isem, !.maxsem[s] = max,
                        !.wait_queue[s] = <<>>, !.semcnt[s] = isem]
  /\ UNCHANGED <<nest, cpulock>>

del_sem(s) ==
  /\ TaskCall("del_sem")
  /\ SemExists(s) /\ s \notin SSEM(ker.cfg)
  /\ Return([init_wait_queue(ker, s) EXCEPT !.wobjatr[s] = "TA_NOEXS",
                                            !.free_semcb = Append(@, s)])

sig_sem(s) ==
  /\ AnyCall("sig_sem")
  /\ SemExists(s)
  /\ \/ /\ ker.wait_queue[s] # <<>>
        /\ Return(wait_complete([ker EXCEPT !.wait_queue[s] = Tail(@)],
                                Head(ker.wait_queue[s])))
     \/ /\ ker.wait_queue[s] = <<>> /\ ker.semcnt[s] < ker.maxsem[s]
        /\ ker' = [ker EXCEPT !.semcnt[s] = @ + 1]
        /\ UNCHANGED <<nest, cpulock>>

\* wai_sem, and twai_sem when tmo holds.
wai_sem(s, tmo) ==
  /\ DispatchCall("wai_sem")
  /\ SemExists(s) /\ ~ker.raster[Self]
  /\ \/ /\ ker.semcnt[s] >= 1
        /\ ker' = [ker EXCEPT !.semcnt[s] = @ - 1]
        /\ UNCHANGED <<nest, cpulock>>
     \/ ker.semcnt[s] = 0 /\ Return(wobj_make_wait(ker, s, "SEM", tmo))

\* pol_sem, and twai_sem with TMO_POL.
pol_sem(s) ==
  /\ TaskCall("pol_sem")
  /\ SemExists(s) /\ ker.semcnt[s] >= 1
  /\ ker' = [ker EXCEPT !.semcnt[s] = @ - 1]
  /\ UNCHANGED <<nest, cpulock>>

\* Fault: the tasks that wait are not released.
ini_sem_waiters(s) ==
  /\ TaskCall("ini_sem")
  /\ SemExists(s)
  /\ Return([ker EXCEPT !.semcnt[s] = ker.isemcnt[s]])

ini_sem(s) ==
  /\ TaskCall("ini_sem")
  /\ SemExists(s)
  /\ Return([init_wait_queue(ker, s) EXCEPT !.semcnt[s] = ker.isemcnt[s]])

SemStep ==
  \E s \in SEM :
    \/ \E atr \in {"TA_TFIFO", "TA_TPRI"}, isem \in 0 .. MAXSEM, max \in 1 .. MAXSEM :
         acre_sem(s, atr, isem, max)
    \/ del_sem(s) \/ sig_sem(s) \/ pol_sem(s) \/ ini_sem(s)
    \/ \E tmo \in BOOLEAN : wai_sem(s, tmo)
=============================================================================
