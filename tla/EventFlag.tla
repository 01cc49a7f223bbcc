----------------------------- MODULE EventFlag -----------------------------
(***************************************************************************)
(* The event flags of the kernel (eventflag.c) on top of module Kernel: a  *)
(* bit pattern is a set of bits.  set_flg and clr_flg of this kernel       *)
(* accept callers that have locked the CPU and keep the lock; a task that  *)
(* loses the processor in set_flg gets the lock back with the processor.   *)
(***************************************************************************)
EXTENDS Kernel

CONSTANTS
  FLG,      \* event flag IDs
  BITS      \* the bits of a pattern (FLGPTN)

\* flginib_table of the flags created statically, and the bits the programs use.
FLGINI(c) == c.flgini
Used(c) == c.bits

ASSUME FlgAssumption ==
  /\ FLG \subseteq WOBJ
  /\ \A c \in CFG : DOMAIN FLGINI(c) = FLG \cap DOMAIN WOBJINI(c) /\ Used(c) \subseteq BITS
ASSUME FlginiAssumption ==
  \A c \in CFG :
    FLGINI(c) \in [DOMAIN FLGINI(c) -> [wmul : BOOLEAN, clr : BOOLEAN, iflgptn : SUBSET BITS]]

VARIABLE flg    \* the fields of the FLGCBs and FLGINIBs, and the WINFO_FLGs

flgvars == <<ker, nest, cpulock, flg>>

MODE == {"TWF_ORW", "TWF_ANDW"}
NOWINFO == [waiptn |-> {}, wfmode |-> "TWF_ORW"]

FState ==
  [wmul : [FLG -> BOOLEAN], clr : [FLG -> BOOLEAN],   \* TA_WMUL, TA_CLR of flgatr
   iflgptn : [FLG -> SUBSET BITS], flgptn : [FLG -> SUBSET BITS],
   free_flgcb : Seq(FLG),
   winfo_flg : [TSK -> [waiptn : SUBSET BITS, wfmode : MODE]]]

FlgInit ==
  /\ Init
  /\ \E free \in Orders(FLG \ DOMAIN FLGINI(ker.cfg)) :
       flg = LET ini == [f \in FLG |-> IF f \in DOMAIN FLGINI(ker.cfg) THEN FLGINI(ker.cfg)[f]
                                       ELSE [wmul |-> FALSE, clr |-> FALSE, iflgptn |-> {}]]
             IN  [wmul |-> [f \in FLG |-> ini[f].wmul], clr |-> [f \in FLG |-> ini[f].clr],
                  iflgptn |-> [f \in FLG |-> ini[f].iflgptn],
                  flgptn |-> [f \in FLG |-> ini[f].iflgptn],
                  free_flgcb |-> free, winfo_flg |-> [t \in TSK |-> NOWINFO]]

----------------------------------------------------------------------------
FlgExists(f) == ker.wobjatr[f] # "TA_NOEXS"

\* The condition of check_flg_cond; a flag with TA_CLR is cleared when it holds.
FlgCond(ptn, w) ==
  IF w.wfmode = "TWF_ORW" THEN ptn \cap w.waiptn # {} ELSE w.waiptn \subseteq ptn

AfterCond(g, f) == IF g.clr[f] THEN [g EXCEPT !.flgptn[f] = {}] ELSE g

\* The WINFO_FLG of a task is on its stack: once its call has returned and
\* delivered the pattern, the next step is without it.
Frames ==
  [flg EXCEPT !.winfo_flg = [t \in TSK |-> IF ker.winfo[t] = "none" THEN NOWINFO ELSE @[t]]]

FlgReturn(k, g) == Return(k) /\ flg' = g

acre_flg(atr, wmul, clr, iflgptn) ==
  /\ TaskCall("acre_flg")
  /\ flg.free_flgcb # <<>>
  /\ LET f == Head(flg.free_flgcb)
     IN  FlgReturn([ker EXCEPT !.wobjatr[f] = atr, !.wait_queue[f] = <<>>],
                   [Frames EXCEPT !.free_flgcb = Tail(@), !.wmul[f] = wmul, !.clr[f] = clr,
                                  !.iflgptn[f] = iflgptn, !.flgptn[f] = iflgptn])

\* Fault: the tasks that wait stay in the queue.
del_flg_waiters(f) ==
  /\ TaskCall("del_flg")
  /\ FlgExists(f) /\ f \notin DOMAIN FLGINI(ker.cfg)
  /\ FlgReturn([ker EXCEPT !.wobjatr[f] = "TA_NOEXS"],
               [Frames EXCEPT !.free_flgcb = Append(@, f)])

del_flg(f) ==
  /\ TaskCall("del_flg")
  /\ FlgExists(f) /\ f \notin DOMAIN FLGINI(ker.cfg)
  /\ FlgReturn([init_wait_queue(ker, f) EXCEPT !.wobjatr[f] = "TA_NOEXS"],
               [Frames EXCEPT !.free_flgcb = Append(@, f)])

\* Fault: the task stays in the queue.
Release_queued(a, f, t) ==
  [k |-> wait_complete(a.k, t),
   g |-> AfterCond([a.g EXCEPT !.winfo_flg[t].waiptn = a.g.flgptn[f]], f),
   over |-> a.g.clr[f]]

\* Fault: the pattern is copied after it has been cleared.
Release_cleared(a, f, t) ==
  [k |-> wait_complete([a.k EXCEPT !.wait_queue[f] = queue_delete(@, t)], t),
   g |-> LET g == AfterCond(a.g, f) IN [g EXCEPT !.winfo_flg[t].waiptn = g.flgptn[f]],
   over |-> a.g.clr[f]]

\* Fault: the walk ends after the first release whatever the attribute.
Release_first(a, f, t) ==
  [k |-> wait_complete([a.k EXCEPT !.wait_queue[f] = queue_delete(@, t)], t),
   g |-> AfterCond([a.g EXCEPT !.winfo_flg[t].waiptn = a.g.flgptn[f]], f),
   over |-> TRUE]

\* The wait of t for f ends with the pattern that released it; the walk through
\* the queue is over when TA_CLR has cleared the pattern.
Release(a, f, t) ==
  [k |-> wait_complete([a.k EXCEPT !.wait_queue[f] = queue_delete(@, t)], t),
   g |-> AfterCond([a.g EXCEPT !.winfo_flg[t].waiptn = a.g.flgptn[f]], f),
   over |-> a.g.clr[f]]

\* The walk of set_flg through the wait queue.
ReleaseWaiters(k, g, f) ==
  LET q == k.wait_queue[f]
      after[n \in 0 .. Len(q)] ==
        IF n = 0 THEN [k |-> k, g |-> g, over |-> FALSE]
        ELSE LET a == after[n - 1]
             IN  IF ~a.over /\ FlgCond(a.g.flgptn[f], a.g.winfo_flg[q[n]])
                 THEN Release(a, f, q[n]) ELSE a
  IN  after[Len(q)]

\* set_flg and clr_flg have no check of the context or of the CPU lock.
AnyCaller(c) == c \in Calls(ker.cfg) /\ (nest > 0 \/ TaskRuns)

\* Fault: set_flg leaves the dispatch to unl_cpu, which does not dispatch.
SetFlgDispatches_unlocked(k) == nest = 0 /\ ~cpulock /\ k.runtsk # k.schedtsk

SetFlgDispatches(k) == nest = 0 /\ k.runtsk # k.schedtsk

set_flg(f, setptn) ==
  /\ AnyCaller("set_flg")
  /\ FlgExists(f)
  /\ LET a == ReleaseWaiters(ker, [Frames EXCEPT !.flgptn[f] = @ \cup setptn], f)
         interrupted == SetFlgDispatches(a.k)
         in == [call |-> "set_flg", tsk |-> Self, pri |-> 0]
     IN  /\ IF interrupted /\ cpulock
            THEN ker' = dispatch([a.k EXCEPT !.pending[Self] = in])
            ELSE ker' = IF interrupted THEN dispatch(a.k) ELSE a.k
         /\ cpulock' = (cpulock /\ ~interrupted)
         /\ flg' = a.g
         /\ UNCHANGED nest

\* A task is about to return from dispatch() in set_flg, with the CPU locked.
InSetFlg == nest = 0 /\ Self # NULL /\ ker.pending[Self].call = "set_flg"

\* set_flg does not unlock a CPU that it found locked.
set_flg_return ==
  /\ InSetFlg
  /\ ker' = [ker EXCEPT !.pending[Self] = IDLE]
  /\ cpulock' = TRUE
  /\ flg' = Frames
  /\ UNCHANGED nest

clr_flg(f, clrptn) ==
  /\ AnyCaller("clr_flg")
  /\ FlgExists(f)
  /\ flg' = [Frames EXCEPT !.flgptn[f] = @ \cap clrptn]
  /\ UNCHANGED vars

\* E_ILUSE: another task waits for a flag without TA_WMUL.
MayWait(f) == flg.wmul[f] \/ ker.wait_queue[f] = <<>>

\* wai_flg, and twai_flg when tmo holds.
wai_flg(f, w, tmo) ==
  /\ DispatchCall("wai_flg")
  /\ FlgExists(f) /\ ~ker.raster[Self] /\ MayWait(f)
  /\ \/ FlgCond(flg.flgptn[f], w) /\ FlgReturn(ker, AfterCond(Frames, f))
     \/ /\ ~FlgCond(flg.flgptn[f], w)
        /\ FlgReturn(wobj_make_wait(ker, f, "FLG", tmo), [Frames EXCEPT !.winfo_flg[Self] = w])

\* pol_flg, and twai_flg with TMO_POL.
pol_flg(f, w) ==
  /\ TaskCall("pol_flg")
  /\ FlgExists(f) /\ MayWait(f) /\ FlgCond(flg.flgptn[f], w)
  /\ FlgReturn(ker, AfterCond(Frames, f))

ini_flg(f) ==
  /\ TaskCall("ini_flg")
  /\ FlgExists(f)
  /\ FlgReturn(init_wait_queue(ker, f), [Frames EXCEPT !.flgptn[f] = flg.iflgptn[f]])

Patterns == SUBSET Used(ker.cfg)
WAITS == [waiptn : Patterns \ {{}}, wfmode : MODE]

FlgStep ==
  \/ \E atr \in {"TA_TFIFO", "TA_TPRI"}, wmul, clr \in BOOLEAN, iflgptn \in Patterns :
       acre_flg(atr, wmul, clr, iflgptn)
  \/ \E f \in FLG :
       \/ del_flg(f) \/ ini_flg(f)
       \/ \E ptn \in Patterns : set_flg(f, ptn) \/ clr_flg(f, ptn)
       \/ \E w \in WAITS : pol_flg(f, w) \/ \E tmo \in BOOLEAN : wai_flg(f, w, tmo)
  \/ set_flg_return

\* Nothing happens between a dispatch to a task in set_flg and its return.
FlgNext == FlgStep \/ (~InSetFlg /\ Next /\ flg' = Frames)

FlgSpec == FlgInit /\ [][FlgNext]_flgvars

----------------------------------------------------------------------------
\* The types, and the free list: it holds the flags that do not exist, once, and
\* nobody waits for one, since the list is linked through the wait queues.
FlgTypeOK ==
  /\ flg \in FState /\ ker.pending \in [TSK -> PENDING \cup {IDLE}]
  /\ Distinct(flg.free_flgcb)
  /\ \A f \in FLG : InQueue(flg.free_flgcb, f) <=> ~FlgExists(f)
  /\ \A f \in FLG : ~FlgExists(f) => \A t \in TSK : ker.wobj[t] # f

\* Nobody waits for a pattern that is set, whoever set it in whatever context,
\* also when TA_CLR takes the pattern away after the first release and when the
\* flag is reinitialised; and a flag without TA_WMUL has one waiter at most.
NobodyOverlooked ==
  \A f \in FLG : /\ \A i \in DOMAIN ker.wait_queue[f] :
                      ~FlgCond(flg.flgptn[f], flg.winfo_flg[ker.wait_queue[f][i]])
                 /\ flg.wmul[f] \/ Len(ker.wait_queue[f]) <= 1

\* The tasks set_flg releases get a pattern for which their condition holds, all
\* the same one; if the flag has TA_CLR only one is released; and no task whose
\* condition holds for that pattern is passed over by a task behind it.
ReleaseOK ==
  [][\A f \in FLG, ptn \in SUBSET BITS : set_flg(f, ptn) =>
       LET q == ker.wait_queue[f]
           Released(i) == ker'.tstat[q[i]].wai # "FLG"
           got(i) == flg'.winfo_flg[q[i]].waiptn
       IN  \A i, j \in DOMAIN q : Released(i) =>
             /\ FlgCond(got(i), flg.winfo_flg[q[i]])
             /\ Released(j) => got(j) = got(i) /\ (flg.clr[f] => i = j)
             /\ j < i /\ FlgCond(got(i), flg.winfo_flg[q[j]]) => Released(j)]_flgvars

\* The comment of unl_cpu: no service call that needs a dispatch can be called
\* while the CPU is locked.  set_flg of this kernel can.
NoDispatchWhileLocked == [][cpulock => ker'.runtsk = ker.runtsk]_flgvars
=============================================================================
