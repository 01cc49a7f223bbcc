----------------------------- MODULE MemoryPool -----------------------------
(***************************************************************************)
(* The fixed-size memory pools of the kernel (mempfix.c) on top of module  *)
(* Kernel.  A block is known by its index; blkcnt stands for INDEX_NULL.   *)
(***************************************************************************)
EXTENDS Kernel

CONSTANTS
  MPF,     \* IDs of the pools
  MAXBLK   \* bound of the model on blkcnt

\* blkcnt of the pools created statically.
MPFINI(c) == c.mpfini

ASSUME MpfAssumption ==
  /\ MPF \subseteq WOBJ
  /\ \A c \in CFG : /\ DOMAIN MPFINI(c) = MPF \cap DOMAIN WOBJINI(c)
                           /\ MPFINI(c) \in [DOMAIN MPFINI(c) -> 1 .. MAXBLK]

VARIABLES
  mpf,      \* the control and management blocks of each pool
  holders,  \* the tasks each block was given to and that have not returned it
  free_mpfcb

mpfvars == <<ker, nest, cpulock, mpf, holders, free_mpfcb>>

\* Different from every index and from INDEX_NULL.
INDEX_ALLOC == MAXBLK + 1

FullPool(n) == [blkcnt |-> n, fblkcnt |-> n, unused |-> 0, freelist |-> n,
                next |-> [b \in 0 .. n - 1 |-> n]]

\* Every block belongs to the pool.
Unheld == [b \in 0 .. MAXBLK - 1 |-> {}]

MpfInit ==
  /\ Init
  /\ mpf = [p \in MPF |-> FullPool(IF p \in DOMAIN MPFINI(ker.cfg) THEN MPFINI(ker.cfg)[p] ELSE 1)]
  /\ holders = [p \in MPF |-> Unheld]
  /\ free_mpfcb \in Orders(MPF \ DOMAIN MPFINI(ker.cfg))

MpfExists(p) == ker.wobjatr[p] # "TA_NOEXS"

----------------------------------------------------------------------------
\* The block that get_mpf_block takes, and what it leaves.
FreeBlock(c) == IF c.freelist # c.blkcnt THEN c.freelist ELSE c.unused

get_mpf_block(c) ==
  LET d == [c EXCEPT !.next[FreeBlock(c)] = INDEX_ALLOC, !.fblkcnt = @ - 1]
  IN  IF c.freelist # c.blkcnt THEN [d EXCEPT !.freelist = c.next[@]]
      ELSE [d EXCEPT !.unused = @ + 1]

\* The caller gets a block at once.
Get(p) ==
  /\ mpf[p].fblkcnt > 0
  /\ mpf' = [mpf EXCEPT ![p] = get_mpf_block(@)]
  /\ holders' = [holders EXCEPT ![p][FreeBlock(mpf[p])] = @ \cup {Self}]
  /\ UNCHANGED vars

acre_mpf(atr, n) ==
  /\ TaskCall("acre_mpf")
  /\ free_mpfcb # <<>>
  /\ LET p == Head(free_mpfcb)
     IN  /\ ker' = [ker EXCEPT !.wobjatr[p] = atr, !.wait_queue[p] = <<>>]
         /\ mpf' = [mpf EXCEPT ![p] = FullPool(n)]
         /\ holders' = [holders EXCEPT ![p] = Unheld]
  /\ free_mpfcb' = Tail(free_mpfcb)
  /\ UNCHANGED <<nest, cpulock>>

\* The blocks that tasks still have are gone with the pool.
del_mpf(p) ==
  /\ TaskCall("del_mpf")
  /\ MpfExists(p) /\ p \notin DOMAIN MPFINI(ker.cfg)
  /\ Return([init_wait_queue(ker, p) EXCEPT !.wobjatr[p] = "TA_NOEXS"])
  /\ free_mpfcb' = Append(free_mpfcb, p)
  /\ holders' = [holders EXCEPT ![p] = Unheld]
  /\ UNCHANGED mpf

\* get_mpf, and tget_mpf when tmo holds.
get_mpf(p, tmo) ==
  /\ DispatchCall("get_mpf")
  /\ MpfExists(p) /\ ~ker.raster[Self]
  /\ \/ Get(p)
     \/ /\ mpf[p].fblkcnt = 0
        /\ Return(wobj_make_wait(ker, p, "MPF", tmo))
        /\ UNCHANGED <<mpf, holders>>
  /\ UNCHANGED free_mpfcb

\* pget_mpf, and tget_mpf with TMO_POL.
pget_mpf(p) ==
  /\ TaskCall("pget_mpf")
  /\ MpfExists(p)
  /\ Get(p)
  /\ UNCHANGED free_mpfcb

\* Fault: the next task in the queue does not get the returned block.
rel_mpf_free(p, b) ==
  /\ TaskCall("rel_mpf")
  /\ MpfExists(p) /\ b < mpf[p].unused /\ mpf[p].next[b] = INDEX_ALLOC
  /\ mpf' = [mpf EXCEPT ![p].fblkcnt = @ + 1, ![p].freelist = b, ![p].next[b] = mpf[p].freelist]
  /\ holders' = [holders EXCEPT ![p][b] = {}]
  /\ UNCHANGED <<vars, free_mpfcb>>

\* Fault: the next task in the queue gets the block, which becomes free as well.
rel_mpf_both(p, b) ==
  /\ TaskCall("rel_mpf")
  /\ MpfExists(p) /\ b < mpf[p].unused /\ mpf[p].next[b] = INDEX_ALLOC
  /\ mpf' = [mpf EXCEPT ![p].fblkcnt = @ + 1, ![p].freelist = b, ![p].next[b] = mpf[p].freelist]
  /\ LET q == ker.wait_queue[p]
     IN  /\ holders' = [holders EXCEPT ![p][b] = IF q = <<>> THEN {} ELSE {Head(q)}]
         /\ Return(IF q = <<>> THEN ker ELSE wait_complete([ker EXCEPT !.wait_queue[p] = Tail(@)], Head(q)))
  /\ UNCHANGED free_mpfcb

\* Any task may return a block, also one that another task was given; E_PAR
\* refuses a block that is not allocated.
rel_mpf(p, b) ==
  /\ TaskCall("rel_mpf")
  /\ MpfExists(p) /\ b < mpf[p].unused /\ mpf[p].next[b] = INDEX_ALLOC
  /\ \/ /\ ker.wait_queue[p] # <<>>
        /\ LET t == Head(ker.wait_queue[p])
           IN  /\ Return(wait_complete([ker EXCEPT !.wait_queue[p] = Tail(@)], t))
               /\ holders' = [holders EXCEPT ![p][b] = {t}]
        /\ UNCHANGED mpf
     \/ /\ ker.wait_queue[p] = <<>>
        /\ mpf' = [mpf EXCEPT ![p].fblkcnt = @ + 1, ![p].freelist = b,
                              ![p].next[b] = mpf[p].freelist]
        /\ holders' = [holders EXCEPT ![p][b] = {}]
        /\ UNCHANGED vars
  /\ UNCHANGED free_mpfcb

\* Fault: the list of free blocks is kept.
ini_mpf_freelist(p) ==
  /\ TaskCall("ini_mpf")
  /\ MpfExists(p)
  /\ mpf' = [mpf EXCEPT ![p].fblkcnt = mpf[p].blkcnt, ![p].unused = 0]
  /\ holders' = [holders EXCEPT ![p] = Unheld]
  /\ Return(init_wait_queue(ker, p))
  /\ UNCHANGED free_mpfcb

\* The marks of the blocks stay; only those below unused are looked at.
ini_mpf(p) ==
  /\ TaskCall("ini_mpf")
  /\ MpfExists(p)
  /\ mpf' = [mpf EXCEPT ![p].fblkcnt = mpf[p].blkcnt, ![p].unused = 0, ![p].freelist = mpf[p].blkcnt]
  /\ holders' = [holders EXCEPT ![p] = Unheld]
  /\ Return(init_wait_queue(ker, p))
  /\ UNCHANGED free_mpfcb

MpfStep ==
  \/ \E atr \in {"TA_TFIFO", "TA_TPRI"}, n \in 1 .. MAXBLK : acre_mpf(atr, n)
  \/ \E p \in MPF : \/ del_mpf(p) \/ pget_mpf(p) \/ ini_mpf(p)
                    \/ \E tmo \in BOOLEAN : get_mpf(p, tmo)
                    \/ \E b \in 0 .. mpf[p].blkcnt - 1 : rel_mpf(p, b)

MpfNext == MpfStep \/ (Next /\ UNCHANGED <<mpf, holders, free_mpfcb>>)

MpfSpec == MpfInit /\ [][MpfNext]_mpfvars

----------------------------------------------------------------------------
\* The blocks of the list of free blocks, in its order.
FreeList(c) ==
  LET from[n \in 0 .. c.blkcnt, b \in 0 .. c.blkcnt] ==
        IF n = 0 \/ b = c.blkcnt \/ c.next[b] = INDEX_ALLOC THEN {}
        ELSE {b} \cup from[n - 1, c.next[b]]
  IN  from[c.blkcnt, c.freelist]

\* The count of the free blocks is right: it is the number of the blocks in the
\* list and of those never used; every other block is marked as allocated.
PoolOK ==
  \A p \in MPF : MpfExists(p) => LET c == mpf[p] IN
    /\ c.unused \in 0 .. c.blkcnt /\ FreeList(c) \subseteq 0 .. c.unused - 1
    /\ c.fblkcnt = Cardinality(FreeList(c)) + c.blkcnt - c.unused
    /\ \A b \in 0 .. c.unused - 1 : c.next[b] = INDEX_ALLOC <=> b \notin FreeList(c)

\* No block is given to a task while another one has it, and exactly the
\* blocks that are not free have been given away.
BlocksOnce ==
  \A p \in MPF : MpfExists(p) =>
    \A b \in 0 .. mpf[p].blkcnt - 1 :
      /\ \A t, u \in holders[p][b] : t = u
      /\ holders[p][b] # {} <=> b < mpf[p].unused /\ b \notin FreeList(mpf[p])

\* No task waits while a block is free, whichever way waits end and blocks
\* come back.
NoIdleBlock ==
  \A p \in MPF : ker.wait_queue[p] # <<>> => MpfExists(p) /\ mpf[p].fblkcnt = 0

\* The free list is what the count says, a block has one user, and none lies idle
\* while somebody waits (mempfix.c).
PoolsOK == PoolOK /\ BlocksOnce /\ NoIdleBlock
=============================================================================
