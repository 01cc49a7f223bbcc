---------------------------- MODULE LockAdapter ----------------------------
(***************************************************************************)
(* The locks of the Azure utility library on mutexes of the kernel         *)
(* (lock_toppers.c).  A call is made of kernel calls and of accesses to    *)
(* the table "mutexs"; between them another task may run.                  *)
(***************************************************************************)
EXTENDS Kernel

CONSTANTS
  MAX_MUTEX,
  MAXDEPTH       \* bound of the model on nested locks of one task

\* The tasks that create and delete locks; without one, nobody uses a lock.
INITIALIZERS(c) == c.initializers

ASSUME LockAssumption ==
  /\ MAX_MUTEX \in Nat \ {0} /\ MAXDEPTH \in Nat \ {0}
  /\ \A c \in CFG : INITIALIZERS(c) \subseteq TSK

SLOT == 0 .. MAX_MUTEX - 1

VARIABLES
  mutexs,   \* the table; mtxid is NULL while the entry is free
  at,       \* where each task is in a call, and with which entry and mutex
  handles,  \* how many handles of each entry callers of Lock_Init have
  depth     \* how often Lock returned LOCK_OK to a task and Unlock not yet

lockvars == <<ker, nest, cpulock, mutexs, at, handles, depth>>

OUTSIDE == [pc |-> "outside", slot |-> 0, mtx |-> NULL]

\* How the wait of t for the mutex of a lock has ended: with E_OK, or not.
WaitEnds(t, a) ==
  IF a.pc # "wait" \/ TSTAT_WAIT_MTX(ker', t) THEN a
  ELSE [a EXCEPT !.pc = IF ker'.loctsk[a.mtx] = t THEN "have" ELSE "failed"]

\* The caller moves on, which may have ended the waits of others.
At(pc, i, m) ==
  [t \in TSK |-> IF t = Self THEN [pc |-> pc, slot |-> i, mtx |-> m] ELSE WaitEnds(t, at[t])]

LockInit ==
  /\ Init
  /\ mutexs = [i \in SLOT |-> [mtxid |-> NULL, tskid |-> NULL, count |-> 0]]
  /\ at = [t \in TSK |-> OUTSIDE]
  /\ handles = [i \in SLOT |-> 0]
  /\ depth = [t \in TSK |-> [i \in SLOT |-> 0]]

----------------------------------------------------------------------------
(* Lock_Init: the first free entry is chosen, the mutex is created, and    *)
(* only then does the entry stop being free.                               *)

\* Fault: the entry is not looked at.
LockInitScan_first ==
  /\ TaskRuns /\ at[Self].pc = "outside" /\ Self \in INITIALIZERS(ker.cfg)
  /\ UNCHANGED vars
  /\ at' = At("create", 0, NULL)
  /\ UNCHANGED <<mutexs, handles, depth>>

LockInitScan ==
  /\ TaskRuns /\ at[Self].pc = "outside" /\ Self \in INITIALIZERS(ker.cfg)
  /\ UNCHANGED vars
  /\ \E i \in SLOT : /\ mutexs[i].mtxid = NULL
                     /\ \A j \in 0 .. i - 1 : mutexs[j].mtxid # NULL
                     /\ at' = At("create", i, NULL)
  /\ UNCHANGED <<mutexs, handles, depth>>

LockInitCreate ==
  /\ TaskRuns /\ at[Self].pc = "create"
  /\ LET i == at[Self].slot
     IN  \/ /\ \E m \in MTX : acre_mtx(m, "TA_TPRI", 0) /\ at' = At("assign", i, m)
            /\ UNCHANGED mutexs
         \/ /\ ker.free_mtxcb = <<>>
            /\ UNCHANGED vars
            /\ mutexs' = [mutexs EXCEPT ![i].mtxid = NULL]
            /\ at' = At("outside", 0, NULL)
  /\ UNCHANGED <<handles, depth>>

LockInitAssign ==
  /\ TaskRuns /\ at[Self].pc = "assign"
  /\ UNCHANGED vars
  /\ LET i == at[Self].slot
     IN  /\ mutexs' = [mutexs EXCEPT ![i].mtxid = at[Self].mtx, ![i].count = 0]
         /\ handles' = [handles EXCEPT ![i] = @ + 1]
  /\ at' = At("outside", 0, NULL)
  /\ UNCHANGED depth

----------------------------------------------------------------------------
\* Fault: every lock is counted, not only the nested ones.
LockOk_counted(i) ==
  /\ mutexs' = [mutexs EXCEPT ![i].tskid = Self, ![i].count = @ + 1]
  /\ depth' = [depth EXCEPT ![Self][i] = @ + 1]
  /\ at' = At("outside", 0, NULL)

\* Lock has the mutex: the end of the call.
LockOk(i) ==
  /\ mutexs' = [mutexs EXCEPT ![i].tskid = Self,
                              ![i].count = IF at[Self].pc = "nested" THEN @ + 1 ELSE @]
  /\ depth' = [depth EXCEPT ![Self][i] = @ + 1]
  /\ at' = At("outside", 0, NULL)

\* loc_mtx is accepted, at once or after a wait, or finds that the caller has
\* the mutex (E_OBJ).  With any other error Lock changes nothing.
Lock(i) ==
  /\ TaskRuns /\ at[Self].pc = "outside"
  /\ handles[i] > 0 /\ mutexs[i].mtxid # NULL /\ depth[Self][i] < MAXDEPTH
  /\ LET m == mutexs[i].mtxid
     IN  \/ loc_mtx(m, FALSE) /\ at' = At(IF ker.loctsk[m] = NULL THEN "have" ELSE "wait", i, m)
         \/ MtxExists(m) /\ ker.loctsk[m] = Self /\ UNCHANGED vars /\ at' = At("nested", i, m)
  /\ UNCHANGED <<mutexs, handles, depth>>

LockReturns ==
  /\ TaskRuns /\ at[Self].pc \in {"have", "nested"}
  /\ UNCHANGED vars
  /\ LockOk(at[Self].slot)
  /\ UNCHANGED handles

LockFails ==
  /\ TaskRuns /\ at[Self].pc = "failed"
  /\ UNCHANGED vars
  /\ at' = At("outside", 0, NULL)
  /\ UNCHANGED <<mutexs, handles, depth>>

\* Fault: nested locks are not counted.
Unlock_all(i) ==
  /\ TaskRuns /\ at[Self].pc = "outside" /\ depth[Self][i] > 0
  /\ UNCHANGED vars
  /\ at' = At("unlock", i, NULL)
  /\ UNCHANGED <<mutexs, handles, depth>>

\* Under loc_cpu it is decided whether this ends a nested lock; a task unlocks
\* what it has locked.
Unlock(i) ==
  /\ TaskRuns /\ at[Self].pc = "outside" /\ depth[Self][i] > 0
  /\ UNCHANGED vars
  /\ \/ /\ mutexs[i].tskid = Self /\ mutexs[i].count > 0
        /\ mutexs' = [mutexs EXCEPT ![i].count = @ - 1]
        /\ depth' = [depth EXCEPT ![Self][i] = @ - 1]
        /\ at' = At("outside", 0, NULL)
     \/ /\ ~(mutexs[i].tskid = Self /\ mutexs[i].count > 0)
        /\ at' = At("unlock", i, NULL)
        /\ UNCHANGED <<mutexs, depth>>
  /\ UNCHANGED handles

\* unl_mtx refuses a mutex that is not the last one the task has locked: the
\* task keeps the lock then.
UnlockMutex ==
  /\ TaskRuns /\ at[Self].pc = "unlock"
  /\ LET i == at[Self].slot
         m == mutexs[i].mtxid
     IN  \/ /\ m # NULL /\ unl_mtx(m)
            /\ depth' = [depth EXCEPT ![Self][i] = @ - 1]
         \/ /\ ~(m # NULL /\ MtxExists(m) /\ ker.lastmtx[Self] # <<>> /\ m = Head(ker.lastmtx[Self]))
            /\ UNCHANGED <<vars, depth>>
  /\ at' = At("outside", 0, NULL)
  /\ UNCHANGED <<mutexs, handles>>

\* Lock_Deinit of a lock that no task has or is about to use.
Lock_Deinit(i) ==
  /\ TaskRuns /\ at[Self].pc = "outside" /\ Self \in INITIALIZERS(ker.cfg)
  /\ handles[i] > 0 /\ mutexs[i].mtxid # NULL
  /\ \A t \in TSK : depth[t][i] = 0 /\ (at[t].pc \in {"outside", "create"} \/ at[t].slot # i)
  /\ del_mtx(mutexs[i].mtxid)
  /\ at' = At("deinit", i, NULL)
  /\ handles' = [handles EXCEPT ![i] = @ - 1]
  /\ UNCHANGED <<mutexs, depth>>

LockDeinitClear ==
  /\ TaskRuns /\ at[Self].pc = "deinit"
  /\ UNCHANGED vars
  /\ mutexs' = [mutexs EXCEPT ![at[Self].slot].mtxid = NULL]
  /\ at' = At("outside", 0, NULL)
  /\ UNCHANGED <<handles, depth>>

----------------------------------------------------------------------------
LockStep ==
  \/ LockInitScan \/ LockInitCreate \/ LockInitAssign
  \/ LockReturns \/ LockFails \/ UnlockMutex \/ LockDeinitClear
  \/ \E i \in SLOT : Lock(i) \/ Unlock(i) \/ Lock_Deinit(i)

\* The calls and the locks of a task end with it; what is in the table stays.
Gone(t) == TSTAT_DORMANT(ker', t)

KernelStep ==
  /\ TaskStep \/ InterruptStep
  /\ nest = 0 /\ Self # NULL /\ at[Self].pc # "outside" => InterruptStep
  /\ at' = [t \in TSK |-> IF Gone(t) THEN OUTSIDE ELSE WaitEnds(t, at[t])]
  /\ depth' = [t \in TSK |-> IF Gone(t) THEN [i \in SLOT |-> 0] ELSE depth[t]]
  /\ UNCHANGED <<mutexs, handles>>

\* A step of one task may end the wait of another.
LockNext == KernelStep \/ LockStep

LockAdapterSpec == LockInit /\ [][LockNext]_lockvars

----------------------------------------------------------------------------
Idle(t) == at[t].pc = "outside"

\* At most one task has a lock, through nesting, waiting, unlocking in the
\* wrong order, and creation and deletion of other locks.
MutualExclusion ==
  \A i \in SLOT, t, u \in TSK : depth[t][i] > 0 /\ depth[u][i] > 0 => t = u

\* A task that has unlocked a lock as often as it has locked it does not keep
\* the mutex: the count of nested locks and the calls that nest agree.
NothingLeftLocked ==
  \A t \in TSK, i \in SLOT :
    Idle(t) /\ depth[t][i] = 0 /\ mutexs[i].mtxid # NULL => mutexs[i].mtxid \notin Holds(ker, t)

\* Lock_Init creates a lock of its own for every caller (lock.h).
OwnLock == \A i \in SLOT : handles[i] <= 1

\* The handles in use name existing mutexes, each one its own.
HandlesOK ==
  /\ OwnLock
  /\ \A i, j \in SLOT : handles[i] > 0 /\ handles[j] > 0 =>
       /\ mutexs[i].mtxid # NULL /\ MtxExists(mutexs[i].mtxid)
       /\ mutexs[i].mtxid = mutexs[j].mtxid => i = j

\* Locks exclude, balance and do not share mutexes (lock_toppers.c).
LocksOK == MutualExclusion /\ NothingLeftLocked /\ HandlesOK
=============================================================================
