---------------------------- MODULE MCResources ----------------------------
(***************************************************************************)
(* What tasks own or count: semaphores, mutexes, memory pools and the      *)
(* locks of the Azure utility library, composed on one kernel, and the     *)
(* configurations the runs check.                                          *)
(***************************************************************************)
EXTENDS MemoryPool, LockAdapter, TLC

CONSTANTS t1, t2, t3, s1, m1, m2, x1

poolvars == <<mpf, holders, free_mpfcb>>
adaptervars == <<mutexs, at, handles, depth>>

RInit == MpfInit /\ LockInit

\* The programs that use locks leave the mutexes to them (KernelStep).
RNext ==
  \/ LockStep /\ UNCHANGED poolvars
  \/ KernelStep /\ UNCHANGED poolvars
  \/ SemStep /\ UNCHANGED <<poolvars, adaptervars>>
  \/ INITIALIZERS(ker.cfg) = {} /\ MutexStep /\ UNCHANGED <<poolvars, adaptervars>>
  \/ MpfStep /\ UNCHANGED adaptervars

RSpec == RInit /\ [][RNext]_<<vars, poolvars, adaptervars>>

----------------------------------------------------------------------------
None == [o \in {} |-> 0]
\* All started by the kernel, t at priority pri(t).
Tasks(pri(_)) == [t \in TSK |-> [tskatr |-> "TA_NULL", act |-> TRUE, itskpri |-> pri(t)]]
Low(t) == TNUM_TPRI - 1
High(t) == 0
OneAbove(t) == IF t = t1 THEN 0 ELSE 1

\* A counting semaphore with one unit of two, queued by priority.
Semaphore == [s \in {s1} |-> [sematr |-> "TA_TPRI", isemcnt |-> 1, maxsem |-> MAXSEM]]
\* A ceiling mutex and one without a protocol, queued by priority.
Mutexes(S) == [m \in S |-> [mtxatr |-> IF m = m1 THEN "TA_CEILING" ELSE "TA_TPRI", ceilpri |-> 0]]

Config(tskini, nesting, calls) ==
  [tskini |-> tskini, semini |-> Semaphore, mtxini |-> Mutexes(MTX),
   wobjini |-> [p \in MPF |-> "TA_TPRI"], mpfini |-> [p \in MPF |-> 2],
   depth |-> nesting, calls |-> calls, initializers |-> {}]

\* Semaphores, with tasks that are suspended and delayed, and one that comes and goes.
Sem == Config(Tasks(Low), 1, {"wai_sem", "sig_sem", "pol_sem", "ini_sem", "rel_wai", "sus_tsk", "rsm_tsk", "dly_tsk"})
SemLife == [Config(Tasks(Low), 1, {"acre_sem", "del_sem", "wai_sem", "sig_sem", "ini_sem", "rel_wai"})
            EXCEPT !.semini = None]
\* Ceilings, waits and base priorities.
Mutex == Config(Tasks(Low), 1, {"loc_mtx", "unl_mtx", "ter_tsk", "act_tsk", "ini_mtx", "chg_pri"})
\* Mutexes that come and go, and tasks that end while they have some.
MutexLife == [Config(Tasks(Low), 0, {"loc_mtx", "ploc_mtx", "unl_mtx", "ras_ter", "dis_ter",
                                     "ena_ter", "acre_mtx", "del_mtx", "rot_rdq"})
              EXCEPT !.mtxini = Mutexes({m1})]
\* A pool of two blocks, and a pool that is created and deleted.
Pool == Config(Tasks(OneAbove), 1, {"get_mpf", "pget_mpf", "rel_mpf", "ini_mpf", "ter_tsk"})
PoolLife == [Config(Tasks(OneAbove), 1, {"acre_mpf", "del_mpf", "get_mpf", "rel_mpf", "ini_mpf", "ter_tsk"})
             EXCEPT !.wobjini = None, !.mpfini = None]
\* Locks, at the priority the adapters give to threads: three tasks that preempt each
\* other within the calls, and two of which each may release the other from its wait.
LockUsers(S) == [Config(Tasks(High), 1, {"acre_mtx", "loc_mtx", "unl_mtx", "del_mtx", "rot_rdq"})
                 EXCEPT !.mtxini = None, !.initializers = S]
LockFailure == [LockUsers({t1}) EXCEPT !.tskini = [t \in {t1, t2} |-> @[t]],
                                       !.calls = @ \cup {"rel_wai"}]

ResourceConfigs ==
  {Sem, SemLife, Mutex, MutexLife, Pool, PoolLife, LockUsers({t1}), LockFailure}
TwoInitializers == {LockUsers({t1, t2})}
=============================================================================
