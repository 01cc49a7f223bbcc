----------------------------- MODULE CountSpec -----------------------------
(***************************************************************************)
(* What a counting semaphore promises: a unit that is returned goes to a   *)
(* waiting task if there is one and is counted otherwise, the count stays  *)
(* within its maximum, and nobody takes a unit past a waiting task.        *)
(***************************************************************************)
EXTENDS Naturals
CONSTANTS TSK, SEM
VARIABLES exists, count, initial, max, waiters
semvars == <<exists, count, initial, max, waiters>>

Init ==
  \A s \in SEM : /\ exists[s] => count[s] = initial[s] /\ initial[s] \in 0 .. max[s]
                 /\ waiters[s] = {}

Create(s) ==
  /\ ~exists[s] /\ exists'[s]
  /\ initial'[s] \in 0 .. max'[s] /\ count'[s] = initial'[s] /\ waiters'[s] = {}

\* The attributes of a semaphore that exists stay as they are.
Lives(s) == exists[s] /\ exists'[s] /\ initial'[s] = initial[s] /\ max'[s] = max[s]

Delete(s) == exists[s] /\ ~exists'[s] /\ waiters'[s] = {}

Reset(s) == Lives(s) /\ count'[s] = initial[s] /\ waiters'[s] = {}

Take(s) ==
  /\ Lives(s) /\ count[s] > 0 /\ waiters[s] = {}
  /\ count'[s] = count[s] - 1 /\ waiters'[s] = {}

Wait(s, t) ==
  /\ Lives(s) /\ count[s] = 0 /\ t \notin waiters[s]
  /\ waiters'[s] = waiters[s] \cup {t} /\ count'[s] = 0

Count(s) ==
  /\ Lives(s) /\ waiters[s] = {} /\ count[s] < max[s]
  /\ count'[s] = count[s] + 1 /\ waiters'[s] = {}

\* A waiter leaves, with a unit that is returned at that moment or without one.
Leave(s, t) ==
  /\ Lives(s) /\ t \in waiters[s]
  /\ waiters'[s] = waiters[s] \ {t} /\ count'[s] = count[s]

Same(s) ==
  /\ exists'[s] = exists[s] /\ waiters'[s] = waiters[s]
  /\ exists[s] => count'[s] = count[s] /\ initial'[s] = initial[s] /\ max'[s] = max[s]

Next ==
  \A s \in SEM : \/ Same(s) \/ Create(s) \/ Delete(s) \/ Reset(s) \/ Take(s) \/ Count(s)
                 \/ \E t \in TSK : Wait(s, t) \/ Leave(s, t)

Spec == Init /\ [][Next]_semvars
=============================================================================
