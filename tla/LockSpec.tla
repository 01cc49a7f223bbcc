------------------------------ MODULE LockSpec ------------------------------
(***************************************************************************)
(* What a mutex promises, whatever the queueing order and the protocol:    *)
(* at most one owner, and a lock that is released while tasks wait goes to *)
(* one of them at once, so that nobody can slip in between.  Module Kernel *)
(* shows that the mutexes of the kernel implement this specification.  One *)
(* step may concern several mutexes: a task that ends gives all of its     *)
(* mutexes up.                                                             *)
(***************************************************************************)
CONSTANTS TSK, MTX, NULL
VARIABLES owner, waiters
lockvars == <<owner, waiters>>

Init == owner = [m \in MTX |-> NULL] /\ waiters = [m \in MTX |-> {}]

Lock(m, t) == owner[m] = NULL /\ owner'[m] = t /\ waiters'[m] = waiters[m]

Wait(m, t) ==
  /\ owner[m] \notin {NULL, t} /\ t \notin waiters[m]
  /\ waiters'[m] = waiters[m] \cup {t}
  /\ owner'[m] = owner[m]

\* A waiter gives up: timeout, forced release, termination.
GiveUp(m, t) ==
  t \in waiters[m] /\ waiters'[m] = waiters[m] \ {t} /\ owner'[m] = owner[m]

Unlock(m) ==
  owner[m] # NULL /\ waiters[m] = {} /\ owner'[m] = NULL /\ waiters'[m] = {}

HandOver(m, t) ==
  t \in waiters[m] /\ owner'[m] = t /\ waiters'[m] = waiters[m] \ {t}

\* The object is reinitialised or deleted: owner and waiters lose it.
Reset(m) == owner'[m] = NULL /\ waiters'[m] = {}

Same(m) == owner'[m] = owner[m] /\ waiters'[m] = waiters[m]

Next ==
  \A m \in MTX :
    \/ Same(m) \/ Unlock(m) \/ Reset(m)
    \/ \E t \in TSK : Lock(m, t) \/ Wait(m, t) \/ GiveUp(m, t) \/ HandOver(m, t)

Spec == Init /\ [][Next]_lockvars
=============================================================================
