----------------------------- MODULE QueueSpec -----------------------------
(***************************************************************************)
(* What a data queue promises, with or without priorities: the items that  *)
(* are stored leave it in the order of their priorities, and in the order  *)
(* of their arrival within one priority; each item goes to one receiver; a *)
(* receiver waits only while there is nothing to receive and a sender only *)
(* while the queue is full; the items of waiting senders follow those that *)
(* are stored.  Only a forced send drops an item, the oldest one, and only *)
(* when the queue is full.                                                 *)
(***************************************************************************)
EXTENDS Naturals, Sequences
CONSTANTS TSK, QUEUE, ITEM, NULL
VARIABLES
  exists, cap, stored,
  fifo,                 \* senders wait in the order of their arrival
  senders, receivers,   \* the waiting tasks, in the order they are served
  item                  \* what a task wants to send or has received
qvars == <<exists, cap, stored, fifo, senders, receivers, item>>

Init ==
  /\ \A q \in QUEUE : stored[q] = <<>> /\ senders[q] = <<>> /\ receivers[q] = <<>>
  /\ item = [t \in TSK |-> NULL]

Put(s, x) ==
  LET n == CHOOSE i \in 0 .. Len(s) :
             /\ \A j \in 1 .. i : s[j].datapri <= x.datapri
             /\ \A j \in i + 1 .. Len(s) : s[j].datapri > x.datapri
  IN  SubSeq(s, 1, n) \o <<x>> \o SubSeq(s, n + 1, Len(s))

In(s) == {s[i] : i \in DOMAIN s}
Without(s, t) == SelectSeq(s, LAMBDA u : u # t)

\* The other queues stay, and nobody but the tasks of S gets or sends something new.
Only(q, S) ==
  /\ \A p \in QUEUE \ {q} :
       /\ exists'[p] = exists[p] /\ stored'[p] = stored[p] /\ cap'[p] = cap[p] /\ fifo'[p] = fifo[p]
       /\ senders'[p] = senders[p] /\ receivers'[p] = receivers[p]
  /\ \A t \in TSK \ S : /\ item'[t] \in {item[t], NULL}
                        /\ (\E p \in QUEUE : t \in In(senders'[p])) => item'[t] = item[t]
Lives(q) == exists[q] /\ exists'[q] /\ cap'[q] = cap[q] /\ fifo'[q] = fifo[q]

Store(q, x) ==
  /\ Lives(q) /\ receivers[q] = <<>> /\ Len(stored[q]) < cap[q]
  /\ stored'[q] = Put(stored[q], x) /\ senders'[q] = senders[q] /\ receivers'[q] = <<>>
  /\ Only(q, {})

\* The item replaces the oldest one; senders that wait are overtaken.
Force(q, x) ==
  /\ Lives(q) /\ receivers[q] = <<>> /\ cap[q] > 0 /\ Len(stored[q]) = cap[q]
  /\ stored'[q] = Append(Tail(stored[q]), x)
  /\ senders'[q] = senders[q] /\ receivers'[q] = <<>>
  /\ Only(q, {})

HandOver(q, x) ==
  /\ Lives(q) /\ receivers[q] # <<>>
  /\ receivers'[q] = Tail(receivers[q]) /\ item'[Head(receivers[q])] = x
  /\ stored'[q] = stored[q] /\ senders'[q] = senders[q]
  /\ Only(q, {Head(receivers[q])})

WaitToSend(q, t) ==
  /\ Lives(q) /\ receivers[q] = <<>> /\ Len(stored[q]) = cap[q]
  /\ t \notin In(senders[q]) /\ t \in In(senders'[q]) /\ Without(senders'[q], t) = senders[q]
  /\ fifo[q] => senders'[q] = Append(senders[q], t)
  /\ stored'[q] = stored[q] /\ receivers'[q] = <<>>
  /\ Only(q, {t})

Receive(q, t) ==
  /\ Lives(q) /\ stored[q] # <<>>
  /\ item'[t] = Head(stored[q]) /\ receivers'[q] = receivers[q]
  /\ IF senders[q] = <<>> THEN stored'[q] = Tail(stored[q]) /\ senders'[q] = <<>>
     ELSE /\ stored'[q] = Put(Tail(stored[q]), item[Head(senders[q])])
          /\ senders'[q] = Tail(senders[q])
  /\ Only(q, {t})

ReceiveFromSender(q, t) ==
  /\ Lives(q) /\ stored[q] = <<>> /\ senders[q] # <<>>
  /\ item'[t] = item[Head(senders[q])] /\ senders'[q] = Tail(senders[q])
  /\ stored'[q] = <<>> /\ receivers'[q] = receivers[q]
  /\ Only(q, {t})

WaitToReceive(q, t) ==
  /\ Lives(q) /\ stored[q] = <<>> /\ senders[q] = <<>>
  /\ t \notin In(receivers[q]) /\ receivers'[q] = Append(receivers[q], t)
  /\ stored'[q] = <<>> /\ senders'[q] = <<>>
  /\ Only(q, {t})

\* A task gives up: timeout, forced release, termination.
GiveUp(q, t) ==
  /\ Lives(q) /\ t \in In(senders[q]) \cup In(receivers[q])
  /\ senders'[q] = Without(senders[q], t) /\ receivers'[q] = Without(receivers[q], t)
  /\ stored'[q] = stored[q]
  /\ Only(q, {})

\* The priority of a waiting sender has changed.
Reorder(q) ==
  /\ Lives(q) /\ ~fifo[q]
  /\ Len(senders'[q]) = Len(senders[q]) /\ In(senders'[q]) = In(senders[q])
  /\ stored'[q] = stored[q] /\ receivers'[q] = receivers[q]
  /\ Only(q, {})

\* Creation, deletion and reset leave the queue empty.
Reset(q) ==
  /\ stored'[q] = <<>> /\ senders'[q] = <<>> /\ receivers'[q] = <<>>
  /\ exists[q] /\ exists'[q] => cap'[q] = cap[q] /\ fifo'[q] = fifo[q]
  /\ Only(q, {})

\* The call of a task returns, and what it has received is the task's own.
Idle(q) ==
  /\ exists'[q] = exists[q] /\ cap'[q] = cap[q] /\ fifo'[q] = fifo[q]
  /\ stored'[q] = stored[q] /\ senders'[q] = senders[q] /\ receivers'[q] = receivers[q]
  /\ Only(q, {})

Next ==
  \E q \in QUEUE :
    \/ Idle(q)
    \/ \E x \in ITEM : Store(q, x) \/ Force(q, x) \/ HandOver(q, x)
    \/ \E t \in TSK : \/ WaitToSend(q, t) \/ Receive(q, t) \/ ReceiveFromSender(q, t)
                      \/ WaitToReceive(q, t) \/ GiveUp(q, t)
    \/ Reorder(q) \/ Reset(q)

Spec == Init /\ [][Next]_qvars
=============================================================================
