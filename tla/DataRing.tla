------------------------------ MODULE DataRing ------------------------------
(***************************************************************************)
(* The storage of a data queue (dataqueue.c): a ring of cnt entries with   *)
(* the number of entries in use and the positions of the first one and of  *)
(* the first free one.                                                     *)
(***************************************************************************)
EXTENDS Naturals, Sequences

EmptyRing(cnt, garbage) ==
  [cnt |-> cnt, buf |-> [i \in 0 .. cnt - 1 |-> garbage], count |-> 0, head |-> 0, tail |-> 0]

Step(c, i) == IF i + 1 >= c.cnt THEN 0 ELSE i + 1

\* Fault: tail runs one entry past the end.
enqueue_data_wrap(c, x) ==
  [c EXCEPT !.buf = [i \in DOMAIN @ |-> IF i = c.tail THEN x ELSE @[i]], !.count = @ + 1,
            !.tail = IF @ + 1 > c.cnt THEN 0 ELSE @ + 1]

enqueue_data(c, x) ==
  [c EXCEPT !.buf[c.tail] = x, !.count = @ + 1, !.tail = Step(c, @)]

\* Fault: head stays when the oldest entry is overwritten.
force_enqueue_data_head(c, x) ==
  [c EXCEPT !.buf[c.tail] = x, !.tail = Step(c, @),
            !.count = IF @ < c.cnt THEN @ + 1 ELSE @]

force_enqueue_data(c, x) ==
  LET d == [c EXCEPT !.buf[c.tail] = x, !.tail = Step(c, @)]
  IN  IF d.count < d.cnt THEN [d EXCEPT !.count = @ + 1] ELSE [d EXCEPT !.head = d.tail]

\* What dequeue_data returns, and the ring it leaves.
FirstData(c) == c.buf[c.head]
dequeue_data(c) == [c EXCEPT !.count = @ - 1, !.head = Step(c, @)]

----------------------------------------------------------------------------
\* The i-th entry in use, from 1 on, is at this place.
Slot(c, i) == IF c.head + i - 1 < c.cnt THEN c.head + i - 1 ELSE c.head + i - 1 - c.cnt

Contents(c) == [i \in 1 .. c.count |-> c.buf[Slot(c, i)]]

\* tail is where the next entry belongs, and both positions are in the ring.
RingOK(c) ==
  /\ c.cnt \in Nat /\ c.count \in 0 .. c.cnt
  /\ DOMAIN c.buf = 0 .. c.cnt - 1
  /\ IF c.cnt = 0 THEN c.head = 0 /\ c.tail = 0
     ELSE /\ c.head \in 0 .. c.cnt - 1
          /\ c.tail = Slot(c, c.count + 1)
=============================================================================
