---------------------------- MODULE PriDataList ----------------------------
(***************************************************************************)
(* The storage of a priority data queue (pridataq.c): cnt blocks, of which *)
(* those from "unused" on have never been used; the others are in the list *)
(* of the stored data, ordered by priority, or in the list of free blocks. *)
(* The number cnt stands for the null pointer.                             *)
(***************************************************************************)
EXTENDS Naturals, Sequences

EmptyList(cnt, garbage) ==
  [cnt |-> cnt, mb |-> [i \in 0 .. cnt - 1 |-> [item |-> garbage, next |-> cnt]],
   count |-> 0, head |-> cnt, unused |-> 0, freelist |-> cnt]

\* The blocks of a list, in order.
Chain(c, first) ==
  LET from[n \in 0 .. c.cnt, i \in 0 .. c.cnt] ==
        IF n = 0 \/ i = c.cnt THEN <<>> ELSE <<i>> \o from[n - 1, c.mb[i].next]
  IN  from[c.cnt, first]

\* Fault: the search stops at the first block of the same priority.
After_same(c, x) == {i \in DOMAIN Chain(c, c.head) : c.mb[Chain(c, c.head)[i]].item.datapri < x.datapri}

\* The places of the stored data that stay in front of x.
After(c, x) == {i \in DOMAIN Chain(c, c.head) : c.mb[Chain(c, c.head)[i]].item.datapri <= x.datapri}

enqueue_pridata(c, x) ==
  LET reused == c.freelist # c.cnt
      mb == IF reused THEN c.freelist ELSE c.unused
      before == {i \in DOMAIN Chain(c, c.head) : \A j \in 1 .. i : j \in After(c, x)}
      last == IF before = {} THEN c.cnt
              ELSE Chain(c, c.head)[CHOOSE i \in before : \A j \in before : j <= i]
      next == IF last = c.cnt THEN c.head ELSE c.mb[last].next
  IN  [c EXCEPT !.freelist = IF reused THEN c.mb[mb].next ELSE @,
                !.unused = IF reused THEN @ ELSE @ + 1,
                !.mb = [i \in DOMAIN @ |-> CASE i = mb -> [item |-> x, next |-> next]
                                             [] i = last -> [@[i] EXCEPT !.next = mb]
                                             [] OTHER -> @[i]],
                !.head = IF last = c.cnt THEN mb ELSE @,
                !.count = @ + 1]

FirstPridata(c) == c.mb[c.head].item

\* Fault: the block is not put into the list of free blocks.
dequeue_pridata_leak(c) == [c EXCEPT !.head = c.mb[c.head].next, !.count = @ - 1]

dequeue_pridata(c) ==
  [c EXCEPT !.head = c.mb[c.head].next, !.count = @ - 1,
            !.mb[c.head].next = c.freelist, !.freelist = c.head]

----------------------------------------------------------------------------
ListContents(c) == [i \in 1 .. Len(Chain(c, c.head)) |-> c.mb[Chain(c, c.head)[i]].item]

\* Every block that has been used is in one of the two lists, once.
ListOK(c) ==
  LET data == Chain(c, c.head)
      free == Chain(c, c.freelist)
      all == data \o free
  IN  /\ Len(data) = c.count /\ Len(all) = c.unused /\ c.unused <= c.cnt
      /\ \A i, j \in DOMAIN all : all[i] = all[j] => i = j
      /\ \A i \in DOMAIN all : all[i] < c.unused
=============================================================================
