------------------------------ MODULE TimeHeap ------------------------------
(***************************************************************************)
(* The heap of the registered time events (asp3_dcre/kernel/time_event.c). *)
(* "node" is the used part of tmevt_heap, from tmevt_heap[1] up to         *)
(* p_last_tmevtn; "pos" holds the back pointers p_tmevtn.  "key" gives the *)
(* time of each event relative to the boundary (EVTTIM_ADVANCE), so that   *)
(* EVTTIM_LT and EVTTIM_LE are < and <=.                                   *)
(***************************************************************************)
EXTENDS Naturals, Sequences

CONSTANT TMEVTB   \* the time event blocks

TimeHeaps == [node : Seq(TMEVTB), pos : [TMEVTB -> Nat]]

LastNode(h) == Len(h.node)
Registered(h) == {h.node[i] : i \in 1 .. LastNode(h)}

\* i and the nodes that PARENT leads to from it.
Ancestors[i \in Nat] == IF i = 0 THEN {} ELSE {i} \cup Ancestors[i \div 2]

\* Puts the event to[i] into each node i of the domain of "to", with its back
\* pointer.
Place(h, to) ==
  [node |-> [i \in DOMAIN h.node |-> IF i \in DOMAIN to THEN to[i] ELSE h.node[i]],
   pos |-> [e \in TMEVTB |-> IF \E i \in DOMAIN to : to[i] = e
                             THEN CHOOSE i \in DOMAIN to : to[i] = e
                             ELSE h.pos[e]]]

\* tmevt_up: the empty node i moves towards the root, past every parent that is
\* later than k; the result is the heap and the place of the empty node.
tmevt_up(h, key, i, k) ==
  LET stops == {j \in Ancestors[i] : j = 1 \/ key[h.node[j \div 2]] <= k}
      at == CHOOSE j \in stops : \A x \in stops : x <= j
  IN  [heap |-> Place(h, [j \in {x \in Ancestors[i] : x > at} |-> h.node[j \div 2]]),
       at |-> at]

\* The child of node i that is earlier, the left one if they are equal.
EarlierChild(h, key, last, i) ==
  IF 2 * i + 1 <= last /\ key[h.node[2 * i + 1]] < key[h.node[2 * i]]
  THEN 2 * i + 1 ELSE 2 * i

\* i and the nodes that EarlierChild leads to from it.
EarlierChildren(h, key, last, i) ==
  {j \in 1 .. LastNode(h) :
     /\ i \in Ancestors[j]
     /\ \A x \in Ancestors[j] : x > i => x = EarlierChild(h, key, last, x \div 2)}

\* tmevt_down: the empty node i moves down while the earlier child is earlier
\* than k.  "last" is p_last_tmevtn.
tmevt_down(h, key, last, i, k) ==
  LET path == EarlierChildren(h, key, last, i)
      stops == {j \in path : 2 * j > last \/ k <= key[h.node[EarlierChild(h, key, last, j)]]}
      at == CHOOSE j \in stops : \A x \in stops : j <= x
  IN  [heap |-> Place(h, [j \in {x \in path : x < at} |->
                            h.node[EarlierChild(h, key, last, j)]]),
       at |-> at]

tmevtb_insert(h, key, e) ==
  LET up == tmevt_up([h EXCEPT !.node = Append(@, e)], key, LastNode(h) + 1, key[e])
  IN  Place(up.heap, [i \in {up.at} |-> e])

\* Fault: p_last_tmevtn is decremented twice.
Fill_twice(h, moved, e) ==
  [Place(moved.heap, [i \in {moved.at} |-> e]) EXCEPT !.node = SubSeq(@, 1, LastNode(h) - 2)]

\* What both deletions do: the last event is moved to where the empty node goes.
Fill(h, moved, e) ==
  [Place(moved.heap, [i \in {moved.at} |-> e]) EXCEPT !.node = SubSeq(@, 1, LastNode(h) - 1)]

\* Fault: the empty node only ever moves down.
tmevtb_delete_down(h, key, e) ==
  LET last == LastNode(h) - 1
      end == h.node[last + 1]
  IN  IF last = 0 THEN [h EXCEPT !.node = <<>>]
      ELSE Fill(h, tmevt_down(h, key, last, h.pos[e], key[end]), end)

tmevtb_delete(h, key, e) ==
  LET last == LastNode(h) - 1
      end == h.node[last + 1]
      i == h.pos[e]
  IN  IF last = 0 THEN [h EXCEPT !.node = <<>>]
      ELSE IF i > 1 /\ key[end] < key[h.node[i \div 2]]
           THEN Fill(h, tmevt_up(h, key, i, key[end]), end)
           ELSE Fill(h, tmevt_down(h, key, last, i, key[end]), end)

tmevtb_delete_top(h, key) ==
  LET last == LastNode(h) - 1
      end == h.node[last + 1]
  IN  IF last = 0 THEN [h EXCEPT !.node = <<>>]
      ELSE Fill(h, tmevt_down(h, key, last, 1, key[end]), end)

\* The heap property and the back pointers.
InOrder(h, key) ==
  /\ \A i \in 2 .. LastNode(h) : key[h.node[i \div 2]] <= key[h.node[i]]
  /\ \A i \in 1 .. LastNode(h) : h.pos[h.node[i]] = i
=============================================================================
