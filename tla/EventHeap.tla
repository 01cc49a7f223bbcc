----------------------------- MODULE EventHeap -----------------------------
(***************************************************************************)
(* The heap under any sequence of registrations and deletions, with all    *)
(* event times relative to one boundary.                                   *)
(***************************************************************************)
EXTENDS TimeHeap, FiniteSets

CONSTANT TIMES   \* the event times used
ASSUME TimesAssumption == TIMES \subseteq Nat

VARIABLES heap, evttim
hvars == <<heap, evttim>>

HeapInit ==
  /\ heap = [node |-> <<>>, pos |-> [e \in TMEVTB |-> 0]]
  /\ evttim = [e \in TMEVTB |-> 0]

\* tmevtb_register: the time is set by the caller.
Register(e, t) ==
  /\ e \notin Registered(heap)
  /\ evttim' = [evttim EXCEPT ![e] = t]
  /\ heap' = tmevtb_insert(heap, evttim', e)

Dequeue(e) ==
  /\ e \in Registered(heap)
  /\ heap' = tmevtb_delete(heap, evttim, e)
  /\ evttim' = [evttim EXCEPT ![e] = 0]    \* the block is not used any more

DeleteFirst ==
  /\ heap.node # <<>>
  /\ heap' = tmevtb_delete_top(heap, evttim)
  /\ evttim' = [evttim EXCEPT ![heap.node[1]] = 0]

HeapNext ==
  \/ \E e \in TMEVTB, t \in TIMES : Register(e, t)
  \/ \E e \in TMEVTB : Dequeue(e)
  \/ DeleteFirst

HeapSpec == HeapInit /\ [][HeapNext]_hvars

----------------------------------------------------------------------------
\* The heap is ordered, so that its top is the earliest event, and every block
\* knows its node, whatever was inserted and deleted: tmevtb_dequeue starts
\* from the back pointer.
HeapOK == InOrder(heap, evttim)

\* A deletion that moves events about loses none of them and duplicates none:
\* one event comes or goes at a time.
OneAtATime ==
  [][\E e \in TMEVTB :
       /\ Registered(heap) \ {e} = Registered(heap') \ {e}
       /\ Cardinality(Registered(heap')) = LastNode(heap')]_hvars
=============================================================================
