-------------------------- MODULE TimeEventProofs --------------------------
(***************************************************************************)
(* The heap of the time events is in order and loses no event, for every   *)
(* number of events and every times.  A node is emptied and moves up or    *)
(* down a chain of nodes, each node of which gets the event of the next:   *)
(* what that does to the events and to their back pointers is shown for    *)
(* any chain (Moved), what it does to the order for the two ways.          *)
(*                                                                         *)
(* On top of it, every event of the heap is due when it was asked to be,   *)
(* and no later than the timer allows, for every width of the counters,    *)
(* every rate of the hardware and every heap (EventInv).                   *)
(***************************************************************************)
EXTENDS EventHeap, TimeEvent, FiniteSetTheorems, SequenceTheorems, WellFoundedInduction, TLAPS

----------------------------------------------------------------------------
(* Nodes and their ancestors.                                              *)

\* A set of numbers that is not empty has a least member, and a greatest one if it is
\* bounded.
LEMMA Least ==
  ASSUME NEW S \in SUBSET Nat, S # {}
  PROVE  \E x \in S : \A y \in S : x <= y
<1>1. IsWellFoundedOn(OpToRel(<, Nat), Nat)  BY NatLessThanWellFounded
<1>2. PICK x \in S : \A y \in S : <<y, x>> \notin OpToRel(<, Nat)
  BY <1>1, WFMin, Zenon
<1>3. \A y \in S : ~ (y < x)  BY <1>2 DEF OpToRel
<1>4. QED  BY <1>3

\* The greatest one.
LEMMA Greatest ==
  ASSUME NEW n \in Nat, NEW S \in SUBSET (0 .. n), S # {}
  PROVE  \E x \in S : \A y \in S : y <= x
<1> DEFINE T == {d \in Nat : n - d \in S}
<1>1. T # {}
  <2>1. PICK x \in S : TRUE  OBVIOUS
  <2>2. n - x \in Nat /\ n - (n - x) = x  OBVIOUS
  <2>3. n - x \in T  BY <2>1, <2>2
  <2>4. QED  BY <2>3
<1>2. PICK d \in T : \A y \in T : d <= y  BY <1>1, Least
<1>3. ASSUME NEW y \in S  PROVE y <= n - d
  <2>1. y \in 0 .. n /\ n - y \in Nat /\ n - (n - y) = y  OBVIOUS
  <2>2. n - y \in T  BY <2>1
  <2>3. d <= n - y /\ d \in Nat  BY <1>2, <2>2
  <2>4. QED  BY <2>1, <2>3
<1>4. n - d \in S  BY <1>2
<1>5. QED  BY <1>3, <1>4

\* The recursion of Ancestors has a solution: the least set closed under PARENT.
LEMMA AncestorsOf ==
  ASSUME NEW i \in Nat
  PROVE  Ancestors[i] = IF i = 0 THEN {} ELSE {i} \cup Ancestors[i \div 2]
<1> DEFINE Closed(S) == \A x \in S : x > 1 => x \div 2 \in S
           Closure(n) == {j \in 1 .. n : \A S \in SUBSET Nat : n \in S /\ Closed(S) => j \in S}
           f == [n \in Nat |-> Closure(n)]
<1>1. ASSUME NEW n \in Nat PROVE Closure(n) = IF n = 0 THEN {} ELSE {n} \cup Closure(n \div 2)
  <2>1. CASE n = 0  BY <2>1
  <2>2. CASE n # 0
    <3>1. n \div 2 \in Nat /\ n \div 2 < n  BY <2>2
    <3>2. n \in Closure(n)  BY <2>2
    <3>3. ASSUME NEW j \in Closure(n \div 2) PROVE j \in Closure(n)
      <4>1. j \in 1 .. n  BY <3>1, <3>3
      <4>2. n > 1  BY <3>1, <3>3
      <4>3. ASSUME NEW S \in SUBSET Nat, n \in S, Closed(S) PROVE j \in S
        <5>1. n \div 2 \in S  BY <4>2, <4>3
        <5>2. QED  BY <3>3, <4>3, <5>1
      <4>4. QED  BY <4>1, <4>3
    <3>4. ASSUME NEW j \in Closure(n), j # n PROVE j \in Closure(n \div 2)
      <4>1. ASSUME NEW S \in SUBSET Nat, n \div 2 \in S, Closed(S) PROVE j \in S
        <5>1. S \cup {n} \in SUBSET Nat /\ n \in S \cup {n} /\ Closed(S \cup {n})
          BY <4>1
        <5>2. j \in S \cup {n}  BY <5>1, <3>4
        <5>3. QED  BY <5>2, <3>4
      <4>2. j \in 1 .. n \div 2
        <5> DEFINE S == 1 .. n \div 2 \cup {n}
        <5>1. S \in SUBSET Nat /\ n \in S  BY <3>1
        <5>2. Closed(S)  BY <2>2, <3>1
        <5>3. j \in S  BY <5>1, <5>2, <3>4
        <5>4. QED  BY <5>3, <3>4
      <4>3. QED  BY <4>1, <4>2
    <3>5. Closure(n) \subseteq {n} \cup Closure(n \div 2)
      <4> HIDE DEF Closure
      <4>1. QED  BY <3>4
    <3>6. {n} \cup Closure(n \div 2) \subseteq Closure(n)
      <4> HIDE DEF Closure
      <4>1. QED  BY <3>2, <3>3
    <3>7. QED
      <4> HIDE DEF Closure
      <4>1. QED  BY <2>2, <3>5, <3>6
  <2>3. QED  BY <2>1, <2>2
<1> HIDE DEF Closure
<1>2. f = [n \in Nat |-> IF n = 0 THEN {} ELSE {n} \cup f[n \div 2]]
  <2>1. ASSUME NEW n \in Nat PROVE f[n] = IF n = 0 THEN {} ELSE {n} \cup f[n \div 2]
    <3>1. n \div 2 \in Nat  OBVIOUS
    <3>2. QED  BY <1>1, <3>1
  <2>2. QED  BY <2>1
<1> HIDE DEF f
<1>3. Ancestors = [n \in Nat |-> IF n = 0 THEN {} ELSE {n} \cup Ancestors[n \div 2]]
  BY <1>2 DEF Ancestors
<1>4. QED  BY <1>3

\* They are a chain that begins at the root and ends at i.
LEMMA Chain ==
  ASSUME NEW i \in Nat
  PROVE  /\ Ancestors[i] \subseteq 1 .. i
         /\ i > 0 => i \in Ancestors[i]
         /\ \A j \in Ancestors[i] : j > 1 => j \div 2 \in Ancestors[i]
         /\ \A x, y \in Ancestors[i] : x < y => x <= y \div 2
         /\ \A j \in Ancestors[i] : j < i => \E c \in Ancestors[i] : c \div 2 = j
         /\ \A j \in Ancestors[i] :
              \A x \in Nat : x \in Ancestors[j] <=> x \in Ancestors[i] /\ x <= j
<1> DEFINE P(n) ==
  /\ Ancestors[n] \subseteq 1 .. n
  /\ \A j \in Ancestors[n] : j > 1 => j \div 2 \in Ancestors[n]
  /\ \A x, y \in Ancestors[n] : x < y => x <= y \div 2
  /\ \A j \in Ancestors[n] : j < n => \E c \in Ancestors[n] : c \div 2 = j
  /\ \A j \in Ancestors[n] : \A x \in Nat : x \in Ancestors[j] <=> x \in Ancestors[n] /\ x <= j
<1>1. ASSUME NEW n \in Nat, \A m \in Nat : m < n => P(m)
      PROVE  P(n)
  <2>1. CASE n = 0
    <3>1. Ancestors[n] = {}  BY <2>1, AncestorsOf
    <3>2. QED  BY <3>1
  <2>2. CASE n # 0
    <3> DEFINE p == n \div 2
    <3>1. p \in Nat /\ p < n /\ (n > 1 => p > 0)  BY <2>2
    <3>2. P(p)  BY <1>1, <3>1
    <3>3. Ancestors[n] = {n} \cup Ancestors[p]  BY <2>2, AncestorsOf
    <3>4. p > 0 => p \in Ancestors[p]
      <4>1. Ancestors[p] = IF p = 0 THEN {} ELSE {p} \cup Ancestors[p \div 2]
        BY <3>1, AncestorsOf
      <4>2. QED  BY <4>1, <3>1
    <3>a. p = n \div 2  OBVIOUS
    <3> HIDE DEF p
    <3>5. Ancestors[n] \subseteq 1 .. n  BY <3>1, <3>2, <3>3, <2>2
    <3>6. \A j \in Ancestors[n] : j > 1 => j \div 2 \in Ancestors[n]
      BY <3>1, <3>2, <3>3, <3>4, <3>a
    <3>7. \A x, y \in Ancestors[n] : x < y => x <= y \div 2
      BY <3>1, <3>2, <3>3, <3>a
    <3>8. ASSUME NEW j \in Ancestors[n], j < n PROVE \E c \in Ancestors[n] : c \div 2 = j
      <4>1. j \in Ancestors[p] /\ j <= p  BY <3>2, <3>3, <3>8
      <4>2. CASE j = p  BY <4>2, <3>3, <3>a
      <4>3. CASE j # p  BY <4>1, <4>3, <3>1, <3>2, <3>3
      <4>4. QED  BY <4>2, <4>3
    <3>9. ASSUME NEW j \in Ancestors[n], NEW x \in Nat
          PROVE  x \in Ancestors[j] <=> x \in Ancestors[n] /\ x <= j
      <4>1. CASE j = n  BY <4>1, <3>5
      <4>2. CASE j # n
        <5>1. j \in Ancestors[p] /\ j <= p  BY <3>2, <3>3, <4>2
        <5>2. x \in Ancestors[j] <=> x \in Ancestors[p] /\ x <= j  BY <5>1, <3>2
        <5>3. j \in Nat /\ j < n  BY <5>1, <3>1, <3>2
        <5>4. QED  BY <5>2, <5>3, <3>3
      <4>3. QED  BY <4>1, <4>2
    <3>10. QED  BY <3>5, <3>6, <3>7, <3>8, <3>9
  <2>3. QED  BY <2>1, <2>2
<1> HIDE DEF P
<1>2. P(i)
  <2> DEFINE S == {n \in Nat : ~ P(n)}
  <2>1. SUFFICES ASSUME S # {} PROVE FALSE  OBVIOUS
  <2>2. PICK n \in S : \A y \in S : n <= y  BY <2>1, Least
  <2>3. \A m \in Nat : m < n => P(m)  BY <2>2
  <2>4. QED  BY <2>2, <2>3, <1>1
<1>3. i > 0 => i \in Ancestors[i]
  <2>1. Ancestors[i] = IF i = 0 THEN {} ELSE {i} \cup Ancestors[i \div 2]  BY AncestorsOf
  <2>2. QED  BY <2>1
<1>4. QED  BY <1>2, <1>3 DEF P

----------------------------------------------------------------------------
(* The empty node.                                                         *)

Linked(h, D) == \A x \in D : h.pos[h.node[x]] = x

\* Events for the nodes of M, each another one, and e for the node "at".
Places(h, M, to, at, e, one) ==
  /\ M \in SUBSET (1 .. LastNode(h)) /\ to \in [M -> TMEVTB]
  /\ \A x, y \in M : to[x] = to[y] => x = y
  /\ at \in 1 .. LastNode(h) /\ at \notin M /\ e \in TMEVTB
  /\ one \in [{at} -> TMEVTB] /\ one[at] = e

\* A function on 1 .. n is a sequence of n events.
LEMMA Listed ==
  ASSUME NEW n \in Nat, NEW f \in [1 .. n -> TMEVTB]
  PROVE  f \in Seq(TMEVTB) /\ Len(f) = n
OBVIOUS

\* What becomes of the nodes when they are placed in this order.
LEMMA PlaceTwice ==
  ASSUME NEW h \in TimeHeaps, NEW M, NEW to, NEW at, NEW e, NEW one,
         Places(h, M, to, at, e, one), NEW g, g = Place(Place(h, to), one)
  PROVE  /\ g \in TimeHeaps /\ LastNode(g) = LastNode(h)
         /\ \A x \in 1 .. LastNode(h) :
              g.node[x] = IF x = at THEN e ELSE IF x \in M THEN to[x] ELSE h.node[x]
         /\ g.pos[e] = at
         /\ \A x \in M : to[x] # e => g.pos[to[x]] = x
         /\ \A d \in TMEVTB : d # e /\ (\A x \in M : to[x] # d) => g.pos[d] = h.pos[d]
<1> USE DEF Places
<1> DEFINE n == LastNode(h)
           a == Place(h, to)
<1>1. /\ n \in Nat /\ h.node \in [1 .. n -> TMEVTB] /\ DOMAIN h.node = 1 .. n
      /\ h.pos \in [TMEVTB -> Nat]
  BY DEF TimeHeaps, LastNode
<1>2. a.node = [i \in 1 .. n |-> IF i \in M THEN to[i] ELSE h.node[i]]
  BY <1>1 DEF Place
<1>3. DOMAIN to = M /\ DOMAIN one = {at} /\ one[at] = e  OBVIOUS
<1>4. a.pos = [d \in TMEVTB |-> IF \E i \in M : to[i] = d THEN CHOOSE i \in M : to[i] = d
                                ELSE h.pos[d]]
  BY <1>3 DEF Place
<1>5. \A x \in M : a.pos[to[x]] = x
  <2> SUFFICES ASSUME NEW x \in M PROVE a.pos[to[x]] = x  OBVIOUS
  <2>1. to[x] \in TMEVTB  OBVIOUS
  <2>2. a.pos[to[x]] = CHOOSE i \in M : to[i] = to[x]  BY <1>4, <2>1
  <2>3. QED  BY <2>2
<1>6. \A d \in TMEVTB : (\A x \in M : to[x] # d) => a.pos[d] = h.pos[d]
  BY <1>4
<1>7. g.node = [i \in 1 .. n |-> IF i = at THEN e ELSE a.node[i]]
  <2>1. DOMAIN a.node = 1 .. n  BY <1>2
  <2>2. g.node = [i \in DOMAIN a.node |-> IF i \in DOMAIN one THEN one[i] ELSE a.node[i]]
    BY DEF Place
  <2>3. \A i \in 1 .. n : (IF i \in DOMAIN one THEN one[i] ELSE a.node[i])
                          = (IF i = at THEN e ELSE a.node[i])
    BY <1>3
  <2>4. QED
    <3> HIDE DEF a, n
    <3>1. QED  BY <2>1, <2>2, <2>3
<1>8. g.pos = [d \in TMEVTB |-> IF d = e THEN at ELSE a.pos[d]]
  <2>1. g.pos = [d \in TMEVTB |-> IF \E i \in {at} : one[i] = d
                                  THEN CHOOSE i \in {at} : one[i] = d ELSE a.pos[d]]
    BY <1>3 DEF Place
  <2>2. \A d \in TMEVTB : (IF \E i \in {at} : one[i] = d
                           THEN CHOOSE i \in {at} : one[i] = d ELSE a.pos[d])
                          = (IF d = e THEN at ELSE a.pos[d])
    BY <1>3
  <2>3. QED
    <3> HIDE DEF a, n
    <3>1. QED  BY <2>1, <2>2
<1>9. g \in [node : {g.node}, pos : {g.pos}]
  <2>1. g = [node |-> g.node, pos |-> g.pos]  BY DEF Place
  <2>2. QED  BY <2>1
<1>10. a.pos \in [TMEVTB -> Nat]
  <2>1. M \subseteq Nat  BY <1>1
  <2>2. \A d \in TMEVTB : a.pos[d] \in Nat  BY <1>1, <1>5, <1>6, <2>1
  <2>3. QED  BY <2>2, <1>4
<1>11. a.node \in [1 .. n -> TMEVTB]  BY <1>1, <1>2
<1> HIDE DEF a
<1>12. g.node \in [1 .. n -> TMEVTB] /\ g.pos \in [TMEVTB -> Nat]
  BY <1>1, <1>7, <1>8, <1>10, <1>11
<1>13. g.node \in Seq(TMEVTB) /\ Len(g.node) = n
  <2> HIDE DEF n
  <2>1. n \in Nat  BY <1>1
  <2>2. QED  BY <1>12, <2>1, Listed
<1>14. g \in TimeHeaps /\ LastNode(g) = n  BY <1>9, <1>12, <1>13 DEF TimeHeaps, LastNode
<1>15. \A x \in 1 .. n : g.node[x] = IF x = at THEN e ELSE IF x \in M THEN to[x] ELSE h.node[x]
  BY <1>7, <1>2
<1>16. g.pos[e] = at /\ \A d \in TMEVTB : d # e => g.pos[d] = a.pos[d]  BY <1>8
<1>17. \A x \in M : to[x] # e => g.pos[to[x]] = x  BY <1>5, <1>16
<1>18. \A d \in TMEVTB : d # e /\ (\A x \in M : to[x] # d) => g.pos[d] = h.pos[d]
  BY <1>6, <1>16
<1>19. QED  BY <1>14, <1>15, <1>16, <1>17, <1>18 DEF a

\* In r the events of the nodes src[x] have moved to the nodes x of M, and e to "at".
Moved(h, r, M, src, at, e) ==
  /\ \A x \in 1 .. LastNode(r) :
       r.node[x] = IF x = at THEN e ELSE IF x \in M THEN h.node[src[x]] ELSE h.node[x]
  /\ r.pos[e] = at
  /\ \A x \in M : h.node[src[x]] # e => r.pos[h.node[src[x]]] = x
  /\ \A d \in TMEVTB : d # e /\ (\A x \in M : h.node[src[x]] # d) => r.pos[d] = h.pos[d]

\* No event is overwritten that stays where it is.
NoneOverwritten(h, r, M, src, at, e, D) ==
  /\ \A x \in M : src[x] \in D /\ h.node[src[x]] # e
  /\ \A x \in 1 .. LastNode(r) :
       \/ x = at \/ x \in M
       \/ x \in D /\ h.node[x] \in TMEVTB /\ h.node[x] # e /\ \A y \in M : src[y] # x

\* The back pointers are right again.
LEMMA Relinked ==
  ASSUME NEW h, NEW r, NEW M, NEW src, NEW at, NEW e, NEW D, Moved(h, r, M, src, at, e),
         Linked(h, D), NoneOverwritten(h, r, M, src, at, e, D)
  PROVE  Linked(r, 1 .. LastNode(r))
<1> SUFFICES ASSUME NEW x \in 1 .. LastNode(r)
             PROVE  r.pos[r.node[x]] = x
  BY DEF Linked
<1>1. CASE x = at  BY <1>1 DEF Moved
<1>2. CASE x # at /\ x \in M
  <2>1. r.node[x] = h.node[src[x]]  BY <1>2 DEF Moved
  <2>2. QED  BY <1>2, <2>1 DEF Moved, NoneOverwritten
<1>3. CASE x # at /\ x \notin M
  <2>1. r.node[x] = h.node[x]  BY <1>3 DEF Moved
  <2>2. \A y \in M : h.node[src[y]] # h.node[x]  BY <1>3 DEF Linked, NoneOverwritten
  <2>3. h.pos[h.node[x]] = x  BY <1>3 DEF Linked, NoneOverwritten
  <2>4. r.pos[h.node[x]] = h.pos[h.node[x]]  BY <1>3, <2>2 DEF Moved, NoneOverwritten
  <2>5. QED  BY <2>1, <2>3, <2>4
<1>4. QED  BY <1>1, <1>2, <1>3

\* No event is left behind but that of the node "hole".
NoneLeft(h, r, M, src, at, e, D, hole) ==
  /\ M \subseteq 1 .. LastNode(r) /\ at \notin M
  /\ \A y \in D \ {hole} : \/ at \in 1 .. LastNode(r) /\ h.node[y] = e
                           \/ y \in 1 .. LastNode(r) /\ y \notin M /\ y # at
                           \/ \E x \in M : src[x] = y

\* Every event is still registered but for that of the node "hole".
LEMMA Kept ==
  ASSUME NEW h, NEW r, NEW M, NEW src, NEW at, NEW e, NEW D, NEW hole,
         Moved(h, r, M, src, at, e), NoneLeft(h, r, M, src, at, e, D, hole)
  PROVE  \A y \in D \ {hole} : h.node[y] \in Registered(r)
<1> SUFFICES ASSUME NEW y \in D \ {hole}
             PROVE  \E x \in 1 .. LastNode(r) : r.node[x] = h.node[y]
  BY DEF Registered
<1>1. CASE at \in 1 .. LastNode(r) /\ h.node[y] = e  BY <1>1 DEF Moved
<1>2. CASE y \in 1 .. LastNode(r) /\ y \notin M /\ y # at  BY <1>2 DEF Moved
<1>3. CASE \E x \in M : src[x] = y
  <2>1. PICK x \in M : src[x] = y  BY <1>3
  <2>2. x \in 1 .. LastNode(r) /\ r.node[x] = h.node[src[x]]
    BY <2>1 DEF Moved, NoneLeft
  <2>3. QED  BY <2>1, <2>2
<1>4. QED  BY <1>1, <1>2, <1>3 DEF NoneLeft

\* tmevt_up, with the nodes that give their events downwards.
LEMMA Up ==
  ASSUME NEW h \in TimeHeaps, NEW key \in [TMEVTB -> Int], NEW i \in 1 .. LastNode(h),
         NEW k \in Int
  PROVE  LET u == tmevt_up(h, key, i, k)
             M == {x \in Ancestors[i] : x > u.at}
         IN  /\ u.at \in Ancestors[i] /\ u.heap = Place(h, [j \in M |-> h.node[j \div 2]])
             /\ u.at > 1 => key[h.node[u.at \div 2]] <= k
             /\ \A j \in M : j > 1 /\ k < key[h.node[j \div 2]]
<1> DEFINE stops == {j \in Ancestors[i] : j = 1 \/ key[h.node[j \div 2]] <= k}
           u == tmevt_up(h, key, i, k)
<1>1. LastNode(h) \in Nat /\ h.node \in [1 .. LastNode(h) -> TMEVTB] BY DEF TimeHeaps, LastNode
<1>2. i \in Nat /\ i > 0  BY <1>1
<1>3. Ancestors[i] \subseteq 1 .. i /\ \A j \in Ancestors[i] : j > 1 => j \div 2 \in Ancestors[i]
  BY <1>2, Chain
<1>4. 1 \in Ancestors[i]
  <2>1. i \in Ancestors[i]  BY <1>2, Chain
  <2>2. PICK m \in Ancestors[i] : \A y \in Ancestors[i] : m <= y
    <3>1. Ancestors[i] \subseteq Nat  BY <1>2, <1>3
    <3>2. QED  BY <2>1, <3>1, Least
  <2>3. ~ (m > 1)
    <3>1. m > 1 => m \div 2 < m  BY <1>3, <1>2
    <3>2. QED  BY <2>2, <3>1, <1>3, <1>2
  <2>4. m = 1  BY <2>2, <2>3, <1>3, <1>2
  <2>5. QED  BY <2>4
<1>5. \E j \in stops : \A x \in stops : x <= j
  <2>1. stops \subseteq 0 .. i /\ stops # {}  BY <1>2, <1>3, <1>4
  <2>2. QED  BY <2>1, <1>2, Greatest
<1>6. u.at = CHOOSE j \in stops : \A x \in stops : x <= j
  BY DEF tmevt_up
<1>7. u.at \in stops /\ \A x \in stops : x <= u.at
  <2> HIDE DEF stops, u
  <2>1. QED  BY <1>5, <1>6
<1>8. u.heap = Place(h, [j \in {x \in Ancestors[i] : x > u.at} |-> h.node[j \div 2]])
  BY <1>6 DEF tmevt_up
<1>9. ASSUME NEW j \in Ancestors[i], j > u.at PROVE j > 1 /\ k < key[h.node[j \div 2]]
  <2>1. u.at \in 1 .. i /\ j \in 1 .. i  BY <1>3, <1>7
  <2>2. j > 1  BY <1>2, <1>9, <2>1
  <2>3. j \notin stops  BY <1>2, <1>7, <1>9, <2>1
  <2>4. j \div 2 \in 1 .. LastNode(h)  BY <1>1, <1>3, <2>2, <1>2
  <2>5. key[h.node[j \div 2]] \in Int  BY <1>1, <2>4
  <2>6. ~ (key[h.node[j \div 2]] <= k)  BY <2>2, <2>3
  <2>7. QED  BY <2>2, <2>5, <2>6
<1>10. u.at > 1 => key[h.node[u.at \div 2]] <= k  BY <1>7
<1> HIDE DEF u
<1>11. QED  BY <1>7, <1>8, <1>9, <1>10 DEF u

----------------------------------------------------------------------------
\* The way down: earlier child after earlier child, one node per level.
LEMMA WayDown ==
  ASSUME NEW h \in TimeHeaps, NEW key, NEW last \in Nat, NEW i \in 1 .. LastNode(h)
  PROVE  LET P == EarlierChildren(h, key, last, i)
             E(j) == EarlierChild(h, key, last, j)
         IN  /\ P \subseteq i .. LastNode(h) /\ i \in P
             /\ \A j \in P : j > i => j \div 2 \in P /\ j = E(j \div 2)
             /\ \A j \in P : E(j) <= LastNode(h) => E(j) \in P
             /\ \A x, y \in P : x < y => x <= y \div 2
<1> DEFINE n == LastNode(h)
           P == EarlierChildren(h, key, last, i)
           E(j) == EarlierChild(h, key, last, j)
<1>1. n \in Nat /\ i \in Nat /\ i > 0  BY DEF TimeHeaps, LastNode
<1>2. \A j : j \in P <=> /\ j \in 1 .. n /\ i \in Ancestors[j]
                         /\ \A x \in Ancestors[j] : x > i => x = E(x \div 2)
  BY DEF EarlierChildren
<1>3. \A j \in Nat : E(j) \in Nat /\ E(j) \div 2 = j /\ (j > 0 => E(j) > j)
  BY DEF EarlierChild
<1> HIDE DEF P, E, n
<1>4. i \in P
  <2>1. i \in Ancestors[i] /\ Ancestors[i] \subseteq 1 .. i  BY <1>1, Chain
  <2>2. QED  BY <2>1, <1>1, <1>2 DEF n
<1>5. ASSUME NEW j \in P PROVE j \in Nat /\ i <= j /\ j <= n
  <2>1. j \in 1 .. n /\ i \in Ancestors[j]  BY <1>2
  <2>2. j \in Nat  BY <2>1, <1>1
  <2>3. Ancestors[j] \subseteq 1 .. j  BY <2>2, Chain
  <2>4. QED  BY <2>1, <2>2, <2>3, <1>1
<1>6. ASSUME NEW j \in P, j > i PROVE j \div 2 \in P /\ j = E(j \div 2)
  <2>1. j \in 1 .. n /\ i \in Ancestors[j] /\ j \in Nat  BY <1>1, <1>2, <1>5
  <2>2. j \in Ancestors[j] /\ j \div 2 \in Ancestors[j] /\ i <= j \div 2
    BY <1>1, <1>6, <2>1, Chain
  <2>3. j = E(j \div 2)  BY <1>2, <1>6, <2>2
  <2>4. \A x \in Nat : x \in Ancestors[j \div 2] <=> x \in Ancestors[j] /\ x <= j \div 2
    BY <2>1, <2>2, Chain
  <2>5. i \in Ancestors[j \div 2]  BY <1>1, <2>1, <2>2, <2>4
  <2>6. j \div 2 \in Nat /\ j \div 2 \in 1 .. n  BY <1>1, <2>1, <2>2
  <2>7. Ancestors[j \div 2] \subseteq Ancestors[j]
    <3>1. Ancestors[j \div 2] \subseteq Nat  BY <2>6, Chain
    <3>2. QED  BY <2>4, <3>1
  <2>8. j \div 2 \in P  BY <1>2, <2>5, <2>6, <2>7
  <2>9. QED  BY <2>3, <2>8
<1>7. ASSUME NEW j \in P, E(j) <= n PROVE E(j) \in P
  <2>1. j \in Nat /\ j > 0  BY <1>1, <1>5
  <2>2. E(j) \in Nat /\ E(j) \div 2 = j /\ E(j) > j  BY <1>3, <2>1
  <2>3. Ancestors[E(j)] = {E(j)} \cup Ancestors[j]
    <3>1. Ancestors[E(j)] = IF E(j) = 0 THEN {} ELSE {E(j)} \cup Ancestors[E(j) \div 2]
      BY <2>2, AncestorsOf
    <3>2. QED  BY <2>1, <2>2, <3>1
  <2>4. \A x \in Ancestors[E(j)] : x > i => x = E(x \div 2)
    BY <1>2, <2>2, <2>3
  <2>5. i \in Ancestors[E(j)]  BY <1>2, <2>3
  <2>6. E(j) \in 1 .. n  BY <1>1, <1>7, <2>1, <2>2
  <2>7. QED  BY <1>2, <2>4, <2>5, <2>6
<1>8. \A x, y \in P : x < y => x <= y \div 2
  <2> DEFINE S == {y \in P : \E x \in P : x < y /\ ~ (x <= y \div 2)}
  <2>1. SUFFICES ASSUME S # {} PROVE FALSE  OBVIOUS
  <2>2. PICK y \in S : \A z \in S : y <= z
    <3>1. S \subseteq Nat  BY <1>5
    <3>2. QED  BY <2>1, <3>1, Least
  <2>3. PICK x \in P : x < y /\ ~ (x <= y \div 2)  BY <2>2
  <2>4. x \in Nat /\ y \in Nat /\ y \in P /\ i <= x  BY <1>5, <2>2, <2>3
  <2>5. y > i /\ y \div 2 \in P /\ y = E(y \div 2)  BY <1>1, <1>6, <2>3, <2>4
  <2>6. y \div 2 \in Nat /\ i <= y \div 2  BY <1>5, <2>5
  <2>7. x > i /\ x \div 2 \in P /\ x = E(x \div 2)  BY <1>1, <1>6, <2>3, <2>4, <2>6
  <2>8. x \notin S  BY <2>2, <2>3, <2>4
  <2>9. y \div 2 < x  BY <2>3, <2>4, <2>6
  <2>10. y \div 2 <= x \div 2  BY <2>5, <2>8, <2>9
  <2>11. x \div 2 <= y \div 2  BY <2>3, <2>4
  <2>12. x \div 2 = y \div 2  BY <2>4, <2>10, <2>11
  <2>13. QED  BY <2>3, <2>4, <2>5, <2>7, <2>12
<1>9. P \subseteq i .. n  BY <1>1, <1>5
<1>10. QED  BY <1>4, <1>6, <1>7, <1>8, <1>9 DEF P, E, n

\* tmevt_down, with the nodes that get the event of their earlier child.
LEMMA Down ==
  ASSUME NEW h \in TimeHeaps, NEW key \in [TMEVTB -> Int], NEW last \in Nat,
         last <= LastNode(h), NEW i \in 1 .. LastNode(h), NEW k \in Int
  PROVE  LET d == tmevt_down(h, key, last, i, k)
             P == EarlierChildren(h, key, last, i)
             E(j) == EarlierChild(h, key, last, j)
             M == {x \in P : x < d.at}
         IN  /\ d.at \in P /\ d.heap = Place(h, [j \in M |-> h.node[E(j)]])
             /\ 2 * d.at > last \/ k <= key[h.node[E(d.at)]]
             /\ \A j \in M : 2 * j <= last /\ E(j) <= last /\ E(j) \in P /\ E(j) <= d.at
                             /\ key[h.node[E(j)]] < k
             /\ d.at > i => d.at \div 2 \in M /\ d.at = E(d.at \div 2)
<1> DEFINE n == LastNode(h)
           P == EarlierChildren(h, key, last, i)
           E(j) == EarlierChild(h, key, last, j)
           stops == {j \in P : 2 * j > last \/ k <= key[h.node[E(j)]]}
           d == tmevt_down(h, key, last, i, k)
<1>1. n \in Nat /\ h.node \in [1 .. n -> TMEVTB] /\ i \in Nat /\ i > 0
  BY DEF TimeHeaps, LastNode
<1>2. \A j \in Nat : /\ E(j) \in Nat /\ E(j) \div 2 = j /\ (j > 0 => E(j) > j)
                     /\ 2 * j <= last => E(j) <= last
  BY DEF EarlierChild
<1>3. /\ P \subseteq i .. n /\ i \in P
      /\ \A j \in P : j > i => j \div 2 \in P /\ j = E(j \div 2)
      /\ \A j \in P : E(j) <= n => E(j) \in P
      /\ \A x, y \in P : x < y => x <= y \div 2
  BY WayDown
<1>4. d.at = CHOOSE j \in stops : \A x \in stops : j <= x
  BY DEF tmevt_down
<1>5. d.heap = Place(h, [j \in {x \in P : x < d.at} |-> h.node[E(j)]])
  BY <1>4 DEF tmevt_down
<1> HIDE DEF P, E, n, d
<1>6. \E j \in stops : \A x \in stops : j <= x
  <2>1. PICK m \in P : \A y \in P : y <= m
    <3>1. P \subseteq 0 .. n /\ P # {}  BY <1>1, <1>3
    <3>2. QED  BY <1>1, <3>1, Greatest
  <2>2. m \in Nat /\ m > 0  BY <1>1, <1>3
  <2>3. CASE 2 * m > last
    <3>1. m \in stops  BY <2>3
    <3>2. stops \subseteq Nat
      <4>1. P \subseteq Nat  BY <1>1, <1>3
      <4>2. QED  BY <4>1
    <3> HIDE DEF stops
    <3>3. QED  BY <3>1, <3>2, Least
  <2>4. CASE 2 * m <= last
    <3>1. E(m) <= last /\ E(m) > m /\ E(m) \in Nat  BY <1>2, <2>2, <2>4
    <3>2. E(m) <= n  BY <1>1, <3>1 DEF n
    <3>3. E(m) \in P  BY <1>3, <3>2
    <3>4. QED  BY <2>1, <2>2, <3>1, <3>3
  <2>5. QED  BY <2>2, <2>3, <2>4
<1>7. d.at \in stops /\ \A x \in stops : d.at <= x
  <2> HIDE DEF stops
  <2>1. QED  BY <1>4, <1>6
<1>8. d.at \in P /\ d.at \in Nat /\ i <= d.at
  <2>1. stops \subseteq P  OBVIOUS
  <2>2. d.at \in P
    <3> HIDE DEF stops
    <3>1. QED  BY <1>7, <2>1
  <2>3. d.at \in i .. n  BY <1>3, <2>2
  <2>4. QED  BY <1>1, <2>2, <2>3
<1>9. ASSUME NEW j \in P, j < d.at
      PROVE  2 * j <= last /\ E(j) <= last /\ E(j) \in P /\ E(j) <= d.at /\ key[h.node[E(j)]] < k
  <2>1. j \in Nat /\ j > 0 /\ j <= n  BY <1>1, <1>3
  <2>2. j \notin stops  BY <1>7, <1>8, <1>9, <2>1
  <2>3. 2 * j <= last /\ ~ (k <= key[h.node[E(j)]])  BY <2>1, <2>2
  <2>4. E(j) <= last /\ E(j) \in Nat /\ E(j) \div 2 = j /\ E(j) > j  BY <1>2, <2>1, <2>3
  <2>5. E(j) <= n  BY <1>1, <2>4 DEF n
  <2>6. E(j) \in P  BY <1>3, <2>5
  <2>7. key[h.node[E(j)]] \in Int  BY <1>1, <2>1, <2>4, <2>5
  <2>8. E(j) <= d.at
    <3>1. ~ (d.at < E(j))
      <4>1. SUFFICES ASSUME d.at < E(j) PROVE FALSE  OBVIOUS
      <4>2. d.at <= E(j) \div 2  BY <1>3, <1>8, <2>6, <4>1
      <4>3. QED  BY <1>8, <1>9, <2>1, <2>4, <4>2
    <3>2. QED  BY <1>8, <2>4, <3>1
  <2>9. QED  BY <2>3, <2>4, <2>6, <2>7, <2>8
<1>10. d.at > i => d.at \div 2 \in P /\ d.at \div 2 < d.at /\ d.at = E(d.at \div 2)
  BY <1>1, <1>3, <1>8
<1>11. 2 * d.at > last \/ k <= key[h.node[E(d.at)]]  BY <1>7
<1>12. QED  BY <1>5, <1>8, <1>9, <1>10, <1>11 DEF P, E, n, d

\* The nodes of M, on the way from i up to "at", have the events of their parents in r,
\* and "at" one of time k.
MovedUp(h, r, key, L, i, at, M, k) ==
  /\ L \in Nat /\ i \in 1 .. L /\ at \in Ancestors[i] /\ k \in Int
  /\ M = {x \in Ancestors[i] : x > at}
  /\ \A x \in 1 .. L : key[h.node[x]] \in Int
  /\ \A x \in 2 .. L : x # i \/ 2 * i <= L => key[h.node[x \div 2]] <= key[h.node[x]]
  /\ at > 1 => key[h.node[at \div 2]] <= k
  /\ \A j \in M : k < key[h.node[j \div 2]]
  /\ at = i => 2 * i > L
  /\ key[r.node[at]] = k
  /\ \A x \in M : r.node[x] = h.node[x \div 2]
  /\ \A x \in 1 .. L : x \notin M /\ x # at => r.node[x] = h.node[x]

\* The heap is in order again when e, of time k, is at the node where tmevt_up stops.
LEMMA UpIsOrdered ==
  ASSUME NEW h, NEW r, NEW key, NEW L, NEW i, NEW at, NEW M, NEW k,
         MovedUp(h, r, key, L, i, at, M, k)
  PROVE  \A c \in 2 .. L : key[r.node[c \div 2]] <= key[r.node[c]]
<1> USE DEF MovedUp
<1>1. /\ i \in Nat /\ i > 0 /\ Ancestors[i] \subseteq 1 .. i /\ i \in Ancestors[i]
      /\ \A j \in Ancestors[i] : j > 1 => j \div 2 \in Ancestors[i]
      /\ \A x, y \in Ancestors[i] : x < y => x <= y \div 2
      /\ \A j \in Ancestors[i] : j < i => \E c \in Ancestors[i] : c \div 2 = j
  <2>1. i \in Nat /\ i > 0  OBVIOUS
  <2>2. QED  BY <2>1, Chain
<1>2. at \in 1 .. i /\ at \in Nat  BY <1>1
<1>3. ASSUME NEW j \in M
      PROVE  /\ j \in Nat /\ j > 1 /\ j <= i /\ j \div 2 \in Ancestors[i] /\ at <= j \div 2
  <2>1. j \in Ancestors[i] /\ at < j /\ j \in 1 .. i  BY <1>1
  <2>2. j \in Nat /\ j > 1  BY <1>2, <2>1
  <2>3. QED  BY <1>1, <2>1, <2>2
<1> SUFFICES ASSUME NEW c \in 2 .. L PROVE key[r.node[c \div 2]] <= key[r.node[c]]
  OBVIOUS
<1> DEFINE p == c \div 2
<1>4. c \in Nat /\ p \in Nat /\ p >= 1 /\ p < c /\ c <= L /\ p \in 1 .. L /\ c \in 1 .. L
      /\ p = c \div 2 /\ 2 * p <= c
  OBVIOUS
<1> HIDE DEF p
<1>5. CASE c \in M
  <2>1. r.node[c] = h.node[p] /\ p \in Ancestors[i] /\ at <= p /\ k < key[h.node[p]] /\ p < i
    BY <1>3, <1>4, <1>5
  <2>2. CASE p = at  BY <1>4, <2>1, <2>2
  <2>3. CASE p # at
    <3>1. p \in M  BY <1>2, <1>4, <2>1, <2>3
    <3>2. r.node[p] = h.node[p \div 2] /\ p \in 2 .. L  BY <1>3, <1>4, <3>1
    <3>3. key[h.node[p \div 2]] <= key[h.node[p]]  BY <1>1, <1>4, <2>1, <3>2
    <3>4. QED  BY <1>4, <2>1, <3>2, <3>3
  <2>4. QED  BY <2>2, <2>3
<1>6. CASE c = at
  <2>1. key[r.node[c]] = k  BY <1>6
  <2>2. p \notin M /\ p # at  BY <1>2, <1>4, <1>6
  <2>3. r.node[p] = h.node[p]  BY <1>4, <2>2
  <2>4. key[h.node[p]] <= k  BY <1>4, <1>6
  <2>5. QED  BY <1>4, <2>1, <2>3, <2>4
<1>7. CASE c \notin M /\ c # at
  <2>1. c # i
    <3>1. i = at \/ i \in M  BY <1>1, <1>2
    <3>2. QED  BY <1>7, <3>1
  <2>2. /\ r.node[c] = h.node[c] /\ key[h.node[p]] <= key[h.node[c]]
        /\ key[h.node[p]] \in Int /\ key[h.node[c]] \in Int
    BY <1>4, <1>7, <2>1
  <2>3. CASE p \in M
    <3>1. r.node[p] = h.node[p \div 2] /\ p \in 2 .. L  BY <1>3, <1>4, <2>3
    <3>2. p # i \/ 2 * i <= L  BY <1>1, <1>4
    <3>3. key[h.node[p \div 2]] <= key[h.node[p]] BY <3>1, <3>2
    <3>4. p \div 2 \in 1 .. L  BY <1>4, <3>1
    <3>5. key[h.node[p \div 2]] \in Int  BY <3>4
    <3>6. QED  BY <1>4, <2>2, <3>1, <3>3, <3>5
  <2>4. CASE p = at
    <3>1. p < i  BY <1>1, <1>2, <1>4, <2>4
    <3>2. PICK y \in Ancestors[i] : y \div 2 = p  BY <1>1, <2>4, <3>1
    <3>3. y \in Nat /\ y > p  BY <1>1, <1>4, <3>2
    <3>4. y \in M  BY <2>4, <3>2, <3>3
    <3>5. k < key[h.node[p]]  BY <3>2, <3>4
    <3>6. QED  BY <1>4, <2>2, <2>4, <3>5
  <2>5. CASE p \notin M /\ p # at
    <3>1. r.node[p] = h.node[p]  BY <1>4, <2>5
    <3>2. QED  BY <1>4, <2>2, <3>1
  <2>6. QED  BY <2>3, <2>4, <2>5
<1>8. QED  BY <1>5, <1>6, <1>7

\* The nodes of M, on the way from i down to "at", have the events of their earlier
\* children in r, and "at" one of time k.
MovedDown(h, r, key, L, i, at, P, M, k) ==
  /\ L \in Nat /\ L <= LastNode(h) /\ i \in 1 .. LastNode(h) /\ k \in Int
  /\ P = EarlierChildren(h, key, L, i) /\ at \in P /\ M = {x \in P : x < at}
  /\ \A x \in 1 .. L : key[h.node[x]] \in Int
  /\ \A x \in 2 .. L : key[h.node[x \div 2]] <= key[h.node[x]]
  /\ i > 1 => key[h.node[i \div 2]] <= k
  /\ 2 * at > L \/ k <= key[h.node[EarlierChild(h, key, L, at)]]
  /\ \A j \in M : /\ EarlierChild(h, key, L, j) <= L /\ EarlierChild(h, key, L, j) \in P
                  /\ EarlierChild(h, key, L, j) <= at
                  /\ key[h.node[EarlierChild(h, key, L, j)]] < k
                  /\ r.node[j] = h.node[EarlierChild(h, key, L, j)]
  /\ at <= L => key[r.node[at]] = k
  /\ \A x \in 1 .. L : x \notin M /\ x # at => r.node[x] = h.node[x]

\* The same of tmevt_down, in a heap that ends at L.
LEMMA DownIsOrdered ==
  ASSUME NEW h \in TimeHeaps, NEW r, NEW key, NEW L, NEW i, NEW at, NEW P, NEW M, NEW k,
         MovedDown(h, r, key, L, i, at, P, M, k)
  PROVE  \A c \in 2 .. L : key[r.node[c \div 2]] <= key[r.node[c]]
<1> USE DEF MovedDown
<1> DEFINE E(j) == EarlierChild(h, key, L, j)
<1>1. /\ P \subseteq i .. LastNode(h) /\ i \in P
      /\ \A j \in P : j > i => j \div 2 \in P /\ j = E(j \div 2)
  BY WayDown
<1>2. LastNode(h) \in Nat /\ i \in Nat /\ at \in Nat /\ i <= at
  <2>1. LastNode(h) \in Nat  BY DEF TimeHeaps, LastNode
  <2>2. QED  BY <1>1, <2>1
<1>3. ASSUME NEW j \in Nat, NEW c \in Nat, c \div 2 = j, j > 0, c <= L
      PROVE  E(j) \in 1 .. L /\ E(j) > j /\ E(j) \div 2 = j /\ key[h.node[E(j)]] <= key[h.node[c]]
  <2>1. c = 2 * j \/ c = 2 * j + 1  BY <1>3
  <2>2. 2 * j \in 1 .. L  BY <1>3, <2>1
  <2>3. key[h.node[2 * j]] \in Int  BY <2>2
  <2>4. c \in 1 .. L /\ key[h.node[c]] \in Int  BY <1>3
  <2>5. CASE 2 * j + 1 <= L /\ key[h.node[2 * j + 1]] < key[h.node[2 * j]]
    <3>1. E(j) = 2 * j + 1  BY <2>5 DEF EarlierChild
    <3>2. 2 * j + 1 \in 1 .. L  BY <2>2, <2>5
    <3>3. key[h.node[2 * j + 1]] \in Int  BY <3>2
    <3>4. key[h.node[2 * j + 1]] <= key[h.node[c]]  BY <2>1, <2>3, <2>5, <3>3
    <3> HIDE DEF E
    <3>5. QED  BY <1>3, <3>1, <3>2, <3>4
  <2>6. CASE ~ (2 * j + 1 <= L /\ key[h.node[2 * j + 1]] < key[h.node[2 * j]])
    <3>1. E(j) = 2 * j  BY <2>6 DEF EarlierChild
    <3>2. key[h.node[2 * j]] <= key[h.node[c]]
      <4>1. CASE c = 2 * j  BY <4>1, <2>3
      <4>2. CASE c = 2 * j + 1
        <5>1. ~ (key[h.node[c]] < key[h.node[2 * j]])  BY <1>3, <2>6, <4>2
        <5>2. QED  BY <2>3, <2>4, <5>1
      <4>3. QED  BY <2>1, <4>1, <4>2
    <3> HIDE DEF E
    <3>3. QED  BY <1>3, <2>2, <3>1, <3>2
  <2>7. QED  BY <2>5, <2>6
<1>4. 2 * at > L \/ k <= key[h.node[E(at)]]  OBVIOUS
<1>5. \A j \in M : /\ E(j) <= L /\ E(j) \in P /\ E(j) <= at /\ key[h.node[E(j)]] < k
                   /\ r.node[j] = h.node[E(j)] /\ j \in P /\ j < at
  OBVIOUS
<1>6. \A j \in P : j < at => j \in M  OBVIOUS
<1> HIDE DEF E
<1> SUFFICES ASSUME NEW c \in 2 .. L PROVE key[r.node[c \div 2]] <= key[r.node[c]]
  OBVIOUS
<1> DEFINE p == c \div 2
<1>7. c \in Nat /\ p \in Nat /\ p >= 1 /\ p < c /\ c <= L /\ p \in 1 .. L /\ c \in 1 .. L
      /\ p = c \div 2 /\ 2 * p <= c /\ p > 0
  OBVIOUS
<1> HIDE DEF p
<1>8. /\ key[h.node[p]] <= key[h.node[c]] /\ key[h.node[p]] \in Int /\ key[h.node[c]] \in Int
      /\ E(p) \in 1 .. L /\ E(p) > p /\ E(p) \div 2 = p /\ key[h.node[E(p)]] <= key[h.node[c]]
      /\ key[h.node[E(p)]] \in Int
  <2>1. key[h.node[p]] <= key[h.node[c]] /\ key[h.node[p]] \in Int /\ key[h.node[c]] \in Int
    BY <1>7
  <2>2. E(p) \in 1 .. L /\ E(p) > p /\ E(p) \div 2 = p /\ key[h.node[E(p)]] <= key[h.node[c]]
    BY <1>3, <1>7
  <2>3. QED  BY <2>1, <2>2
<1>9. c \in P /\ c > i => p \in P /\ c = E(p)  BY <1>1, <1>7
<1>10. CASE p \in M
  <2>1. /\ E(p) <= at /\ E(p) \in P /\ key[h.node[E(p)]] < k /\ r.node[p] = h.node[E(p)]
        /\ p \in P /\ p >= i
    BY <1>1, <1>2, <1>5, <1>10
  <2>2. CASE c = E(p)
    <3>1. CASE c = at
      <4>1. key[r.node[c]] = k  BY <1>7, <3>1
      <4>2. r.node[p] = h.node[E(p)] /\ key[h.node[E(p)]] < k  BY <2>1
      <4>3. QED  BY <1>7, <1>8, <4>1, <4>2
    <3>2. CASE c # at
      <4>1. c \in M  BY <1>2, <1>6, <1>7, <2>1, <2>2, <3>2
      <4>2. r.node[c] = h.node[E(c)] /\ E(c) <= L  BY <1>5, <4>1
      <4>3. key[h.node[c]] <= key[h.node[E(c)]]
        <5>1. E(c) \in 2 .. L /\ E(c) \div 2 = c
          <6>1. E(c) \in Nat /\ E(c) \div 2 = c  BY <1>7 DEF E, EarlierChild
          <6>2. QED  BY <1>7, <4>2, <6>1
        <5>2. QED  BY <5>1
      <4>4. QED  BY <1>7, <2>1, <2>2, <4>2, <4>3
    <3>3. QED  BY <3>1, <3>2
  <2>3. CASE c # E(p)
    <3>1. c \notin P  BY <1>2, <1>7, <1>9, <2>1, <2>3
    <3>2. r.node[c] = h.node[c]
      <4>1. c \notin M /\ c # at  BY <1>5, <3>1
      <4>2. QED  BY <1>7, <4>1
    <3>3. QED  BY <1>7, <1>8, <2>1, <3>2
  <2>4. QED  BY <2>2, <2>3
<1>11. CASE p = at
  <2>1. c \notin M /\ c # at
    <3>1. c \in M => c < at  BY <1>5
    <3>2. QED  BY <1>2, <1>7, <1>11, <3>1
  <2>2. r.node[c] = h.node[c] /\ key[r.node[p]] = k  BY <1>7, <1>11, <2>1
  <2>3. k <= key[h.node[E(p)]]  BY <1>4, <1>7, <1>11
  <2>4. QED  BY <1>7, <1>8, <2>2, <2>3
<1>12. CASE p \notin M /\ p # at
  <2>1. r.node[p] = h.node[p]  BY <1>7, <1>12
  <2>2. CASE c \in P /\ c > i /\ c <= at
    <3>1. p \in P /\ p < at  BY <1>2, <1>7, <1>9, <2>2
    <3>2. QED  BY <1>6, <1>12, <3>1
  <2>3. CASE c = i
    <3>1. CASE c = at
      <4>1. key[r.node[c]] = k /\ key[h.node[p]] <= k  BY <1>7, <2>3, <3>1
      <4>2. QED  BY <1>7, <2>1, <4>1
    <3>2. CASE c # at
      <4>1. c \in M  BY <1>1, <1>2, <1>6, <2>3, <3>2
      <4>2. r.node[c] = h.node[E(c)] /\ E(c) <= L  BY <1>5, <4>1
      <4>3. E(c) \in 2 .. L /\ E(c) \div 2 = c
        <5>1. E(c) \in Nat /\ E(c) \div 2 = c  BY <1>7 DEF E, EarlierChild
        <5>2. QED  BY <1>7, <4>2, <5>1
      <4>4. key[h.node[c]] <= key[h.node[E(c)]] /\ key[h.node[E(c)]] \in Int  BY <4>3
      <4>5. QED  BY <1>7, <1>8, <2>1, <4>2, <4>4
    <3>3. QED  BY <3>1, <3>2
  <2>4. CASE ~ (c \in P /\ c >= i /\ c <= at)
    <3>1. c \notin M /\ c # at
      <4>1. c \in M \/ c = at => c \in P /\ c <= at  BY <1>2, <1>5, <1>7
      <4>2. c \in P => c >= i  BY <1>1, <1>2
      <4>3. QED  BY <2>4, <4>1, <4>2
    <3>2. r.node[c] = h.node[c]  BY <1>7, <3>1
    <3>3. QED  BY <1>7, <1>8, <2>1, <3>2
  <2>5. QED  BY <1>2, <1>7, <2>2, <2>3, <2>4
<1>13. QED  BY <1>10, <1>11, <1>12, <1>5, <1>6

----------------------------------------------------------------------------
(* Insertion and deletion.                                                 *)

\* The types of a heap's parts.
LEMMA TheRegistered ==
  ASSUME NEW h \in TimeHeaps
  PROVE  /\ LastNode(h) \in Nat /\ h.node \in [1 .. LastNode(h) -> TMEVTB]
         /\ h.pos \in [TMEVTB -> Nat] /\ Registered(h) \subseteq TMEVTB
BY DEF TimeHeaps, LastNode, Registered

\* tmevtb_insert keeps the order and the back pointers and adds the event.
LEMMA InsertKeepsOrder ==
  ASSUME NEW h \in TimeHeaps, NEW key \in [TMEVTB -> Int], InOrder(h, key),
         NEW e \in TMEVTB \ Registered(h)
  PROVE  LET r == tmevtb_insert(h, key, e) IN
         /\ r \in TimeHeaps /\ InOrder(r, key)
         /\ LastNode(r) = LastNode(h) + 1 /\ Registered(r) = Registered(h) \cup {e}
<1> DEFINE n == LastNode(h)
           i == n + 1
           h1 == [h EXCEPT !.node = Append(@, e)]
           u == tmevt_up(h1, key, i, key[e])
           M == {x \in Ancestors[i] : x > u.at}
           src == [j \in M |-> j \div 2]
           to == [j \in M |-> h1.node[j \div 2]]
           r == tmevtb_insert(h, key, e)
<1>1. n \in Nat /\ h.node \in [1 .. n -> TMEVTB] /\ h.pos \in [TMEVTB -> Nat]
      /\ h.node \in Seq(TMEVTB) /\ n = Len(h.node)
  BY TheRegistered DEF TimeHeaps, LastNode
<1>2. h1 \in TimeHeaps /\ LastNode(h1) = i /\ h1.node[i] = e /\ h1.pos = h.pos
      /\ \A x \in 1 .. n : h1.node[x] = h.node[x]
  <2>1. h1.node = Append(h.node, e) /\ h1.pos = h.pos  BY DEF TimeHeaps
  <2>2. Append(h.node, e) \in Seq(TMEVTB) /\ Len(Append(h.node, e)) = i  BY <1>1
  <2>3. h1 \in TimeHeaps  BY <2>1, <2>2 DEF TimeHeaps
  <2>4. QED  BY <1>1, <2>1, <2>2, <2>3 DEF LastNode
<1>3. r = Place(u.heap, [x \in {u.at} |-> e])
  BY DEF tmevtb_insert
<1>4. i \in 1 .. LastNode(h1) /\ key[e] \in Int  BY <1>1, <1>2
<1> HIDE DEF n, i, h1, u, r
<1>5. /\ u.at \in Ancestors[i] /\ u.heap = Place(h1, to)
      /\ u.at > 1 => key[h1.node[u.at \div 2]] <= key[e]
      /\ \A j \in M : j > 1 /\ key[e] < key[h1.node[j \div 2]]
  BY <1>2, <1>4, Up DEF u
<1>6. /\ i \in Nat /\ i > 0 /\ i = n + 1
      /\ Ancestors[i] \subseteq 1 .. i /\ i \in Ancestors[i]
      /\ \A j \in Ancestors[i] : j > 1 => j \div 2 \in Ancestors[i]
      /\ \A x, y \in Ancestors[i] : x < y => x <= y \div 2
      /\ \A j \in Ancestors[i] : j < i => \E c \in Ancestors[i] : c \div 2 = j
  BY <1>1, Chain DEF i
<1>7. u.at \in 1 .. i /\ u.at \in Nat /\ M \in SUBSET (2 .. i) /\ u.at \notin M
  BY <1>5, <1>6
<1>8. ASSUME NEW j \in M
      PROVE  /\ j \in Nat /\ j \div 2 \in 1 .. n /\ j \div 2 \in Ancestors[i]
             /\ u.at <= j \div 2 /\ h1.node[j \div 2] = h.node[j \div 2]
  <2>1. j \in 2 .. i /\ j \in Ancestors[i] /\ u.at < j  BY <1>7
  <2>2. u.at <= j \div 2 /\ j \div 2 \in Ancestors[i]  BY <1>5, <1>6, <2>1
  <2>3. j \in Nat /\ j \div 2 \in 1 .. n  BY <1>1, <1>6, <2>1
  <2>4. QED  BY <1>2, <2>2, <2>3
<1>9. \A x \in 1 .. n : h.pos[h.node[x]] = x /\ h.node[x] \in TMEVTB /\ h.node[x] # e
  BY <1>1 DEF InOrder, Registered, n
<1>10. ASSUME NEW x \in M, NEW y \in M, x \div 2 = y \div 2 PROVE x = y
  <2>1. x \in Nat /\ y \in Nat /\ x > 1 /\ y > 1 /\ x \in Ancestors[i] /\ y \in Ancestors[i]
    BY <1>7, <1>6
  <2>2. ~ (x < y) /\ ~ (y < x)  BY <1>6, <1>10, <2>1
  <2>3. QED  BY <2>1, <2>2
<1>11. \A x, y \in M : to[x] = to[y] => x = y
  <2> SUFFICES ASSUME NEW x \in M, NEW y \in M, to[x] = to[y] PROVE x = y  OBVIOUS
  <2>1. h.node[x \div 2] = h.node[y \div 2]  BY <1>8
  <2>2. x \div 2 = y \div 2
    <3>1. h.pos[h.node[x \div 2]] = x \div 2 /\ h.pos[h.node[y \div 2]] = y \div 2
      BY <1>8, <1>9
    <3>2. QED  BY <2>1, <3>1
  <2>3. QED  BY <1>10, <2>2
<1>12. to \in [M -> TMEVTB]  BY <1>8, <1>9
<1>13. /\ r \in TimeHeaps /\ LastNode(r) = i
       /\ \A x \in 1 .. i :
            r.node[x] = IF x = u.at THEN e ELSE IF x \in M THEN to[x] ELSE h1.node[x]
       /\ r.pos[e] = u.at
       /\ \A x \in M : to[x] # e => r.pos[to[x]] = x
       /\ \A d \in TMEVTB : d # e /\ (\A x \in M : to[x] # d) => r.pos[d] = h1.pos[d]
  <2>1. M \in SUBSET (1 .. LastNode(h1)) /\ u.at \in 1 .. LastNode(h1)  BY <1>2, <1>6, <1>7
  <2>2. r = Place(Place(h1, to), [x \in {u.at} |-> e])  BY <1>3, <1>5
  <2> DEFINE one == [x \in {u.at} |-> e]
  <2>3. one \in [{u.at} -> TMEVTB] /\ one[u.at] = e  OBVIOUS
  <2>4. r = Place(Place(h1, to), one)  BY <2>2
  <2> HIDE DEF M, to, one
  <2>5. u.at \notin M  BY <1>7
  <2>6. Places(h1, M, to, u.at, e, one)
    BY <1>11, <1>12, <2>1, <2>3, <2>5 DEF Places
  <2>7. QED  BY <1>2, <2>4, <2>6, PlaceTwice
<1>14. Moved(h1, r, M, src, u.at, e)
  <2>1. \A x \in M : src[x] = x \div 2 /\ to[x] = h1.node[src[x]]  OBVIOUS
  <2> HIDE DEF M, src, to
  <2>2. QED  BY <1>13, <2>1 DEF Moved
<1>15. Linked(h1, 1 .. n)  BY <1>2, <1>9 DEF Linked
<1>16. \A x \in M : src[x] \in 1 .. n /\ h1.node[src[x]] # e
  BY <1>8, <1>9
<1>17. ASSUME NEW x \in 1 .. LastNode(r)
       PROVE  \/ x = u.at \/ x \in M
              \/ /\ x \in 1 .. n /\ h1.node[x] \in TMEVTB /\ h1.node[x] # e
                 /\ \A y \in M : src[y] # x
  <2>1. CASE x = i
    <3>1. x \in Ancestors[i] /\ x >= u.at  BY <1>6, <1>7, <2>1
    <3>2. QED  BY <1>6, <1>7, <2>1, <3>1
  <2>2. CASE x # i /\ x \notin M /\ x # u.at
    <3>1. x \in 1 .. n  BY <1>1, <1>6, <1>13, <2>2
    <3>2. \A y \in M : y \div 2 # x
      <4>1. SUFFICES ASSUME NEW y \in M, y \div 2 = x PROVE FALSE  OBVIOUS
      <4>2. x \in Ancestors[i] /\ u.at <= x  BY <1>8, <4>1
      <4>3. x > u.at  BY <1>1, <1>7, <2>2, <3>1, <4>2
      <4>4. QED  BY <2>2, <4>2, <4>3
    <3>3. h1.node[x] \in TMEVTB /\ h1.node[x] # e  BY <1>2, <1>9, <3>1
    <3>4. QED  BY <3>1, <3>2, <3>3
  <2>3. QED  BY <2>1, <2>2
<1>18. Linked(r, 1 .. LastNode(r))
  <2> HIDE DEF M, src, to
  <2>1. NoneOverwritten(h1, r, M, src, u.at, e, 1 .. n)  BY <1>16, <1>17 DEF NoneOverwritten
  <2>2. QED  BY <1>14, <1>15, <2>1, Relinked
<1>19. \A x \in 1 .. n : h1.node[x] \in Registered(r)
  <2>1. ASSUME NEW y \in (1 .. n) \ {i}
        PROVE  \/ u.at \in 1 .. LastNode(r) /\ h1.node[y] = e
               \/ y \in 1 .. LastNode(r) /\ y \notin M /\ y # u.at
               \/ \E x \in M : src[x] = y
    <3>1. y \in Nat /\ y <= n /\ y < i /\ y \in 1 .. LastNode(r)  BY <1>1, <1>6, <1>13
    <3>2. CASE y \in M \/ y = u.at
      <4>1. y \in Ancestors[i] /\ u.at <= y  BY <1>5, <1>7, <3>1, <3>2
      <4>2. PICK c \in Ancestors[i] : c \div 2 = y  BY <1>6, <3>1, <4>1
      <4>3. c \in Nat /\ c > y  BY <1>6, <3>1, <4>1, <4>2
      <4>4. c \in M  BY <1>7, <3>1, <4>1, <4>3
      <4>5. src[c] = y  BY <4>2, <4>4
      <4>6. QED  BY <4>4, <4>5
    <3>3. QED  BY <3>1, <3>2
  <2>2. M \subseteq 1 .. LastNode(r)  BY <1>6, <1>7, <1>13
  <2> HIDE DEF M, src, to
  <2>3. \A x \in (1 .. n) \ {i} : h1.node[x] \in Registered(r)
    <3>1. NoneLeft(h1, r, M, src, u.at, e, 1 .. n, i)  BY <1>7, <2>1, <2>2 DEF NoneLeft
    <3>2. QED  BY <1>14, <3>1, Kept
  <2>4. i \notin 1 .. n  BY <1>1, <1>6
  <2>5. QED  BY <2>3, <2>4
<1>20. Registered(r) = Registered(h) \cup {e}
  <2>1. Registered(h) = {h.node[x] : x \in 1 .. n}  BY DEF Registered, n
  <2>2. Registered(h) \subseteq Registered(r)  BY <1>2, <1>19, <2>1
  <2>3. e \in Registered(r)
    <3>1. u.at \in 1 .. LastNode(r) /\ r.node[u.at] = e  BY <1>7, <1>13
    <3>2. QED  BY <3>1 DEF Registered
  <2>4. ASSUME NEW x \in 1 .. LastNode(r) PROVE r.node[x] \in Registered(h) \cup {e}
    <3>1. CASE x = u.at  BY <1>13, <3>1
    <3>2. CASE x # u.at /\ x \in M
      <4>1. r.node[x] = h.node[x \div 2]  BY <1>8, <1>13, <3>2
      <4>2. QED  BY <1>8, <2>1, <3>2, <4>1
    <3>3. CASE x # u.at /\ x \notin M
      <4>1. x \in 1 .. n  BY <1>17, <3>3
      <4>2. r.node[x] = h.node[x]  BY <1>2, <1>13, <3>3, <4>1
      <4>3. QED  BY <2>1, <4>1, <4>2
    <3>4. QED  BY <3>1, <3>2, <3>3
  <2>5. QED  BY <2>2, <2>3, <2>4 DEF Registered
<1>21. /\ r.node[u.at] = e
       /\ \A x \in M : r.node[x] = h1.node[x \div 2]
       /\ \A x \in 1 .. i : x \notin M /\ x # u.at => r.node[x] = h1.node[x]
  <2>1. r.node[u.at] = e  BY <1>7, <1>13
  <2>2. ASSUME NEW x \in M PROVE r.node[x] = h1.node[x \div 2]
    <3>1. x \in 1 .. i /\ x # u.at  BY <1>6, <1>7
    <3>2. r.node[x] = to[x]  BY <1>13, <3>1
    <3>3. QED  BY <3>2
  <2>3. QED  BY <1>13, <2>1, <2>2
<1>22. \A c \in 2 .. i : key[r.node[c \div 2]] <= key[r.node[c]]
  <2>1. M = {x \in Ancestors[i] : x > u.at}  OBVIOUS
  <2>2. \A j \in M : key[e] < key[h1.node[j \div 2]]  BY <1>5
  <2> HIDE DEF M, to, src
  <2>3. \A x \in 1 .. i : key[h1.node[x]] \in Int
    <3> SUFFICES ASSUME NEW x \in 1 .. i PROVE h1.node[x] \in TMEVTB  OBVIOUS
    <3>1. CASE x = i  BY <1>2, <3>1
    <3>2. CASE x # i
      <4>1. x \in 1 .. n  BY <1>1, <1>6, <3>2
      <4>2. QED  BY <1>2, <1>9, <4>1
    <3>3. QED  BY <3>1, <3>2
  <2>4. \A x \in 2 .. i : x # i \/ 2 * i <= i => key[h1.node[x \div 2]] <= key[h1.node[x]]
    <3> SUFFICES ASSUME NEW x \in 2 .. i, x # i \/ 2 * i <= i
                 PROVE  key[h1.node[x \div 2]] <= key[h1.node[x]]
      OBVIOUS
    <3>a. x \in Nat /\ x >= 2 /\ x <= i  BY <1>6
    <3>b. x <= n  BY <1>1, <1>6, <3>a
    <3>1. x \in 2 .. n /\ x \div 2 \in 1 .. n /\ x \in 1 .. n  BY <1>1, <3>a, <3>b
    <3>2. key[h.node[x \div 2]] <= key[h.node[x]]  BY <3>1 DEF InOrder, n
    <3>3. QED  BY <1>2, <3>1, <3>2
  <2>5. i \in Nat /\ i \in 1 .. i /\ (u.at = i => 2 * i > i)  BY <1>6
  <2> DEFINE at == u.at
             k == key[e]
  <2>6. MovedUp(h1, r, key, i, i, at, M, k)
    <3>1. i \in Nat /\ i \in 1 .. i /\ at \in Ancestors[i] /\ k \in Int
      BY <1>4, <1>5, <2>5
    <3>2. M = {x \in Ancestors[i] : x > at} /\ \A j \in M : k < key[h1.node[j \div 2]]
      BY <2>1, <2>2
    <3>3. /\ at > 1 => key[h1.node[at \div 2]] <= k
          /\ at = i => 2 * i > i
      BY <1>5, <2>5
    <3>4. /\ key[r.node[at]] = k
          /\ \A x \in M : r.node[x] = h1.node[x \div 2]
          /\ \A x \in 1 .. i : x \notin M /\ x # at => r.node[x] = h1.node[x]
      BY <1>21
    <3> HIDE DEF at, k
    <3>5. QED  BY <2>3, <2>4, <3>1, <3>2, <3>3, <3>4 DEF MovedUp
  <2> HIDE DEF at, k
  <2>7. QED  BY <2>6, UpIsOrdered
<1>23. InOrder(r, key)  BY <1>13, <1>18, <1>22 DEF InOrder, Linked
<1>24. QED  BY <1>6, <1>13, <1>20, <1>23 DEF n, r

\* The last node is emptied, too: what is at the nodes src[x] moves to the nodes x of M, all
\* but the last and the event of "hole" stay.
Deletes(h, n, hole, at, M, src) ==
  /\ n = LastNode(h) /\ n > 1 /\ hole \in 1 .. n /\ at \in 1 .. n
  /\ M \in SUBSET (1 .. n - 1) /\ at \notin M /\ hole \in M \cup {at}
  /\ at <= n - 1 \/ hole = n
  /\ \A x \in M : src[x] \in 1 .. n - 1 /\ src[x] # hole
  /\ \A x, y \in M : src[x] = src[y] => x = y
  /\ \A x \in 1 .. n - 1 : x = at \/ x \in M \/ \A y \in M : src[y] # x
  /\ \A y \in 1 .. n - 1 : y = hole \/ (y \notin M /\ y # at) \/ \E x \in M : src[x] = y

\* The first m of a sequence.
LEMMA Front ==
  ASSUME NEW s \in Seq(TMEVTB), NEW m \in 0 .. Len(s)
  PROVE  /\ SubSeq(s, 1, m) \in Seq(TMEVTB) /\ Len(SubSeq(s, 1, m)) = m
         /\ \A x \in 1 .. m : SubSeq(s, 1, m)[x] = s[x]
<1>1. \A x \in 1 .. m : s[x] \in TMEVTB  OBVIOUS
<1>2. m \in Int /\ m - 1 + 1 = m /\ (1 <= m \/ m = 0)  OBVIOUS
<1>3. /\ SubSeq(s, 1, m) \in Seq(TMEVTB)
      /\ Len(SubSeq(s, 1, m)) = IF 1 <= m THEN m - 1 + 1 ELSE 0
      /\ \A x \in 1 .. m - 1 + 1 : SubSeq(s, 1, m)[x] = s[1 + x - 1]
  BY <1>1, <1>2, SubSeqProperties
<1>4. \A x \in 1 .. m : 1 + x - 1 = x  BY <1>2
<1>5. QED  BY <1>2, <1>3, <1>4

\* Both deletions end with Fill: the last event goes where the empty node has stopped.
LEMMA FillMoves ==
  ASSUME NEW h \in TimeHeaps, Linked(h, 1 .. LastNode(h)), NEW n, NEW hole, NEW at, NEW M,
         NEW src, Deletes(h, n, hole, at, M, src),
         NEW to, to = [x \in M |-> h.node[src[x]]],
         NEW moved, moved.heap = Place(h, to), moved.at = at,
         NEW r, r = Fill(h, moved, h.node[n])
  PROVE  /\ r \in TimeHeaps /\ LastNode(r) = n - 1 /\ Linked(r, 1 .. n - 1)
         /\ at <= n - 1 => r.node[at] = h.node[n]
         /\ \A x \in M : r.node[x] = h.node[src[x]]
         /\ \A x \in 1 .. n - 1 : x \notin M /\ x # at => r.node[x] = h.node[x]
         /\ Registered(r) = Registered(h) \ {h.node[hole]}
<1> USE DEF Deletes
<1> DEFINE one == [x \in {at} |-> h.node[n]]
           g == Place(Place(h, to), one)
           end == h.node[n]
<1>1. n \in Nat /\ h.node \in [1 .. n -> TMEVTB] /\ h.pos \in [TMEVTB -> Nat]
  BY TheRegistered
<1>2. n \in 1 .. n /\ n - 1 \in Nat /\ n - 1 >= 1 /\ \A x \in 1 .. n - 1 : x \in 1 .. n /\ x # n
  BY <1>1
<1>3. end \in TMEVTB  BY <1>1, <1>2
<1>4. \A x, y \in 1 .. n : h.node[x] = h.node[y] => x = y  BY DEF Linked
<1>5. to \in [M -> TMEVTB] /\ \A x \in M : to[x] = h.node[src[x]]
  BY <1>1, <1>2
<1>6. \A x, y \in M : to[x] = to[y] => x = y  BY <1>2, <1>4, <1>5
<1>7. one \in [{at} -> TMEVTB] /\ one[at] = end  BY <1>3
<1>8. M \in SUBSET (1 .. LastNode(h)) /\ at \in 1 .. LastNode(h)  BY <1>2
<1>9. g = Place(Place(h, to), one)  OBVIOUS
<1> HIDE DEF one, g, end
<1>10. /\ g \in TimeHeaps /\ LastNode(g) = n
       /\ \A x \in 1 .. n : g.node[x] = IF x = at THEN end ELSE IF x \in M THEN to[x] ELSE h.node[x]
       /\ g.pos[end] = at
       /\ \A x \in M : to[x] # end => g.pos[to[x]] = x
       /\ \A d \in TMEVTB : d # end /\ (\A x \in M : to[x] # d) => g.pos[d] = h.pos[d]
  <2>1. Places(h, M, to, at, end, one)
    BY <1>3, <1>5, <1>6, <1>7, <1>8 DEF Places
  <2>2. /\ g \in TimeHeaps /\ LastNode(g) = LastNode(h)
        /\ \A x \in 1 .. LastNode(h) :
             g.node[x] = IF x = at THEN end ELSE IF x \in M THEN to[x] ELSE h.node[x]
        /\ g.pos[end] = at
        /\ \A x \in M : to[x] # end => g.pos[to[x]] = x
        /\ \A d \in TMEVTB : d # end /\ (\A x \in M : to[x] # d) => g.pos[d] = h.pos[d]
    <3> HIDE DEF Deletes
    <3>1. QED  BY <1>9, <2>1, PlaceTwice
  <2>3. QED  BY <2>2
<1>11. r = [g EXCEPT !.node = SubSeq(@, 1, n - 1)]
  <2>1. Place(moved.heap, [x \in {moved.at} |-> h.node[n]]) = g  BY <1>9 DEF one
  <2>2. QED  BY <2>1 DEF Fill
<1>12. /\ r \in TimeHeaps /\ LastNode(r) = n - 1 /\ r.pos = g.pos
       /\ \A x \in 1 .. n - 1 : r.node[x] = g.node[x]
  <2>1. g.node \in Seq(TMEVTB) /\ Len(g.node) = n /\ g.pos \in [TMEVTB -> Nat]
    BY <1>10 DEF TimeHeaps, LastNode
  <2>2. r.node = SubSeq(g.node, 1, n - 1) /\ r.pos = g.pos
    BY <1>10, <1>11 DEF TimeHeaps
  <2>3. /\ SubSeq(g.node, 1, n - 1) \in Seq(TMEVTB) /\ Len(SubSeq(g.node, 1, n - 1)) = n - 1
        /\ \A x \in 1 .. n - 1 : SubSeq(g.node, 1, n - 1)[x] = g.node[x]
    <3>1. n - 1 \in 0 .. Len(g.node)  BY <1>1, <1>2, <2>1
    <3>2. QED  BY <2>1, <3>1, Front
  <2>4. r \in TimeHeaps
    <3>1. r = [node |-> r.node, pos |-> r.pos]  BY <1>10, <1>11 DEF TimeHeaps
    <3>2. r.node \in Seq(TMEVTB) /\ r.pos \in [TMEVTB -> Nat]  BY <2>1, <2>2, <2>3
    <3>3. QED  BY <3>1, <3>2 DEF TimeHeaps
  <2>5. QED  BY <2>2, <2>3, <2>4 DEF LastNode
<1>13. Moved(h, r, M, src, at, end)
  <2>1. \A x \in 1 .. LastNode(r) :
          r.node[x] = IF x = at THEN end ELSE IF x \in M THEN h.node[src[x]] ELSE h.node[x]
    BY <1>2, <1>5, <1>10, <1>12
  <2>2. QED  BY <1>5, <1>10, <1>12, <2>1 DEF Moved
<1>14. NoneOverwritten(h, r, M, src, at, end, 1 .. n)
  <2>1. \A x \in M : src[x] \in 1 .. n /\ h.node[src[x]] # end
    BY <1>2, <1>4 DEF end
  <2>2. \A x \in 1 .. n - 1 : x \in 1 .. n /\ h.node[x] \in TMEVTB /\ h.node[x] # end
    BY <1>1, <1>2, <1>4 DEF end
  <2>3. QED  BY <1>12, <2>1, <2>2 DEF NoneOverwritten
<1>15. Linked(r, 1 .. n - 1)  BY <1>12, <1>13, <1>14, Relinked
<1>16. NoneLeft(h, r, M, src, at, end, 1 .. n, hole)
  <2>1. M \subseteq 1 .. LastNode(r)  BY <1>12
  <2>2. ASSUME NEW y \in (1 .. n) \ {hole}
        PROVE  \/ at \in 1 .. LastNode(r) /\ h.node[y] = end
               \/ y \in 1 .. LastNode(r) /\ y \notin M /\ y # at
               \/ \E x \in M : src[x] = y
    <3>1. CASE y = n
      <4>1. at \in 1 .. n - 1  BY <1>1, <2>2, <3>1
      <4>2. QED  BY <1>12, <3>1, <4>1 DEF end
    <3>2. CASE y # n
      <4>1. y \in 1 .. n - 1  BY <1>1, <3>2
      <4>2. QED  BY <1>12, <2>2, <4>1
    <3>3. QED  BY <3>1, <3>2
  <2>3. QED  BY <2>1, <2>2 DEF NoneLeft
<1>17. \A y \in (1 .. n) \ {hole} : h.node[y] \in Registered(r)
  BY <1>13, <1>16, Kept
<1>18. /\ at <= n - 1 => r.node[at] = end
       /\ \A x \in M : r.node[x] = h.node[src[x]]
       /\ \A x \in 1 .. n - 1 : x \notin M /\ x # at => r.node[x] = h.node[x]
  BY <1>1, <1>12, <1>13 DEF Moved
<1>19. ASSUME NEW x \in 1 .. n - 1
       PROVE  \E y \in 1 .. n : y # hole /\ r.node[x] = h.node[y]
  <2>1. CASE x = at
    <3>1. hole # n  BY <1>1, <1>2, <2>1
    <3>2. r.node[x] = h.node[n]  BY <1>1, <1>18, <2>1 DEF end
    <3>3. QED  BY <1>2, <3>1, <3>2
  <2>2. CASE x # at /\ x \in M  BY <1>2, <1>18, <2>2
  <2>3. CASE x # at /\ x \notin M  BY <1>2, <1>18, <2>3
  <2>4. QED  BY <2>1, <2>2, <2>3
<1>20. Registered(r) = Registered(h) \ {h.node[hole]}
  <2>1. \A d : d \in Registered(h) <=> \E y \in 1 .. n : d = h.node[y]  BY DEF Registered
  <2>2. \A d : d \in Registered(r) <=> \E x \in 1 .. n - 1 : d = r.node[x]
    BY <1>12 DEF Registered
  <2>3. ASSUME NEW d \in Registered(r) PROVE d \in Registered(h) /\ d # h.node[hole]
    BY <1>4, <1>19, <2>1, <2>2
  <2>4. ASSUME NEW d \in Registered(h), d # h.node[hole] PROVE d \in Registered(r)
    BY <1>17, <2>1, <2>4
  <2>5. QED  BY <2>3, <2>4
<1>21. QED  BY <1>12, <1>15, <1>18, <1>20 DEF end

\* A deletion that moves the last event downwards.
LEMMA DeleteDown ==
  ASSUME NEW h \in TimeHeaps, NEW key \in [TMEVTB -> Int], InOrder(h, key),
         NEW n, n = LastNode(h), n > 1, NEW i \in 1 .. n,
         i > 1 => key[h.node[i \div 2]] <= key[h.node[n]],
         NEW r, r = Fill(h, tmevt_down(h, key, n - 1, i, key[h.node[n]]), h.node[n])
  PROVE  /\ r \in TimeHeaps /\ InOrder(r, key) /\ LastNode(r) = n - 1
         /\ Registered(r) = Registered(h) \ {h.node[i]}
<1> DEFINE L == n - 1
           k == key[h.node[n]]
           d == tmevt_down(h, key, L, i, k)
           P == EarlierChildren(h, key, L, i)
           E(j) == EarlierChild(h, key, L, j)
           M == {x \in P : x < d.at}
           src == [x \in M |-> E(x)]
           to == [x \in M |-> h.node[src[x]]]
<1>1. n \in Nat /\ h.node \in [1 .. n -> TMEVTB] /\ n - 1 \in Nat /\ n - 1 <= n /\ n \in 1 .. n
      /\ i \in Nat /\ i > 0
  BY TheRegistered
<1>2. \A x \in 1 .. n : key[h.node[x]] \in Int  BY <1>1
<1>3. k \in Int  BY <1>1, <1>2
<1>a. L = n - 1 /\ L \in Nat /\ L <= LastNode(h) /\ i \in 1 .. LastNode(h)
  BY <1>1
<1>e. L \in Nat /\ L <= LastNode(h) /\ i \in 1 .. LastNode(h)
  BY <1>1
<1>b. r = Fill(h, d, h.node[n])  OBVIOUS
<1> HIDE DEF k, L
<1>c. /\ d.at \in P /\ d.heap = Place(h, [j \in M |-> h.node[E(j)]])
      /\ 2 * d.at > L \/ k <= key[h.node[E(d.at)]]
      /\ \A j \in M : 2 * j <= L /\ E(j) <= L /\ E(j) \in P /\ E(j) <= d.at
                      /\ key[h.node[E(j)]] < k
      /\ d.at > i => d.at \div 2 \in M /\ d.at = E(d.at \div 2)
  BY <1>3, <1>a, Down
<1>5. /\ P \subseteq i .. n /\ i \in P
      /\ \A j \in P : j > i => j \div 2 \in P /\ j = E(j \div 2)
      /\ \A x, y \in P : x < y => x <= y \div 2
  <2>1. /\ P \subseteq i .. LastNode(h) /\ i \in P
        /\ \A j \in P : j > i => j \div 2 \in P /\ j = E(j \div 2)
        /\ \A x, y \in P : x < y => x <= y \div 2
    BY <1>e, WayDown
  <2> HIDE DEF d, P, E, M
  <2>2. QED  BY <2>1
<1> DEFINE at == d.at
<1>4. /\ at = d.at /\ at \in P /\ d.heap = Place(h, [j \in M |-> h.node[E(j)]])
      /\ 2 * at > n - 1 \/ k <= key[h.node[E(at)]]
      /\ \A j \in M : 2 * j <= n - 1 /\ E(j) <= n - 1 /\ E(j) \in P /\ E(j) <= at
                      /\ key[h.node[E(j)]] < k
      /\ at > i => at \div 2 \in M /\ at = E(at \div 2)
  <2> HIDE DEF d, P, E, M
  <2>1. QED  BY <1>a, <1>c
<1>6. \A j \in Nat : E(j) \in Nat /\ E(j) \div 2 = j /\ (j > 0 => E(j) > j)
  BY DEF EarlierChild
<1>7. to = [j \in M |-> h.node[E(j)]]  OBVIOUS
<1>8. (\A x : x \in M <=> x \in P /\ x < at) /\ M = {x \in P : x < at}  OBVIOUS
<1>9. \A x \in M : src[x] = E(x)  OBVIOUS
<1> HIDE DEF k, d, P, E, src, to, M, at
<1>10. at \in 1 .. n /\ at \in Nat /\ i <= at /\ at \notin M  BY <1>1, <1>4, <1>5, <1>8
<1>11. at <= n - 1 \/ i = n
  <2>1. CASE at > i  BY <1>1, <1>4, <2>1
  <2>2. CASE at = i  BY <1>1, <1>10, <2>2
  <2>3. QED  BY <1>1, <1>10, <2>1, <2>2
<1>12. ASSUME NEW x \in M
       PROVE  /\ x \in Nat /\ x >= i /\ x < at /\ E(x) \in 1 .. n - 1 /\ E(x) > x
              /\ E(x) \in M \cup {at} /\ x \in 1 .. n - 1
  <2>1. x \in Nat /\ x >= i /\ x < at /\ x > 0  BY <1>1, <1>5, <1>8
  <2>2. E(x) \in Nat /\ E(x) > x /\ E(x) <= n - 1 /\ E(x) \in P /\ E(x) <= at
    BY <1>4, <1>6, <2>1
  <2>3. E(x) \in M \cup {at}  BY <1>8, <1>10, <2>2
  <2>4. QED  BY <1>1, <2>1, <2>2, <2>3
<1>13. \A x, y \in M : src[x] = src[y] => x = y
  <2>1. \A x \in M : E(x) \div 2 = x  BY <1>6, <1>12
  <2>2. QED  BY <1>9, <2>1
<1>14. ASSUME NEW y \in 1 .. n - 1
       PROVE  y = i \/ (y \notin M /\ y # at) \/ \E x \in M : src[x] = y
  <2>1. CASE y # i /\ (y \in M \/ y = at)
    <3>1. y \in P /\ y > i /\ y \in Nat /\ y <= at
      BY <1>1, <1>4, <1>5, <1>8, <1>10, <2>1
    <3>2. y \div 2 \in P /\ y = E(y \div 2) /\ y \div 2 < at
      BY <1>1, <1>5, <1>10, <3>1
    <3>3. y \div 2 \in M  BY <1>8, <3>2
    <3>4. QED  BY <1>9, <3>2, <3>3
  <2>2. QED  BY <2>1
<1>15. /\ M \in SUBSET (1 .. n - 1) /\ \A x \in M : src[x] \in 1 .. n - 1 /\ src[x] # i
       /\ \A x \in 1 .. n - 1 : x = at \/ x \in M \/ \A y \in M : src[y] # x
       /\ i \in M \cup {at}
  <2>1. \A x \in M : src[x] \in 1 .. n - 1 /\ src[x] # i /\ src[x] \in M \cup {at}
    BY <1>1, <1>9, <1>12
  <2>2. M \subseteq 1 .. n - 1  BY <1>12
  <2>3. i \in M \cup {at}  BY <1>1, <1>5, <1>8, <1>10
  <2>4. QED  BY <2>1, <2>2, <2>3
<1>16. Linked(h, 1 .. LastNode(h))  BY DEF InOrder, Linked
<1>17. d.heap = Place(h, to)  BY <1>4, <1>7
<1>18. to = [x \in M |-> h.node[src[x]]]  BY DEF to
<1>19. r = Fill(h, d, h.node[n])  BY <1>b
<1>20. /\ r \in TimeHeaps /\ LastNode(r) = n - 1 /\ Linked(r, 1 .. n - 1)
       /\ at <= n - 1 => r.node[at] = h.node[n]
       /\ \A x \in M : r.node[x] = h.node[src[x]]
       /\ \A x \in 1 .. n - 1 : x \notin M /\ x # at => r.node[x] = h.node[x]
       /\ Registered(r) = Registered(h) \ {h.node[i]}
  <2>2. /\ at \in 1 .. n /\ at \notin M
        /\ at <= n - 1 \/ i = n
        /\ \A x \in 1 .. n - 1 : x = at \/ x \in M \/ \A y \in M : src[y] # x
        /\ \A y \in 1 .. n - 1 : y = i \/ (y \notin M /\ y # at) \/ \E x \in M : src[x] = y
        /\ i \in M \cup {at}
    BY <1>10, <1>11, <1>14, <1>15
  <2>3. QED
    <3>1. Deletes(h, n, i, at, M, src)  BY <1>13, <1>15, <2>2 DEF Deletes
    <3>2. QED  BY <1>4, <1>16, <1>17, <1>18, <1>19, <3>1, FillMoves
<1>21. \A c \in 2 .. n - 1 : key[r.node[c \div 2]] <= key[r.node[c]]
  <2>1. /\ \A x \in 1 .. L : key[h.node[x]] \in Int
        /\ \A x \in 2 .. L : key[h.node[x \div 2]] <= key[h.node[x]]
        /\ \A x \in 1 .. L : x \notin M /\ x # at => r.node[x] = h.node[x]
        /\ at <= L => key[r.node[at]] = k
    BY <1>1, <1>2, <1>20 DEF InOrder, L, k
  <2>2. at \in P /\ M = {x \in P : x < at} /\ P = EarlierChildren(h, key, L, i)
    BY <1>4, <1>8 DEF P
  <2>3. i > 1 => key[h.node[i \div 2]] <= k  BY DEF k
  <2>4. /\ 2 * at > L \/ k <= key[h.node[E(at)]]
        /\ \A j \in M : /\ E(j) <= L /\ E(j) \in P /\ E(j) <= at /\ key[h.node[E(j)]] < k
                         /\ r.node[j] = h.node[E(j)]
    BY <1>4, <1>9, <1>20, <1>a
  <2>5. MovedDown(h, r, key, L, i, at, P, M, k)
    BY <1>3, <1>a, <2>1, <2>2, <2>3, <2>4 DEF MovedDown, E
  <2>6. \A c \in 2 .. L : key[r.node[c \div 2]] <= key[r.node[c]]
    BY <2>5, DownIsOrdered
  <2>7. QED  BY <2>6 DEF L
<1>22. InOrder(r, key)  BY <1>20, <1>21 DEF InOrder, Linked
<1>23. QED  BY <1>20, <1>22

\* A deletion that moves the last event upwards.
LEMMA DeleteUp ==
  ASSUME NEW h \in TimeHeaps, NEW key \in [TMEVTB -> Int], InOrder(h, key),
         NEW n, n = LastNode(h), n > 1, NEW i \in 2 .. n,
         key[h.node[n]] < key[h.node[i \div 2]],
         NEW r, r = Fill(h, tmevt_up(h, key, i, key[h.node[n]]), h.node[n])
  PROVE  /\ r \in TimeHeaps /\ InOrder(r, key) /\ LastNode(r) = n - 1
         /\ Registered(r) = Registered(h) \ {h.node[i]}
<1> DEFINE k == key[h.node[n]]
           u == tmevt_up(h, key, i, k)
           M == {x \in Ancestors[i] : x > u.at}
           src == [x \in M |-> x \div 2]
           to == [x \in M |-> h.node[src[x]]]
<1>1. n \in Nat /\ h.node \in [1 .. n -> TMEVTB] /\ n - 1 \in Nat /\ n - 1 <= n /\ n \in 1 .. n
      /\ i \in Nat /\ i > 1 /\ i \in 1 .. n
  BY TheRegistered
<1>2. \A x \in 1 .. n : key[h.node[x]] \in Int  BY <1>1
<1>3. k \in Int  BY <1>1, <1>2
<1>4. i <= n - 1
  <2>1. i # n
    <3>1. key[h.node[i \div 2]] <= key[h.node[i]]  BY <1>1 DEF InOrder
    <3>2. i \div 2 \in 1 .. n  BY <1>1
    <3>3. QED  BY <1>1, <1>2, <3>1, <3>2
  <2>2. QED  BY <1>1, <2>1
<1>5. /\ u.at \in Ancestors[i] /\ u.heap = Place(h, [j \in M |-> h.node[j \div 2]])
      /\ u.at > 1 => key[h.node[u.at \div 2]] <= k
      /\ \A j \in M : j > 1 /\ k < key[h.node[j \div 2]]
  BY <1>1, <1>3, Up
<1>6. /\ Ancestors[i] \subseteq 1 .. i /\ i \in Ancestors[i]
      /\ \A j \in Ancestors[i] : j > 1 => j \div 2 \in Ancestors[i]
      /\ \A x, y \in Ancestors[i] : x < y => x <= y \div 2
      /\ \A j \in Ancestors[i] : j < i => \E c \in Ancestors[i] : c \div 2 = j
  BY <1>1, Chain
<1>7. to = [j \in M |-> h.node[j \div 2]]  OBVIOUS
<1>8. \A x : x \in M <=> x \in Ancestors[i] /\ x > u.at  OBVIOUS
<1>9. \A x \in M : src[x] = x \div 2  OBVIOUS
<1>10. u.at # i
  <2>1. u.at = i => key[h.node[i \div 2]] <= k  BY <1>1, <1>5
  <2>2. i \div 2 \in 1 .. n  BY <1>1
  <2>3. QED  BY <1>1, <1>2, <1>3, <2>1, <2>2
<1>11. r = Fill(h, u, h.node[n])  OBVIOUS
<1>12. M = {x \in Ancestors[i] : x > u.at}  OBVIOUS
<1> DEFINE at == u.at
<1>13. u.at = at  OBVIOUS
<1> HIDE DEF u, src, to, M, at
<1>14. at \in 1 .. i /\ at \in Nat /\ at < i /\ at \notin M /\ at \in 1 .. n - 1 /\ at \in 1 .. n
  <2>1. at \in 1 .. i  BY <1>5, <1>6, <1>13
  <2>2. at \in Nat /\ at < i  BY <1>1, <1>10, <1>13, <2>1
  <2>3. at \notin M  BY <1>8, <1>13, <2>2
  <2>4. QED  BY <1>1, <1>4, <2>1, <2>2, <2>3
<1>15. ASSUME NEW x \in M
       PROVE  /\ x \in Nat /\ x <= i /\ x > 1 /\ x \div 2 \in M \cup {at}
              /\ x \div 2 \in 1 .. n - 1 /\ x \div 2 < i /\ x \in 1 .. n - 1 /\ x \in Ancestors[i]
  <2>1. x \in Ancestors[i] /\ x \in 1 .. i /\ x > at  BY <1>6, <1>8, <1>13
  <2>2. x \in Nat /\ x > 1 /\ x <= i  BY <1>1, <1>14, <2>1
  <2>3. x \div 2 \in Ancestors[i] /\ at <= x \div 2  BY <1>5, <1>6, <1>13, <2>1, <2>2
  <2>4. x \div 2 \in M \cup {at}  BY <1>8, <1>13, <1>14, <2>2, <2>3
  <2>5. QED  BY <1>1, <1>4, <2>1, <2>2, <2>4
<1>16. \A x, y \in M : src[x] = src[y] => x = y
  <2> SUFFICES ASSUME NEW x \in M, NEW y \in M, src[x] = src[y] PROVE x = y  OBVIOUS
  <2>1. x \div 2 = y \div 2  BY <1>9
  <2>2. ~ (x < y) /\ ~ (y < x)  BY <1>6, <1>15, <2>1
  <2>3. QED  BY <1>15, <2>2
<1>17. ASSUME NEW y \in 1 .. n - 1
       PROVE  y = i \/ (y \notin M /\ y # at) \/ \E x \in M : src[x] = y
  <2>1. CASE y # i /\ (y \in M \/ y = at)
    <3>1. y \in Ancestors[i] /\ y < i /\ at <= y  BY <1>1, <1>5, <1>8, <1>13, <1>14, <1>15, <2>1
    <3>2. PICK x \in Ancestors[i] : x \div 2 = y  BY <1>6, <3>1
    <3>3. x \in M  BY <1>1, <1>6, <1>8, <1>13, <1>14, <3>1, <3>2
    <3>4. QED  BY <1>9, <3>2, <3>3
  <2>2. QED  BY <2>1
<1>18. /\ M \in SUBSET (1 .. n - 1) /\ \A x \in M : src[x] \in 1 .. n - 1 /\ src[x] # i
       /\ \A x \in 1 .. n - 1 : x = at \/ x \in M \/ \A y \in M : src[y] # x
       /\ i \in M \cup {at}
       /\ at <= n - 1 \/ i = n
  <2>1. \A x \in M : src[x] \in 1 .. n - 1 /\ src[x] # i /\ src[x] \in M \cup {at}
    <3> SUFFICES ASSUME NEW x \in M
                 PROVE  src[x] \in 1 .. n - 1 /\ src[x] # i /\ src[x] \in M \cup {at}
      OBVIOUS
    <3>1. src[x] = x \div 2  BY <1>9
    <3>2. x \div 2 \in M \cup {at} /\ x \div 2 \in 1 .. n - 1  BY <1>15
    <3>3. x \div 2 # i
      <4>1. x \div 2 < i  BY <1>15
      <4>2. QED  BY <1>1, <4>1
    <3>4. QED  BY <3>1, <3>2, <3>3
  <2>2. M \subseteq 1 .. n - 1  BY <1>15
  <2>3. i \in M
    <3>1. i \in Ancestors[i]  BY <1>6
    <3>2. i > u.at  BY <1>1, <1>13, <1>14
    <3>3. QED  BY <1>8, <3>1, <3>2
  <2>4. QED  BY <1>1, <1>14, <2>1, <2>2, <2>3
<1>19. Linked(h, 1 .. LastNode(h))  BY DEF InOrder, Linked
<1>20. u.heap = Place(h, to)  BY <1>5, <1>7
<1>21. to = [x \in M |-> h.node[src[x]]]  BY DEF to
<1>22. /\ r \in TimeHeaps /\ LastNode(r) = n - 1 /\ Linked(r, 1 .. n - 1)
       /\ at <= n - 1 => r.node[at] = h.node[n]
       /\ \A x \in M : r.node[x] = h.node[src[x]]
       /\ \A x \in 1 .. n - 1 : x \notin M /\ x # at => r.node[x] = h.node[x]
       /\ Registered(r) = Registered(h) \ {h.node[i]}
  <2>1. Deletes(h, n, i, at, M, src)  BY <1>1, <1>14, <1>16, <1>17, <1>18 DEF Deletes
  <2>2. QED  BY <1>11, <1>13, <1>19, <1>20, <1>21, <2>1, FillMoves
<1>23. \A c \in 2 .. n - 1 : key[r.node[c \div 2]] <= key[r.node[c]]
  <2>1. n - 1 \in Nat /\ i \in 1 .. n - 1 /\ at \in Ancestors[i]  BY <1>1, <1>4, <1>5, <1>13
  <2>2. M = {x \in Ancestors[i] : x > at}  BY <1>12, <1>13
  <2>3. \A x \in 1 .. n - 1 : key[h.node[x]] \in Int  BY <1>1, <1>2
  <2>4. \A x \in 2 .. n - 1 : key[h.node[x \div 2]] <= key[h.node[x]]
    BY <1>1 DEF InOrder
  <2>5. (at > 1 => key[h.node[at \div 2]] <= k) /\ \A j \in M : k < key[h.node[j \div 2]]
    BY <1>5, <1>13
  <2>6. at # i /\ key[r.node[at]] = k  BY <1>14, <1>22
  <2>7. \A x \in M : r.node[x] = h.node[x \div 2]  BY <1>9, <1>22
  <2>8. \A x \in 1 .. n - 1 : x \notin M /\ x # at => r.node[x] = h.node[x]  BY <1>22
  <2>9. k \in Int  BY <1>3
  <2> DEFINE L == n - 1
  <2>10. /\ L \in Nat /\ i \in 1 .. L
         /\ \A x \in 1 .. L : key[h.node[x]] \in Int
         /\ \A x \in 2 .. L : key[h.node[x \div 2]] <= key[h.node[x]]
         /\ \A x \in 1 .. L : x \notin M /\ x # at => r.node[x] = h.node[x]
    BY <2>1, <2>3, <2>4, <2>8
  <2>11. MovedUp(h, r, key, L, i, at, M, k)
    <3> HIDE DEF L, k
    <3>1. QED  BY <2>1, <2>2, <2>5, <2>6, <2>7, <2>9, <2>10 DEF MovedUp
  <2>12. QED
    <3>1. \A c \in 2 .. L : key[r.node[c \div 2]] <= key[r.node[c]]
      <4> HIDE DEF L, k
      <4>1. QED  BY <2>11, UpIsOrdered
    <3>2. QED  BY <3>1
<1>24. InOrder(r, key)  BY <1>22, <1>23 DEF InOrder, Linked
<1>25. QED  BY <1>22, <1>24

\* The registered events of a heap with back pointers are as many as its nodes.
LEMMA OneNodeEach ==
  ASSUME NEW h \in TimeHeaps, NEW key, InOrder(h, key)
  PROVE  Cardinality(Registered(h)) = LastNode(h)
<1> DEFINE n == LastNode(h)
           S == Registered(h)
           f == [x \in 1 .. n |-> h.node[x]]
<1>1. n \in Nat /\ S = {h.node[x] : x \in 1 .. n}  BY TheRegistered DEF Registered
<1>2. \A x, y \in 1 .. n : h.node[x] = h.node[y] => x = y  BY DEF InOrder
<1>3. f \in [1 .. n -> S] /\ \A x, y \in 1 .. n : f[x] = f[y] => x = y  BY <1>1, <1>2
<1>4. \A d \in S : \E x \in 1 .. n : f[x] = d  BY <1>1
<1> HIDE DEF n, S, f
<1>5. f \in Bijection(1 .. n, S)
  BY <1>3, <1>4 DEF Bijection, Injection, Surjection, IsInjective
<1>6. ExistsBijection(1 .. n, S)  BY <1>5 DEF ExistsBijection
<1>7. Cardinality(S) = n  BY <1>1, <1>6, FS_CountingElements
<1>8. QED  BY <1>7 DEF n, S

\* The order depends on the times of the registered events only.
LEMMA SameOrder ==
  ASSUME NEW h \in TimeHeaps, NEW key, NEW new, InOrder(h, key),
         \A d \in Registered(h) : new[d] = key[d]
  PROVE  InOrder(h, new)
<1>1. LastNode(h) \in Nat  BY TheRegistered
<1>2. \A x \in 1 .. LastNode(h) : new[h.node[x]] = key[h.node[x]]  BY DEF Registered
<1>3. ASSUME NEW x \in 2 .. LastNode(h) PROVE new[h.node[x \div 2]] <= new[h.node[x]]
  <2>1. x \in 1 .. LastNode(h) /\ x \div 2 \in 1 .. LastNode(h)  BY <1>1
  <2>2. QED  BY <1>2, <2>1 DEF InOrder
<1>4. QED  BY <1>3 DEF InOrder

\* The heap without its only event.
LEMMA Emptied ==
  ASSUME NEW h \in TimeHeaps, LastNode(h) = 1, NEW key,
         NEW r, r = [h EXCEPT !.node = <<>>]
  PROVE  /\ r \in TimeHeaps /\ InOrder(r, key)
         /\ LastNode(r) = 0 /\ Registered(r) = Registered(h) \ {h.node[1]}
<1>1. r.node = <<>> /\ r \in TimeHeaps
  <2>1. h = [node |-> h.node, pos |-> h.pos] /\ h.pos \in [TMEVTB -> Nat]  BY DEF TimeHeaps
  <2>2. r = [node |-> <<>>, pos |-> h.pos]  BY <2>1
  <2>3. <<>> \in Seq(TMEVTB)  OBVIOUS
  <2>4. QED  BY <2>1, <2>2, <2>3 DEF TimeHeaps
<1>2. LastNode(r) = 0  BY <1>1 DEF LastNode
<1>3. Registered(r) = {} /\ Registered(h) = {h.node[1]}  BY <1>2 DEF Registered
<1>4. QED  BY <1>1, <1>2, <1>3 DEF InOrder

\* tmevtb_delete keeps the order and the back pointers and takes out the event.
LEMMA DeleteKeepsOrder ==
  ASSUME NEW h \in TimeHeaps, NEW key \in [TMEVTB -> Int], InOrder(h, key),
         NEW e \in Registered(h), NEW r, r = tmevtb_delete(h, key, e)
  PROVE  /\ r \in TimeHeaps /\ InOrder(r, key) /\ LastNode(r) = LastNode(h) - 1
         /\ Registered(r) = Registered(h) \ {e}
<1> DEFINE n == LastNode(h)
           i == h.pos[e]
<1>1. n \in Nat /\ h.node \in [1 .. n -> TMEVTB]  BY TheRegistered
<1>2. i \in 1 .. n /\ h.node[i] = e
  <2>1. PICK x \in 1 .. n : h.node[x] = e  BY DEF Registered
  <2>2. QED  BY <2>1 DEF InOrder
<1>3. \A x \in 1 .. n : key[h.node[x]] \in Int  BY <1>1
<1>4. CASE n = 1
  <2>1. r = [h EXCEPT !.node = <<>>]  BY <1>4 DEF tmevtb_delete
  <2>2. i = 1  BY <1>2, <1>4
  <2>3. QED  BY <1>2, <1>4, <2>1, <2>2, Emptied
<1>5. CASE n # 1 /\ i > 1 /\ key[h.node[n]] < key[h.node[i \div 2]]
  <2>1. n > 1 /\ i \in 2 .. n  BY <1>1, <1>2, <1>5
  <2>2. r = Fill(h, tmevt_up(h, key, i, key[h.node[n]]), h.node[n])
    <3>1. LastNode(h) - 1 # 0 /\ LastNode(h) - 1 + 1 = LastNode(h)  BY <1>1, <1>5
    <3>2. QED  BY <1>5, <3>1 DEF tmevtb_delete
  <2>3. n = LastNode(h)  OBVIOUS
  <2> HIDE DEF n, i
  <2>4. QED  BY <1>2, <1>5, <2>1, <2>2, <2>3, DeleteUp
<1>6. CASE n # 1 /\ ~ (i > 1 /\ key[h.node[n]] < key[h.node[i \div 2]])
  <2>1. n > 1  BY <1>1, <1>2, <1>6
  <2>2. r = Fill(h, tmevt_down(h, key, n - 1, i, key[h.node[n]]), h.node[n])
    <3>1. LastNode(h) - 1 # 0 /\ LastNode(h) - 1 + 1 = LastNode(h)  BY <1>1, <1>6
    <3>2. QED  BY <1>6, <3>1 DEF tmevtb_delete
  <2>3. i > 1 => key[h.node[i \div 2]] <= key[h.node[n]]
    <3>1. SUFFICES ASSUME i > 1 PROVE key[h.node[i \div 2]] <= key[h.node[n]]  OBVIOUS
    <3>2. i \div 2 \in 1 .. n /\ n \in 1 .. n  BY <1>1, <1>2, <3>1
    <3>3. key[h.node[i \div 2]] \in Int /\ key[h.node[n]] \in Int  BY <1>3, <3>2
    <3>4. ~ (key[h.node[n]] < key[h.node[i \div 2]])  BY <1>6, <3>1
    <3>5. QED  BY <3>3, <3>4
  <2>4. n = LastNode(h)  OBVIOUS
  <2> HIDE DEF n, i
  <2>5. QED  BY <1>2, <2>1, <2>2, <2>3, <2>4, DeleteDown
<1>7. QED  BY <1>4, <1>5, <1>6

\* tmevtb_delete_top takes out the event at the root.
LEMMA DeleteTopKeepsOrder ==
  ASSUME NEW h \in TimeHeaps, NEW key \in [TMEVTB -> Int], InOrder(h, key),
         h.node # <<>>, NEW r, r = tmevtb_delete_top(h, key)
  PROVE  /\ r \in TimeHeaps /\ InOrder(r, key) /\ LastNode(r) = LastNode(h) - 1
         /\ Registered(r) = Registered(h) \ {h.node[1]} /\ h.node[1] \in Registered(h)
<1> DEFINE n == LastNode(h)
<1>1. n \in Nat /\ n > 0  BY DEF TimeHeaps, LastNode
<1>2. 1 \in 1 .. n /\ h.node[1] \in Registered(h)  BY <1>1 DEF Registered
<1>3. CASE n = 1
  <2>1. r = [h EXCEPT !.node = <<>>]  BY <1>3 DEF tmevtb_delete_top
  <2>2. QED  BY <1>2, <1>3, <2>1, Emptied
<1>4. CASE n # 1
  <2>1. n > 1  BY <1>1, <1>4
  <2>2. r = Fill(h, tmevt_down(h, key, n - 1, 1, key[h.node[n]]), h.node[n])
    <3>1. LastNode(h) - 1 # 0 /\ LastNode(h) - 1 + 1 = LastNode(h)  BY <1>1, <1>4
    <3>2. QED  BY <3>1 DEF tmevtb_delete_top
  <2>3. n = LastNode(h) /\ ~ (1 > 1)  OBVIOUS
  <2> HIDE DEF n
  <2>4. QED  BY <1>2, <2>1, <2>2, <2>3, DeleteDown
<1>5. QED  BY <1>3, <1>4

----------------------------------------------------------------------------
(* The heap under any registrations and deletions.                         *)

HeapInv == heap \in TimeHeaps /\ evttim \in [TMEVTB -> Nat] /\ HeapOK

\* At first the heap is empty.
LEMMA HeapStarts == HeapInit => HeapInv
<1> SUFFICES ASSUME HeapInit PROVE HeapInv  OBVIOUS
<1>1. heap.node = <<>> /\ heap \in TimeHeaps  BY DEF HeapInit, TimeHeaps
<1>2. LastNode(heap) = 0  BY <1>1 DEF LastNode
<1>3. QED  BY <1>1, <1>2 DEF HeapInit, HeapInv, HeapOK, InOrder

\* What each step does to the heap.
Comes(e) == LastNode(heap') = LastNode(heap) + 1 /\ Registered(heap') = Registered(heap) \cup {e}
Goes(e) == LastNode(heap') = LastNode(heap) - 1 /\ Registered(heap') = Registered(heap) \ {e}

\* A registration or a deletion keeps the invariant and changes one event.
LEMMA HeapStep ==
  ASSUME HeapInv, HeapNext
  PROVE  HeapInv' /\ \E e \in TMEVTB : Comes(e) \/ Goes(e)
<1> USE DEF HeapInv, HeapOK
<1>1. evttim \in [TMEVTB -> Int] /\ Registered(heap) \subseteq TMEVTB
  BY TheRegistered
<1>2. ASSUME NEW e \in TMEVTB, NEW t \in TIMES, Register(e, t)
      PROVE  HeapInv' /\ \E d \in TMEVTB : Comes(d) \/ Goes(d)
  <2>1. e \in TMEVTB \ Registered(heap) /\ heap' = tmevtb_insert(heap, evttim', e)
        /\ evttim' = [evttim EXCEPT ![e] = t]
    BY <1>2 DEF Register
  <2>2. evttim' \in [TMEVTB -> Nat] /\ evttim' \in [TMEVTB -> Int]
    BY <2>1, TimesAssumption
  <2>3. \A d \in Registered(heap) : evttim'[d] = evttim[d]  BY <2>1
  <2>4. InOrder(heap, evttim')  BY <2>3, SameOrder
  <2>5. /\ heap' \in TimeHeaps /\ InOrder(heap', evttim')
        /\ LastNode(heap') = LastNode(heap) + 1 /\ Registered(heap') = Registered(heap) \cup {e}
    BY <2>1, <2>2, <2>4, InsertKeepsOrder
  <2>6. QED  BY <2>2, <2>5 DEF Comes
<1>3. ASSUME NEW e \in TMEVTB, e \in Registered(heap), evttim' = [evttim EXCEPT ![e] = 0],
             heap' \in TimeHeaps, InOrder(heap', evttim), Goes(e)
      PROVE  HeapInv' /\ \E d \in TMEVTB : Comes(d) \/ Goes(d)
  <2>1. evttim' \in [TMEVTB -> Nat]  BY <1>3
  <2>2. \A d \in Registered(heap') : evttim'[d] = evttim[d]
    <3>1. Registered(heap') \subseteq TMEVTB \ {e}  BY <1>1, <1>3 DEF Goes
    <3>2. QED  BY <1>3, <3>1
  <2>3. InOrder(heap', evttim')  BY <1>3, <2>2, SameOrder
  <2>4. QED  BY <1>3, <2>1, <2>3
<1>4. ASSUME NEW e \in TMEVTB, Dequeue(e)
      PROVE  HeapInv' /\ \E d \in TMEVTB : Comes(d) \/ Goes(d)
  <2>1. e \in Registered(heap) /\ heap' = tmevtb_delete(heap, evttim, e)
        /\ evttim' = [evttim EXCEPT ![e] = 0]
    BY <1>4 DEF Dequeue
  <2>2. heap' \in TimeHeaps /\ InOrder(heap', evttim) /\ Goes(e)
    BY <1>1, <2>1, DeleteKeepsOrder DEF Goes
  <2>3. QED  BY <1>3, <2>1, <2>2
<1>5. ASSUME DeleteFirst
      PROVE  HeapInv' /\ \E d \in TMEVTB : Comes(d) \/ Goes(d)
  <2>1. heap.node # <<>> /\ heap' = tmevtb_delete_top(heap, evttim)
        /\ evttim' = [evttim EXCEPT ![heap.node[1]] = 0]
    BY <1>5 DEF DeleteFirst
  <2>2. /\ heap' \in TimeHeaps /\ InOrder(heap', evttim) /\ Goes(heap.node[1])
        /\ heap.node[1] \in Registered(heap)
    BY <1>1, <2>1, DeleteTopKeepsOrder DEF Goes
  <2>3. QED  BY <1>1, <1>3, <2>1, <2>2
<1>6. QED  BY <1>2, <1>4, <1>5 DEF HeapNext

\* The heap is ordered, so that its top is the earliest event, and every block knows its
\* node, whatever was inserted and deleted before, for any number of events and any times
\* (time_event.c, tmevt_up and tmevt_down).
THEOREM HeapIsOrdered == HeapSpec => []HeapOK
<1>1. HeapInv /\ [HeapNext]_hvars => HeapInv'
  <2> SUFFICES ASSUME HeapInv, [HeapNext]_hvars PROVE HeapInv'  OBVIOUS
  <2>1. CASE HeapNext  BY <2>1, HeapStep
  <2>2. CASE UNCHANGED hvars
    BY <2>2 DEF hvars, HeapInv, HeapOK, InOrder, LastNode
  <2>3. QED  BY <2>1, <2>2
<1>2. HeapInv => HeapOK  BY DEF HeapInv
<1>3. QED  BY HeapStarts, <1>1, <1>2, PTL DEF HeapSpec

\* A deletion that moves events about loses none of them and duplicates none: one event
\* comes or goes at a time, and each has one node (time_event.c, tmevtb_delete).
THEOREM OneEventAtATime == HeapSpec => OneAtATime
<1>1. HeapInv /\ [HeapNext]_hvars => HeapInv'
  <2> SUFFICES ASSUME HeapInv, [HeapNext]_hvars PROVE HeapInv'  OBVIOUS
  <2>1. CASE HeapNext  BY <2>1, HeapStep
  <2>2. CASE UNCHANGED hvars
    BY <2>2 DEF hvars, HeapInv, HeapOK, InOrder, LastNode
  <2>3. QED  BY <2>1, <2>2
<1>2. HeapInv /\ [HeapNext]_hvars =>
        [\E e \in TMEVTB : /\ Registered(heap) \ {e} = Registered(heap') \ {e}
                           /\ Cardinality(Registered(heap')) = LastNode(heap')]_hvars
  <2> SUFFICES ASSUME HeapInv, HeapNext
               PROVE  \E e \in TMEVTB : /\ Registered(heap) \ {e} = Registered(heap') \ {e}
                                        /\ Cardinality(Registered(heap')) = LastNode(heap')
    OBVIOUS
  <2>1. PICK e \in TMEVTB : Comes(e) \/ Goes(e)  BY HeapStep
  <2>2. heap' \in TimeHeaps /\ InOrder(heap', evttim')  BY HeapStep DEF HeapInv, HeapOK
  <2>3. Cardinality(Registered(heap')) = LastNode(heap')  BY <2>2, OneNodeEach
  <2>4. Registered(heap) \ {e} = Registered(heap') \ {e}  BY <2>1 DEF Comes, Goes
  <2>5. QED  BY <2>3, <2>4
<1>3. QED  BY HeapStarts, <1>1, <1>2, PTL DEF HeapSpec, OneAtATime

----------------------------------------------------------------------------
(* Remainders.                                                             *)

\* What a remainder is.
LEMMA Rem ==
  ASSUME NEW m \in Nat \ {0}, NEW x \in Int
  PROVE  x % m \in 0 .. m - 1 /\ x \div m \in Int /\ x = m * (x \div m) + (x % m)
OBVIOUS

\* A remainder is known by its range.
LEMMA RemIs ==
  ASSUME NEW m \in Nat \ {0}, NEW x \in Int, NEW q \in Int, NEW r \in 0 .. m - 1, x = m * q + r
  PROVE  x % m = r
<1>1. x % m \in 0 .. m - 1 /\ x \div m \in Int /\ x = m * (x \div m) + (x % m)  BY Rem
<1> DEFINE d == (x \div m) - q
<1>2. d \in Int /\ m * d = r - (x % m)  BY <1>1
<1>3. m * d < m /\ -m < m * d  BY <1>1, <1>2
<1>4. d = 0
  <2>1. CASE d >= 1  BY <1>2, <1>3, <2>1
  <2>2. CASE d <= -1  BY <1>2, <1>3, <2>2
  <2>3. QED  BY <1>2, <2>1, <2>2
<1>5. QED  BY <1>1, <1>2, <1>4

\* Multiples of the modulus are dropped.
LEMMA RemPlus ==
  ASSUME NEW m \in Nat \ {0}, NEW x \in Int, NEW q \in Int
  PROVE  (x + m * q) % m = x % m
<1>1. x % m \in 0 .. m - 1 /\ x \div m \in Int /\ x = m * (x \div m) + (x % m)  BY Rem
<1>2. x + m * q = m * ((x \div m) + q) + (x % m)  BY <1>1
<1>3. x + m * q \in Int /\ (x \div m) + q \in Int  BY <1>1
<1>4. QED  BY <1>1, <1>2, <1>3, RemIs

\* Sums may be reduced before or after.
LEMMA RemSum ==
  ASSUME NEW m \in Nat \ {0}, NEW x \in Int, NEW y \in Int
  PROVE  ((x % m) + y) % m = (x + y) % m
<1>1. x % m \in 0 .. m - 1 /\ x \div m \in Int /\ x = m * (x \div m) + (x % m)  BY Rem
<1> DEFINE u == (x % m) + y
<1>2. u \in Int /\ x \div m \in Int /\ x + y = u + m * (x \div m)  BY <1>1
<1> HIDE DEF u
<1>3. (u + m * (x \div m)) % m = u % m  BY <1>2, RemPlus
<1>4. QED  BY <1>2, <1>3 DEF u

\* So may differences.
LEMMA RemDiff ==
  ASSUME NEW m \in Nat \ {0}, NEW x \in Int, NEW y \in Int
  PROVE  (y - (x % m)) % m = (y - x) % m
<1>1. x % m \in 0 .. m - 1 /\ x \div m \in Int /\ x = m * (x \div m) + (x % m)  BY Rem
<1> DEFINE u == y - x
<1>2. u \in Int /\ x \div m \in Int /\ y - (x % m) = u + m * (x \div m)  BY <1>1
<1> HIDE DEF u
<1>3. (u + m * (x \div m)) % m = u % m  BY <1>2, RemPlus
<1>4. QED  BY <1>2, <1>3 DEF u

\* What is added is added to the remainder as long as that stays in range.
LEMMA RemShift ==
  ASSUME NEW m \in Nat \ {0}, NEW x \in Int, NEW a \in Int, (x % m) + a \in 0 .. m - 1
  PROVE  (x + a) % m = (x % m) + a
<1>1. x % m \in 0 .. m - 1 /\ x \div m \in Int /\ x = m * (x \div m) + (x % m)  BY Rem
<1>2. x + a = m * (x \div m) + ((x % m) + a)  BY <1>1
<1>3. QED  BY <1>1, <1>2, RemIs

\* A number below the modulus is its own remainder.
LEMMA Small == ASSUME NEW m \in Nat \ {0}, NEW x \in 0 .. m - 1 PROVE x % m = x
<1>1. x = m * 0 + x  OBVIOUS
<1>2. QED  BY <1>1, RemIs

----------------------------------------------------------------------------
(* Measures of a state that do not wrap around.                            *)

\* The counts of the hardware since current_evttim was brought up to date.
Elapsed(s) == (s.raw - s.hrtcnt * RATE) % RAW

\* How far in the future of current_evttim the time of an event lies, and the counts of
\* the hardware until it is due by that time; both may be negative.
Distance(s, e) == Advance(s, s.evttim[e]) - BOUNDARY_MARGIN
Until(s, e) == Distance(s, e) * RATE - Elapsed(s)

\* How far the system time has run ahead of the event time that adj_tim has put back.
Ahead(s) == (s.mono - s.current) % W

\* The counts of the hardware until the timer asks for its interrupt.
Countdown(s) == ((s.cmp - s.raw - 1) % RAW) + 1

\* What adj_tim may put the events forward.
Put(s) == IF "adj_tim" \in s.cfg.calls THEN 2 * TMAX_ADJTIM * RATE ELSE 0

\* The constants.
LEMMA Numbers ==
  /\ W \in Nat \ {0} /\ BOUNDARY_MARGIN \in Nat \ {0} /\ TCYC_HRTCNT \in Nat \ {0}
  /\ TSTEP_HRTCNT \in Nat \ {0} /\ HRTCNT_BOUND \in Nat \ {0} /\ RATE \in Nat \ {0}
  /\ TMAX_ADJTIM \in Nat /\ MAXLATE \in Nat /\ TCYC_HRTCNT <= W
  /\ RAW \in Nat \ {0} /\ SYS \in Nat \ {0} /\ SYS = 2 * W /\ RAW = RATE * TCYC_HRTCNT
  /\ HRTCNT_BOUND * RATE + RATE + MAXLATE < RAW
  /\ 3 * TMAX_ADJTIM + BOUNDARY_MARGIN + TSTEP_HRTCNT < W
<1>1. /\ {W, BOUNDARY_MARGIN, TCYC_HRTCNT, TSTEP_HRTCNT, HRTCNT_BOUND, RATE} \subseteq Nat \ {0}
      /\ TMAX_ADJTIM \in Nat /\ MAXLATE \in Nat /\ CYCTIM \in Nat
      /\ HRTCNT_BOUND * RATE + RATE + MAXLATE < TCYC_HRTCNT * RATE
      /\ CYCTIM + TSTEP_HRTCNT + 3 * TMAX_ADJTIM + BOUNDARY_MARGIN < W /\ TCYC_HRTCNT <= W
  BY TimeAssumption
<1>2. TCYC_HRTCNT * RATE = RATE * TCYC_HRTCNT /\ RATE * TCYC_HRTCNT \in Nat \ {0}  BY <1>1
<1>3. QED  BY <1>1, <1>2 DEF RAW, SYS

\* The counter in steps, what is left of it, and the steps since the last update.
LEMMA Quotient ==
  ASSUME NEW s \in TimeStates
  PROVE  LET a == (target_hrt_get_current(s) - s.hrtcnt) % TCYC_HRTCNT IN
         /\ target_hrt_get_current(s) \in 0 .. TCYC_HRTCNT - 1
         /\ s.raw % RATE \in 0 .. RATE - 1
         /\ (s.raw - target_hrt_get_current(s) * RATE) % RAW = s.raw % RATE
         /\ a \in 0 .. TCYC_HRTCNT - 1 /\ Elapsed(s) = a * RATE + (s.raw % RATE)
<1> DEFINE q == s.raw \div RATE
           r == s.raw % RATE
           h == s.hrtcnt
           a == (q - h) % TCYC_HRTCNT
<1>1. s.raw \in 0 .. RAW - 1 /\ h \in 0 .. TCYC_HRTCNT - 1  BY DEF TimeStates
<1>2. /\ RATE \in Nat \ {0} /\ TCYC_HRTCNT \in Nat \ {0} /\ RAW \in Nat \ {0}
      /\ RAW = RATE * TCYC_HRTCNT
  BY Numbers
<1>3. s.raw \in Int  BY <1>1, <1>2
<1>4. r \in 0 .. RATE - 1 /\ q \in Int /\ s.raw = RATE * q + r  BY <1>2, <1>3, Rem
<1> HIDE DEF q, r, h
<1>5. q \in 0 .. TCYC_HRTCNT - 1
  <2>1. RATE * q < RATE * TCYC_HRTCNT /\ -RATE < RATE * q  BY <1>1, <1>2, <1>4
  <2>2. CASE q >= TCYC_HRTCNT
    <3>1. RATE * (q - TCYC_HRTCNT) >= 0  BY <1>2, <1>4, <2>2
    <3>2. QED  BY <1>2, <1>4, <2>1, <3>1
  <2>3. CASE q <= -1
    <3>1. RATE * (q + 1) <= 0  BY <1>2, <1>4, <2>3
    <3>2. QED  BY <1>2, <1>4, <2>1, <3>1
  <2>4. QED  BY <1>2, <1>4, <2>2, <2>3
<1>6. r \in 0 .. RAW - 1  BY <1>2, <1>4
<1>7. (s.raw - q * RATE) % RAW = r
  <2>1. s.raw - q * RATE = r  BY <1>2, <1>4
  <2>2. QED  BY <1>2, <1>6, <2>1, Small
<1>8. a \in 0 .. TCYC_HRTCNT - 1  BY <1>1, <1>2, <1>5, Rem
<1> HIDE DEF a
<1>9. (s.raw - h * RATE) % RAW = a * RATE + r
  <2> DEFINE p == a * RATE
             x == s.raw - h * RATE
  <2>1. p + r \in 0 .. RAW - 1
    <3>1. p >= 0 /\ (TCYC_HRTCNT - 1 - a) * RATE >= 0  BY <1>2, <1>8
    <3>2. p \in Int /\ (TCYC_HRTCNT - 1 - a) * RATE = RAW - RATE - p  BY <1>2, <1>8
    <3> HIDE DEF p
    <3>3. p <= RAW - RATE  BY <1>2, <3>1, <3>2
    <3>4. QED  BY <1>2, <1>4, <3>1, <3>2, <3>3
  <2>2. CASE q - h >= 0
    <3>1. q - h \in 0 .. TCYC_HRTCNT - 1  BY <1>1, <1>2, <1>5, <2>2
    <3>2. a = q - h  BY <1>2, <3>1, Small DEF a
    <3>3. x = RAW * 0 + (p + r)  BY <1>1, <1>2, <1>4, <1>5, <3>2
    <3>4. x \in Int  BY <1>1, <1>2
    <3> HIDE DEF p, x
    <3>5. x % RAW = p + r  BY <1>2, <2>1, <3>3, <3>4, RemIs
    <3>6. QED  BY <3>5 DEF p, x
  <2>3. CASE q - h < 0
    <3>1. q - h \in Int /\ q - h = TCYC_HRTCNT * (-1) + (q - h + TCYC_HRTCNT)
          /\ q - h + TCYC_HRTCNT \in 0 .. TCYC_HRTCNT - 1
      BY <1>1, <1>2, <1>5, <2>3
    <3>2. a = q - h + TCYC_HRTCNT  BY <1>2, <3>1, RemIs DEF a
    <3>3. x = RAW * (-1) + (p + r)  BY <1>1, <1>2, <1>4, <1>5, <3>2
    <3>4. x \in Int  BY <1>1, <1>2
    <3> HIDE DEF p, x
    <3>5. x % RAW = p + r  BY <1>2, <2>1, <3>3, <3>4, RemIs
    <3>6. QED  BY <3>5 DEF p, x
  <2>4. QED  BY <1>1, <1>2, <1>5, <2>2, <2>3
<1>10. QED
  BY <1>4, <1>5, <1>7, <1>8, <1>9 DEF a, q, r, h, Elapsed, target_hrt_get_current

----------------------------------------------------------------------------
(* The clocks: how an update changes how the time is written down.         *)

\* The system time as it is written down.
Total(s) == (s.offset + s.mono) % SYS

\* The fields of a state.
LEMMA FieldsOf ==
  ASSUME NEW s \in TimeStates
  PROVE  /\ s.cfg \in CFG /\ s.irq \in BOOLEAN /\ s.heap \in TimeHeaps
         /\ s.raw \in Int /\ s.raw \in 0 .. RAW - 1 /\ s.cmp \in Int /\ s.cmp \in 0 .. RAW - 1
         /\ s.hrtcnt \in Int /\ s.hrtcnt \in 0 .. TCYC_HRTCNT - 1
         /\ s.current \in Int /\ s.current \in 0 .. W - 1
         /\ s.mono \in Int /\ s.mono \in 0 .. W - 1
         /\ s.offset \in Int /\ s.offset \in 0 .. SYS - 1
         /\ s.evttim \in [TMEVTB -> Int]
         /\ \A e \in TMEVTB : s.evttim[e] \in 0 .. W - 1
BY Numbers DEF TimeStates

\* From s to t at most the clocks have changed.
Same(s, t) ==
  /\ t \in TimeStates /\ t.cfg = s.cfg /\ t.raw = s.raw /\ t.cmp = s.cmp /\ t.irq = s.irq
  /\ t.heap = s.heap /\ t.evttim = s.evttim

\* By how much the system time goes on when the event time does by a: what is left when
\* it has caught up.
Gain(s, a) == IF Ahead(s) < a THEN a - Ahead(s) ELSE 0

\* The event time goes on; the system time follows when it is overtaken, and no wrap-around
\* is lost (time_event.c, update_current_evttim).
LEMMA Forward ==
  ASSUME NEW s \in TimeStates, NEW a \in 0 .. W - 1,
         NEW t, t = Overtake([s EXCEPT !.current = (@ + a) % W], s.current, a)
  PROVE  /\ Same(s, t) /\ t.hrtcnt = s.hrtcnt /\ t.current = (s.current + a) % W
         /\ Ahead(s) \in 0 .. W - 1 /\ Ahead(t) = Ahead(s) - a + Gain(s, a)
         /\ Total(t) = (s.offset + s.mono + Gain(s, a)) % SYS
<1> DEFINE c == s.current
           m == s.mono
           b == Ahead(s)
           d == (c + a) % W
           s1 == [s EXCEPT !.current = d]
<1>1. W \in Nat \ {0} /\ SYS \in Nat \ {0} /\ SYS = 2 * W  BY Numbers
<1>2. c \in 0 .. W - 1 /\ c \in Int /\ m \in 0 .. W - 1 /\ m \in Int /\ a \in Int
      /\ s.offset \in Int /\ s.offset \in 0 .. SYS - 1
  BY <1>1, FieldsOf
<1>3. b = (m - c) % W /\ b \in 0 .. W - 1 /\ b \in Int  BY <1>1, <1>2, Rem DEF Ahead
<1>4. d \in 0 .. W - 1 /\ d \in Int  BY <1>1, <1>2, Rem
<1>5. /\ s1 \in TimeStates /\ s1.current = d /\ s1.mono = m /\ s1.offset = s.offset
      /\ s1.hrtcnt = s.hrtcnt /\ Same(s, s1)
  BY <1>4 DEF TimeStates, Same
<1>6. t = IF b < a
          THEN [s1 EXCEPT !.mono = d, !.offset = IF d < m THEN (@ + W) % SYS ELSE @]
          ELSE s1
  BY <1>3, <1>5 DEF Overtake
<1> HIDE DEF s1, d, b
<1>7. b = m - c \/ b = m - c + W
  <2>1. CASE m >= c
    <3>1. m - c \in 0 .. W - 1  BY <1>1, <1>2, <2>1
    <3>2. (m - c) % W = m - c  BY <1>1, <3>1, Small
    <3>3. QED  BY <1>3, <3>2
  <2>2. CASE m < c
    <3>1. m - c = W * (-1) + (m - c + W) /\ m - c + W \in 0 .. W - 1 /\ m - c \in Int
      BY <1>1, <1>2, <2>2
    <3>2. QED  BY <1>1, <1>3, <3>1, RemIs
  <2>3. QED  BY <1>2, <2>1, <2>2
<1>8. d = c + a \/ d = c + a - W
  <2>1. CASE c + a < W
    <3>1. c + a \in 0 .. W - 1  BY <1>1, <1>2, <2>1
    <3>2. QED  BY <1>1, <3>1, Small DEF d
  <2>2. CASE c + a >= W
    <3>1. c + a = W * 1 + (c + a - W) /\ c + a - W \in 0 .. W - 1 /\ c + a \in Int
      BY <1>1, <1>2, <2>2
    <3>2. QED  BY <1>1, <3>1, RemIs DEF d
  <2>3. QED  BY <1>1, <1>2, <2>1, <2>2
<1>9. CASE b < a
  <2> DEFINE o == IF d < m THEN (s.offset + W) % SYS ELSE s.offset
             g == a - b
  <2>1. (s.offset + W) % SYS \in 0 .. SYS - 1  BY <1>1, <1>2, Rem
  <2>2. t = [s1 EXCEPT !.mono = d, !.offset = o]  BY <1>5, <1>6, <1>9
  <2>3. o \in 0 .. SYS - 1 /\ o \in Int  BY <1>1, <1>2, <2>1
  <2> HIDE DEF o
  <2>4. t \in TimeStates /\ t.mono = d /\ t.offset = o /\ t.current = d /\ t.hrtcnt = s.hrtcnt
        /\ Same(s, t)
    BY <1>4, <1>5, <2>2, <2>3 DEF TimeStates, Same
  <2>5. Gain(s, a) = g /\ g \in 1 .. W - 1  BY <1>1, <1>2, <1>3, <1>9 DEF Gain, b
  <2>6. Ahead(t) = 0
    <3>1. Ahead(t) = 0 % W  BY <1>4, <2>4 DEF Ahead
    <3>2. QED  BY <1>1, <3>1, Small
  <2>7. Total(t) = (s.offset + m + g) % SYS
    <3>1. CASE d < m
      <4>1. d = m + g - W  BY <1>1, <1>2, <1>3, <1>4, <1>7, <1>8, <2>5, <3>1
      <4>2. Total(t) = (((s.offset + W) % SYS) + d) % SYS  BY <2>4, <3>1 DEF Total, o
      <4>3. Total(t) = (s.offset + W + d) % SYS
        <5>1. s.offset + W \in Int  BY <1>1, <1>2
        <5>2. QED  BY <1>1, <1>4, <4>2, <5>1, RemSum
      <4>4. s.offset + W + d = s.offset + m + g  BY <1>1, <1>2, <1>4, <2>5, <4>1
      <4>5. QED  BY <4>3, <4>4
    <3>2. CASE ~ (d < m)
      <4>1. d = m + g  BY <1>1, <1>2, <1>3, <1>4, <1>7, <1>8, <2>5, <3>2
      <4>2. Total(t) = (s.offset + d) % SYS  BY <2>4, <3>2 DEF Total, o
      <4>3. s.offset + d = s.offset + m + g  BY <1>2, <1>4, <2>5, <4>1
      <4>4. QED  BY <4>2, <4>3
    <3>3. QED  BY <3>1, <3>2
  <2>8. b - a + g = 0  BY <1>2, <1>3
  <2>9. QED  BY <1>3, <2>4, <2>5, <2>6, <2>7, <2>8 DEF b, d
<1>10. CASE ~ (b < a)
  <2>1. t = s1 /\ Gain(s, a) = 0  BY <1>6, <1>10 DEF Gain, b
  <2>2. b - a \in 0 .. W - 1  BY <1>1, <1>2, <1>3, <1>10
  <2>3. Ahead(t) = b - a
    <3>1. Ahead(t) = (m - d) % W  BY <1>5, <2>1 DEF Ahead
    <3>2. (m - d) % W = (m - (c + a)) % W
      <4> DEFINE y == c + a
      <4>1. d = y % W /\ y \in Int  BY <1>2 DEF d
      <4> HIDE DEF y
      <4>2. (m - (y % W)) % W = (m - y) % W  BY <1>1, <1>2, <4>1, RemDiff
      <4>3. QED  BY <4>1, <4>2 DEF y
    <3>3. (m - (c + a)) = (m - c) + (-a) /\ m - c \in Int /\ -a \in Int
          /\ b + (-a) \in 0 .. W - 1 /\ b + (-a) = b - a
      BY <1>2, <1>3, <2>2
    <3>4. ((m - c) + (-a)) % W = b + (-a)  BY <1>1, <1>3, <3>3, RemShift
    <3>5. QED  BY <3>1, <3>2, <3>3, <3>4
  <2>4. Total(t) = (s.offset + m + 0) % SYS
    <3>1. s.offset + m + 0 = s.offset + m  BY <1>2
    <3>2. QED  BY <1>5, <2>1, <3>1 DEF Total
  <2>5. b - a + 0 = b - a  BY <1>2, <1>3
  <2>6. QED  BY <1>3, <1>5, <2>1, <2>3, <2>4, <2>5 DEF b, d
<1>11. QED  BY <1>9, <1>10

\* An event comes nearer by as much as the time goes on, as long as it is neither too far
\* in the past nor too far in the future to be told apart.
LEMMA Nearer ==
  ASSUME NEW s \in TimeStates, NEW t \in TimeStates, NEW a \in Int, NEW e \in TMEVTB,
         t.current = (s.current + a) % W, t.evttim[e] = s.evttim[e],
         Distance(s, e) - a \in -BOUNDARY_MARGIN .. W - BOUNDARY_MARGIN - 1
  PROVE  Distance(t, e) = Distance(s, e) - a
<1> DEFINE x == s.evttim[e]
           c == s.current
           u == x + BOUNDARY_MARGIN - c
<1>1. W \in Nat \ {0} /\ BOUNDARY_MARGIN \in Nat  BY Numbers
<1>2. x \in Int /\ c \in Int /\ u \in Int  BY <1>1, FieldsOf
<1>3. Distance(s, e) = (u % W) - BOUNDARY_MARGIN /\ u % W \in Int
  <2>1. x - (c - BOUNDARY_MARGIN) = u  BY <1>1, <1>2
  <2>2. QED  BY <1>1, <1>2, <2>1, Rem DEF Distance, Advance
<1>4. Distance(t, e) = ((u + (-a)) % W) - BOUNDARY_MARGIN
  <2>1. (c + a) % W \in Int  BY <1>1, <1>2, Rem
  <2>2. x - (((c + a) % W) - BOUNDARY_MARGIN) = (x + BOUNDARY_MARGIN) - ((c + a) % W)
    BY <1>1, <1>2, <2>1
  <2>3. ((x + BOUNDARY_MARGIN) - ((c + a) % W)) % W = ((x + BOUNDARY_MARGIN) - (c + a)) % W
    <3>1. x + BOUNDARY_MARGIN \in Int /\ c + a \in Int  BY <1>1, <1>2
    <3>2. QED  BY <1>1, <3>1, RemDiff
  <2>4. (x + BOUNDARY_MARGIN) - (c + a) = u + (-a)  BY <1>1, <1>2
  <2>5. QED  BY <2>2, <2>3, <2>4 DEF Distance, Advance
<1> HIDE DEF u
<1>5. (u % W) + (-a) \in 0 .. W - 1 /\ -a \in Int  BY <1>1, <1>3
<1>6. (u + (-a)) % W = (u % W) + (-a)  BY <1>1, <1>2, <1>5, RemShift
<1>7. QED  BY <1>1, <1>3, <1>4, <1>6

----------------------------------------------------------------------------
(* What the module's state says of the events, and of the timer.           *)

\* The order stays if all the times of registered events change by the same amount.
LEMMA ShiftedOrder ==
  ASSUME NEW h \in TimeHeaps, NEW key \in [TMEVTB -> Int], NEW new \in [TMEVTB -> Int],
         NEW a \in Int, InOrder(h, key), \A d \in Registered(h) : new[d] = key[d] - a
  PROVE  InOrder(h, new)
<1>1. LastNode(h) \in Nat /\ h.node \in [1 .. LastNode(h) -> TMEVTB]  BY TheRegistered
<1>2. \A x \in 1 .. LastNode(h) :
        new[h.node[x]] = key[h.node[x]] - a /\ key[h.node[x]] \in Int
  BY <1>1 DEF Registered
<1>3. ASSUME NEW x \in 2 .. LastNode(h) PROVE new[h.node[x \div 2]] <= new[h.node[x]]
  <2>1. x \in 1 .. LastNode(h) /\ x \div 2 \in 1 .. LastNode(h)  BY <1>1
  <2>2. key[h.node[x \div 2]] <= key[h.node[x]]  BY DEF InOrder
  <2>3. QED  BY <1>2, <2>1, <2>2
<1>4. QED  BY <1>3 DEF InOrder

\* The heap is in order, and every event lies in the window in which times can be told
\* apart: no further in the past than an interrupt that is l counts late explains, and
\* far enough from the end of the window for the adjustments to come.
Sound(s, l) ==
  /\ s \in TimeStates /\ InOrder(s.heap, Keys(s))
  /\ Ahead(s) <= 2 * TMAX_ADJTIM
  /\ Elapsed(s) <= HRTCNT_BOUND * RATE + RATE + l
  /\ \A e \in Registered(s.heap) :
       /\ Distance(s, e) + 3 * TMAX_ADJTIM + BOUNDARY_MARGIN < W + Ahead(s)
       /\ Until(s, e) + RATE + l + Put(s) >= 0

\* The timer will ask for its interrupt before any event is late by more than a step, and
\* soon enough for the update of the clocks.
TimerSet(s) ==
  /\ Countdown(s) + Elapsed(s) <= HRTCNT_BOUND * RATE + RATE
  /\ \A e \in Registered(s.heap) : Countdown(s) <= Until(s, e) + RATE

\* The measures are numbers.
LEMMA Measures ==
  ASSUME NEW s \in TimeStates
  PROVE  /\ Elapsed(s) \in Nat /\ Elapsed(s) < RAW /\ Ahead(s) \in Nat /\ Ahead(s) < W
         /\ Countdown(s) \in 1 .. RAW /\ Put(s) \in Nat
         /\ Keys(s) \in [TMEVTB -> Int]
         /\ \A e \in TMEVTB : Keys(s)[e] \in Nat /\ Keys(s)[e] = Distance(s, e) + BOUNDARY_MARGIN
         /\ \A e \in TMEVTB : Distance(s, e) \in Int /\ Until(s, e) \in Int
<1>1. /\ W \in Nat \ {0} /\ BOUNDARY_MARGIN \in Nat \ {0} /\ RATE \in Nat \ {0}
      /\ TMAX_ADJTIM \in Nat /\ RAW \in Nat \ {0}
  BY Numbers
<1>2. /\ s.raw \in Int /\ s.cmp \in Int /\ s.hrtcnt \in Int /\ s.current \in Int /\ s.mono \in Int
      /\ \A e \in TMEVTB : s.evttim[e] \in Int
  BY FieldsOf
<1>3. Elapsed(s) \in Nat /\ Elapsed(s) < RAW
  <2> DEFINE u == s.raw - s.hrtcnt * RATE
  <2>1. u \in Int /\ Elapsed(s) = u % RAW  BY <1>1, <1>2 DEF Elapsed
  <2> HIDE DEF u
  <2>2. QED  BY <1>1, <2>1, Rem
<1>4. Ahead(s) \in Nat /\ Ahead(s) < W
  <2> DEFINE u == s.mono - s.current
  <2>1. u \in Int /\ Ahead(s) = u % W  BY <1>2 DEF Ahead
  <2> HIDE DEF u
  <2>2. QED  BY <1>1, <2>1, Rem
<1>5. Countdown(s) \in 1 .. RAW
  <2>1. s.cmp - s.raw - 1 \in Int  BY <1>2
  <2>2. QED  BY <1>1, <2>1, Rem DEF Countdown
<1>6. Put(s) \in Nat  BY <1>1 DEF Put
<1>7. ASSUME NEW e \in TMEVTB
      PROVE  Keys(s)[e] \in Nat /\ Keys(s)[e] = Distance(s, e) + BOUNDARY_MARGIN
             /\ Distance(s, e) \in Int /\ Until(s, e) \in Int
  <2> DEFINE u == s.evttim[e] - (s.current - BOUNDARY_MARGIN)
  <2>1. u \in Int  BY <1>1, <1>2
  <2>2. u % W \in Nat  BY <1>1, <2>1, Rem
  <2>3. Keys(s)[e] = u % W  BY DEF Keys, Advance
  <2>4. Distance(s, e) = (u % W) - BOUNDARY_MARGIN  BY DEF Distance, Advance
  <2> HIDE DEF u
  <2>5. QED  BY <1>1, <1>3, <2>2, <2>3, <2>4 DEF Until
<1>8. QED  BY <1>3, <1>4, <1>5, <1>6, <1>7 DEF Keys

\* Products with the rate keep the order.
LEMMA Scaled ==
  ASSUME NEW x \in Int, NEW y \in Int
  PROVE  /\ x * RATE \in Int /\ y * RATE \in Int
         /\ (x - y) * RATE = x * RATE - y * RATE /\ (x + y) * RATE = x * RATE + y * RATE
         /\ x <= y <=> x * RATE <= y * RATE
         /\ x < y <=> x * RATE + RATE <= y * RATE
         /\ 1 * RATE = RATE /\ 0 * RATE = 0
<1>1. RATE \in Nat \ {0}  BY Numbers
<1>2. /\ x * RATE \in Int /\ y * RATE \in Int
      /\ (x - y) * RATE = x * RATE - y * RATE /\ (x + y) * RATE = x * RATE + y * RATE
      /\ 1 * RATE = RATE /\ 0 * RATE = 0
  BY <1>1
<1>3. CASE x < y
  <2>1. (y - x - 1) * RATE >= 0  BY <1>1, <1>3
  <2>2. (y - x - 1) * RATE = y * RATE - x * RATE - RATE  BY <1>1
  <2>3. QED  BY <1>1, <1>2, <1>3, <2>1, <2>2
<1>4. CASE x = y  BY <1>1, <1>2, <1>4
<1>5. CASE y < x
  <2>1. (x - y - 1) * RATE >= 0  BY <1>1, <1>5
  <2>2. (x - y - 1) * RATE = x * RATE - y * RATE - RATE  BY <1>1
  <2>3. QED  BY <1>1, <1>2, <1>5, <2>1, <2>2
<1>6. QED  BY <1>3, <1>4, <1>5

\* The sign of a multiple of the rate.
LEMMA Multiple ==
  ASSUME NEW x \in Int
  PROVE  x * RATE \in Int /\ (x >= 1 => x * RATE >= RATE) /\ (x <= 0 => x * RATE <= 0)
<1>1. RATE \in Nat \ {0}  BY Numbers
<1>2. CASE x >= 1
  <2>1. (x - 1) * RATE >= 0 /\ (x - 1) * RATE = x * RATE - RATE  BY <1>1, <1>2
  <2>2. QED  BY <1>1, <1>2, <2>1
<1>3. CASE x <= 0
  <2>1. (-x) * RATE >= 0 /\ (-x) * RATE = -(x * RATE)  BY <1>1, <1>3
  <2>2. QED  BY <1>1, <1>3, <2>1
<1>4. QED  BY <1>2, <1>3

\* What is registered lies within the margin in the past and far from its end in the future.
LEMMA InWindow ==
  ASSUME NEW l \in 0 .. MAXLATE, NEW s, Sound(s, l), NEW e \in Registered(s.heap)
  PROVE  /\ e \in TMEVTB /\ Distance(s, e) \in Int /\ Until(s, e) \in Int
         /\ Distance(s, e) > -BOUNDARY_MARGIN
         /\ Distance(s, e) + TMAX_ADJTIM + BOUNDARY_MARGIN < W
<1>1. s \in TimeStates /\ e \in TMEVTB  BY FieldsOf, TheRegistered DEF Sound
<1>2. /\ Elapsed(s) \in Nat /\ Ahead(s) \in Nat /\ Put(s) \in Nat
      /\ Distance(s, e) \in Int /\ Until(s, e) \in Int
  BY <1>1, Measures
<1>3. /\ W \in Nat \ {0} /\ BOUNDARY_MARGIN \in Nat \ {0} /\ RATE \in Nat \ {0}
      /\ TMAX_ADJTIM \in Nat /\ MAXLATE \in Nat /\ TSTEP_HRTCNT \in Nat \ {0}
  BY Numbers
<1>4. Distance(s, e) + TMAX_ADJTIM + BOUNDARY_MARGIN < W
  BY <1>1, <1>2, <1>3 DEF Sound
<1>5. RATE + l + Put(s) < BOUNDARY_MARGIN * RATE
  <2>1. Overdue(s.cfg) < BOUNDARY_MARGIN * RATE  BY <1>1, FieldsOf, MarginAssumption
  <2>2. Overdue(s.cfg) = (1 + TSTEP_HRTCNT) * RATE + MAXLATE + Put(s)
    BY <1>2, <1>3 DEF Overdue, Put
  <2>3. (1 + TSTEP_HRTCNT) * RATE = RATE + TSTEP_HRTCNT * RATE /\ TSTEP_HRTCNT * RATE >= 0
        /\ TSTEP_HRTCNT * RATE \in Int /\ BOUNDARY_MARGIN * RATE \in Int
    BY <1>3
  <2>4. QED  BY <1>2, <1>3, <2>1, <2>2, <2>3
<1>6. (-BOUNDARY_MARGIN) * RATE < Distance(s, e) * RATE
  <2>1. Until(s, e) + RATE + l + Put(s) >= 0  BY DEF Sound
  <2>2. Distance(s, e) * RATE \in Int  BY <1>1, <1>2, <1>3
  <2>3. (-BOUNDARY_MARGIN) * RATE = -(BOUNDARY_MARGIN * RATE) /\ BOUNDARY_MARGIN * RATE \in Int
    BY <1>3
  <2>4. QED  BY <1>2, <1>3, <1>5, <2>1, <2>2, <2>3 DEF Until
<1>7. Distance(s, e) > -BOUNDARY_MARGIN
  <2>1. -BOUNDARY_MARGIN \in Int  BY <1>3
  <2>2. ~ (Distance(s, e) * RATE <= (-BOUNDARY_MARGIN) * RATE)
    BY <1>2, <1>3, <1>6
  <2>3. ~ (Distance(s, e) <= -BOUNDARY_MARGIN)  BY <1>2, <2>1, <2>2, Scaled
  <2>4. QED  BY <1>2, <2>1, <2>3
<1>8. QED  BY <1>1, <1>2, <1>4, <1>7

\* The event time goes on, or back, by a.
LEMMA Shift ==
  ASSUME NEW l \in 0 .. MAXLATE, NEW s, Sound(s, l), NEW a \in Int, NEW t \in TimeStates,
         t.heap = s.heap, t.evttim = s.evttim, t.current = (s.current + a) % W,
         Ahead(t) <= 2 * TMAX_ADJTIM, Ahead(t) >= Ahead(s) - a,
         \A e \in Registered(s.heap) : Distance(s, e) - a >= -BOUNDARY_MARGIN
  PROVE  /\ InOrder(t.heap, Keys(t))
         /\ \A e \in Registered(t.heap) :
              /\ Distance(t, e) = Distance(s, e) - a
              /\ Distance(t, e) + 3 * TMAX_ADJTIM + BOUNDARY_MARGIN < W + Ahead(t)
<1>1. s \in TimeStates /\ s.heap \in TimeHeaps /\ Registered(s.heap) \subseteq TMEVTB
      /\ InOrder(s.heap, Keys(s))
  BY FieldsOf, TheRegistered DEF Sound
<1>2. W \in Nat \ {0} /\ BOUNDARY_MARGIN \in Nat /\ TMAX_ADJTIM \in Nat  BY Numbers
<1>3. ASSUME NEW e \in Registered(s.heap)
      PROVE  /\ Distance(t, e) = Distance(s, e) - a /\ Distance(s, e) \in Int
             /\ Distance(t, e) + 3 * TMAX_ADJTIM + BOUNDARY_MARGIN < W + Ahead(t)
  <2>1. e \in TMEVTB /\ Distance(s, e) \in Int /\ Ahead(s) \in Nat /\ Ahead(t) \in Nat
    BY <1>1, Measures
  <2>2. Distance(s, e) + 3 * TMAX_ADJTIM + BOUNDARY_MARGIN < W + Ahead(s)  BY DEF Sound
  <2>3. Distance(s, e) - a + 3 * TMAX_ADJTIM + BOUNDARY_MARGIN < W + Ahead(t)
    BY <1>2, <2>1, <2>2
  <2>4. Distance(s, e) - a \in -BOUNDARY_MARGIN .. W - BOUNDARY_MARGIN - 1
    BY <1>2, <2>1, <2>3
  <2>5. Distance(t, e) = Distance(s, e) - a  BY <1>1, <2>1, <2>4, Nearer
  <2>6. QED  BY <2>1, <2>3, <2>5
<1>4. ASSUME NEW e \in Registered(s.heap) PROVE Keys(t)[e] = Keys(s)[e] - a
  <2>1. e \in TMEVTB  BY <1>1
  <2>2. Keys(t)[e] = Distance(t, e) + BOUNDARY_MARGIN /\ Keys(s)[e] = Distance(s, e) + BOUNDARY_MARGIN
    BY <1>1, <2>1, Measures
  <2>3. QED  BY <1>2, <1>3, <2>2
<1>5. Keys(s) \in [TMEVTB -> Int] /\ Keys(t) \in [TMEVTB -> Int]  BY <1>1, Measures
<1>6. InOrder(s.heap, Keys(t))  BY <1>1, <1>4, <1>5, ShiftedOrder
<1>7. QED  BY <1>3, <1>6

\* The steps that an update adds to the event time.
Advanced(s) == (target_hrt_get_current(s) - s.hrtcnt) % TCYC_HRTCNT

\* update_current_evttim changes how the time is written down, not what it is.
LEMMA Updated ==
  ASSUME NEW s \in TimeStates, NEW n, n = update_current_evttim(s)
  PROVE  /\ Same(s, n) /\ n.hrtcnt = target_hrt_get_current(s)
         /\ Advanced(s) \in 0 .. TCYC_HRTCNT - 1 /\ n.current = (s.current + Advanced(s)) % W
         /\ Elapsed(s) = Advanced(s) * RATE + (s.raw % RATE)
         /\ Elapsed(n) = s.raw % RATE /\ s.raw % RATE \in 0 .. RATE - 1
         /\ Ahead(n) = Ahead(s) - Advanced(s) + Gain(s, Advanced(s))
         /\ Total(n) = (s.offset + s.mono + Gain(s, Advanced(s))) % SYS
<1> DEFINE q == target_hrt_get_current(s)
           a == Advanced(s)
           s1 == [s EXCEPT !.hrtcnt = q]
<1>1. /\ q \in 0 .. TCYC_HRTCNT - 1 /\ s.raw % RATE \in 0 .. RATE - 1
      /\ (s.raw - q * RATE) % RAW = s.raw % RATE
      /\ a \in 0 .. TCYC_HRTCNT - 1 /\ Elapsed(s) = a * RATE + (s.raw % RATE)
  BY Quotient DEF Advanced
<1>2. a \in 0 .. W - 1  BY <1>1, Numbers
<1>3. s1 \in TimeStates  BY <1>1 DEF TimeStates
<1>4. /\ s1.cfg = s.cfg /\ s1.raw = s.raw /\ s1.cmp = s.cmp /\ s1.irq = s.irq /\ s1.heap = s.heap
      /\ s1.evttim = s.evttim /\ s1.current = s.current /\ s1.mono = s.mono
      /\ s1.offset = s.offset /\ s1.hrtcnt = q
  BY DEF TimeStates
<1>5. n = Overtake([s1 EXCEPT !.current = (@ + a) % W], s1.current, a)
  <2>1. [s EXCEPT !.hrtcnt = q, !.current = (@ + a) % W] = [s1 EXCEPT !.current = (@ + a) % W]
    BY DEF TimeStates
  <2>2. QED  BY <1>4, <2>1 DEF update_current_evttim, Advanced
<1> HIDE DEF s1, q, a
<1>6. /\ Same(s1, n) /\ n.hrtcnt = s1.hrtcnt /\ n.current = (s1.current + a) % W
      /\ Ahead(n) = Ahead(s1) - a + Gain(s1, a)
      /\ Total(n) = (s1.offset + s1.mono + Gain(s1, a)) % SYS
  BY <1>2, <1>3, <1>5, Forward
<1>7. Ahead(s1) = Ahead(s) /\ Gain(s1, a) = Gain(s, a)  BY <1>4 DEF Ahead, Gain
<1>8. Elapsed(n) = s.raw % RATE  BY <1>1, <1>4, <1>6 DEF Same, Elapsed
<1>9. QED  BY <1>1, <1>4, <1>6, <1>7, <1>8 DEF Same, q, a

\* What the state of the module says about the events does not change either.
LEMMA UpdatedSound ==
  ASSUME NEW l \in 0 .. MAXLATE, NEW s, Sound(s, l), NEW n, n = update_current_evttim(s)
  PROVE  /\ Sound(n, l) /\ Same(s, n) /\ Elapsed(n) = s.raw % RATE /\ Elapsed(n) <= Elapsed(s)
         /\ n.hrtcnt = target_hrt_get_current(s)
         /\ \A e \in Registered(s.heap) : Until(n, e) = Until(s, e)
         /\ TimerSet(s) => TimerSet(n)
<1> DEFINE a == Advanced(s)
           r == s.raw % RATE
<1>1. s \in TimeStates  BY DEF Sound
<1>2. /\ Same(s, n) /\ n.hrtcnt = target_hrt_get_current(s)
      /\ a \in 0 .. TCYC_HRTCNT - 1 /\ n.current = (s.current + a) % W
      /\ Elapsed(s) = a * RATE + r /\ Elapsed(n) = r /\ r \in 0 .. RATE - 1
      /\ Ahead(n) = Ahead(s) - a + Gain(s, a)
  BY <1>1, Updated
<1>3. n \in TimeStates /\ n.heap = s.heap /\ n.evttim = s.evttim /\ n.cfg = s.cfg /\ n.raw = s.raw
      /\ n.cmp = s.cmp
  BY <1>2 DEF Same
<1>4. /\ RATE \in Nat \ {0} /\ TCYC_HRTCNT \in Nat /\ TMAX_ADJTIM \in Nat
      /\ BOUNDARY_MARGIN \in Nat /\ HRTCNT_BOUND \in Nat /\ W \in Nat \ {0} /\ MAXLATE \in Nat
  BY Numbers
<1> HIDE DEF a, r
<1>5. a \in Int /\ a >= 0 /\ r \in Int  BY <1>2, <1>4
<1>6. a * RATE \in Nat  BY <1>2, <1>4, <1>5
<1>7. Ahead(n) <= 2 * TMAX_ADJTIM /\ Ahead(n) >= Ahead(s) - a
  <2>1. Ahead(s) \in Nat /\ Ahead(s) <= 2 * TMAX_ADJTIM  BY <1>1, Measures DEF Sound
  <2>2. QED  BY <1>2, <1>4, <1>5, <2>1 DEF Gain
<1>8. ASSUME NEW e \in Registered(s.heap)
      PROVE  Distance(s, e) \in Int /\ Distance(s, e) - a >= -BOUNDARY_MARGIN
  <2>1. Distance(s, e) \in Int /\ e \in TMEVTB  BY InWindow
  <2>2. Until(s, e) + RATE + l + Put(s) >= 0  BY DEF Sound
  <2> DEFINE d == Distance(s, e) - a
  <2>3. CASE d <= -BOUNDARY_MARGIN - 1
    <3>1. Put(s) \in Nat /\ Overdue(s.cfg) < BOUNDARY_MARGIN * RATE
      BY <1>1, Measures, FieldsOf, MarginAssumption
    <3>2. Overdue(s.cfg) = (1 + TSTEP_HRTCNT) * RATE + MAXLATE + Put(s)
          /\ (1 + TSTEP_HRTCNT) * RATE = RATE + TSTEP_HRTCNT * RATE /\ TSTEP_HRTCNT * RATE \in Nat
      BY <1>4, <3>1, Numbers DEF Overdue, Put
    <3>3. Until(s, e) = d * RATE - r
      <4>1. d * RATE = Distance(s, e) * RATE - a * RATE  BY <1>5, <2>1, Scaled
      <4>2. Distance(s, e) * RATE \in Int  BY <1>4, <2>1
      <4>3. QED  BY <1>2, <1>5, <1>6, <4>1, <4>2 DEF Until
    <3>4. d * RATE <= (-BOUNDARY_MARGIN - 1) * RATE
      <4>1. d \in Int /\ -BOUNDARY_MARGIN - 1 \in Int  BY <1>4, <1>5, <2>1
      <4> HIDE DEF d
      <4>2. QED  BY <2>3, <4>1, Scaled
    <3>5. (-BOUNDARY_MARGIN - 1) * RATE = -(BOUNDARY_MARGIN * RATE) - RATE
          /\ BOUNDARY_MARGIN * RATE \in Int
      BY <1>4
    <3>6. d * RATE \in Int  BY <1>4, <1>5, <2>1
    <3>7. BOUNDARY_MARGIN * RATE > RATE + l + Put(s)  BY <1>4, <3>1, <3>2, <3>5
    <3> HIDE DEF d
    <3>8. QED  BY <1>2, <1>4, <1>5, <2>2, <3>1, <3>3, <3>4, <3>5, <3>6, <3>7
  <2>4. QED  BY <1>4, <1>5, <2>1, <2>3
<1>9. /\ InOrder(n.heap, Keys(n))
      /\ \A e \in Registered(s.heap) :
           /\ Distance(n, e) = Distance(s, e) - a
           /\ Distance(n, e) + 3 * TMAX_ADJTIM + BOUNDARY_MARGIN < W + Ahead(n)
  <2>1. \A e \in Registered(s.heap) : Distance(s, e) - a >= -BOUNDARY_MARGIN  BY <1>8
  <2>2. /\ InOrder(n.heap, Keys(n))
        /\ \A e \in Registered(n.heap) :
             /\ Distance(n, e) = Distance(s, e) - a
             /\ Distance(n, e) + 3 * TMAX_ADJTIM + BOUNDARY_MARGIN < W + Ahead(n)
    BY <1>2, <1>3, <1>5, <1>7, <2>1, Shift
  <2>3. QED  BY <1>3, <2>2
<1>10. ASSUME NEW e \in Registered(s.heap) PROVE Until(n, e) = Until(s, e)
  <2>1. Distance(s, e) \in Int /\ Distance(n, e) = Distance(s, e) - a  BY <1>8, <1>9
  <2>2. (Distance(s, e) - a) * RATE = Distance(s, e) * RATE - a * RATE
        /\ Distance(s, e) * RATE \in Int
    BY <1>5, <2>1, Scaled
  <2>3. QED  BY <1>2, <1>5, <1>6, <2>1, <2>2 DEF Until
<1>11. Elapsed(n) <= Elapsed(s)  BY <1>2, <1>5, <1>6
<1>12. Put(n) = Put(s) /\ Countdown(n) = Countdown(s)  BY <1>3 DEF Put, Countdown
<1>13. Sound(n, l)
  <2>1. Elapsed(n) <= HRTCNT_BOUND * RATE + RATE + l
    <3>1. Elapsed(s) \in Nat /\ Elapsed(n) \in Nat /\ HRTCNT_BOUND * RATE \in Int
      BY <1>1, <1>3, <1>4, Measures
    <3>2. QED  BY <1>4, <1>11, <3>1 DEF Sound
  <2>2. QED  BY <1>3, <1>7, <1>9, <1>10, <1>12, <2>1 DEF Sound
<1>14. ASSUME TimerSet(s) PROVE TimerSet(n)
  <2>1. Elapsed(s) \in Nat /\ Elapsed(n) \in Nat /\ HRTCNT_BOUND * RATE \in Int
        /\ Countdown(s) \in Int
    BY <1>1, <1>3, <1>4, Measures
  <2>2. QED  BY <1>3, <1>4, <1>10, <1>11, <1>12, <1>14, <2>1 DEF TimerSet
<1>15. QED  BY <1>2, <1>10, <1>11, <1>13, <1>14 DEF r

\* No event of the heap is earlier than the one at the root.
LEMMA RootIsFirst ==
  ASSUME NEW h \in TimeHeaps, NEW key \in [TMEVTB -> Int], InOrder(h, key)
  PROVE  \A d \in Registered(h) : h.node # <<>> /\ h.node[1] \in Registered(h)
                                  /\ key[h.node[1]] <= key[d]
<1> DEFINE n == LastNode(h)
           S == {i \in 1 .. n : key[h.node[i]] < key[h.node[1]]}
<1>1. n \in Nat /\ h.node \in [1 .. n -> TMEVTB]  BY TheRegistered
<1>2. \A i \in 1 .. n : key[h.node[i]] \in Int  BY <1>1
<1>3. S = {}
  <2>1. SUFFICES ASSUME S # {} PROVE FALSE  OBVIOUS
  <2>2. PICK i \in S : \A j \in S : i <= j
    <3>1. S \in SUBSET Nat  BY <1>1
    <3> HIDE DEF S
    <3>2. QED  BY <2>1, <3>1, Least
  <2>3. i \in 2 .. n /\ i \div 2 \in 1 .. n /\ i \div 2 < i /\ 1 \in 1 .. n
    BY <1>1, <1>2, <2>2
  <2>4. key[h.node[i \div 2]] <= key[h.node[i]]  BY <2>3 DEF InOrder
  <2>5. i \div 2 \in S  BY <1>2, <2>2, <2>3, <2>4
  <2>6. QED  BY <1>1, <2>2, <2>3, <2>5
<1>4. ASSUME NEW d \in Registered(h)
      PROVE  h.node # <<>> /\ h.node[1] \in Registered(h) /\ key[h.node[1]] <= key[d]
  <2>1. PICK i \in 1 .. n : h.node[i] = d  BY DEF Registered
  <2>2. 1 \in 1 .. n  BY <1>1, <2>1
  <2>3. h.node # <<>>  BY <1>1, <2>2 DEF LastNode
  <2>4. key[h.node[1]] <= key[d]  BY <1>2, <1>3, <2>1, <2>2
  <2>5. QED  BY <2>2, <2>3, <2>4 DEF Registered
<1>5. QED  BY <1>4

\* The event at the root is the nearest; it is due if it lies in the past.
LEMMA RootIsNearest ==
  ASSUME NEW l \in 0 .. MAXLATE, NEW s, Sound(s, l)
  PROVE  /\ s.heap.node # <<>> => /\ s.heap.node[1] \in Registered(s.heap)
                                  /\ Due(s) <=> Distance(s, s.heap.node[1]) <= 0
         /\ s.heap.node = <<>> => Registered(s.heap) = {} /\ ~Due(s)
         /\ \A d \in Registered(s.heap) :
              s.heap.node # <<>> /\ Distance(s, s.heap.node[1]) <= Distance(s, d)
<1>1. s \in TimeStates /\ s.heap \in TimeHeaps /\ InOrder(s.heap, Keys(s))
  BY FieldsOf DEF Sound
<1>2. Keys(s) \in [TMEVTB -> Int] /\ Registered(s.heap) \subseteq TMEVTB
  BY <1>1, Measures, TheRegistered
<1>3. BOUNDARY_MARGIN \in Nat /\ W \in Nat \ {0} /\ BOUNDARY_MARGIN < W
      /\ s.current \in Int
  BY <1>1, Numbers, FieldsOf
<1>4. ASSUME s.heap.node # <<>>
      PROVE  /\ s.heap.node[1] \in Registered(s.heap)
             /\ Due(s) <=> Distance(s, s.heap.node[1]) <= 0
  <2> DEFINE e == s.heap.node[1]
  <2>1. LastNode(s.heap) \in Nat /\ LastNode(s.heap) > 0  BY <1>1, <1>4 DEF TimeHeaps, LastNode
  <2>2. e \in Registered(s.heap) /\ e \in TMEVTB  BY <1>2, <2>1 DEF Registered
  <2>3. Advance(s, s.current) = BOUNDARY_MARGIN
    <3>1. s.current - (s.current - BOUNDARY_MARGIN) = BOUNDARY_MARGIN  BY <1>3
    <3>2. BOUNDARY_MARGIN \in 0 .. W - 1  BY <1>3
    <3>3. QED  BY <1>3, <3>1, <3>2, Small DEF Advance
  <2>4. Distance(s, e) \in Int /\ Advance(s, s.evttim[e]) = Distance(s, e) + BOUNDARY_MARGIN
    <3>1. Keys(s)[e] = Advance(s, s.evttim[e])  BY <2>2 DEF Keys
    <3>2. QED  BY <1>1, <2>2, <3>1, Measures
  <2>5. Due(s) <=> Distance(s, e) + BOUNDARY_MARGIN <= BOUNDARY_MARGIN
    BY <1>4, <2>3, <2>4 DEF Due
  <2>6. QED  BY <1>3, <2>2, <2>4, <2>5
<1>5. ASSUME s.heap.node = <<>> PROVE Registered(s.heap) = {} /\ ~Due(s)
  BY <1>5 DEF Registered, LastNode, Due
<1>6. ASSUME NEW d \in Registered(s.heap)
      PROVE  s.heap.node # <<>> /\ Distance(s, s.heap.node[1]) <= Distance(s, d)
  <2> DEFINE e == s.heap.node[1]
  <2>1. s.heap.node # <<>> /\ e \in Registered(s.heap) /\ Keys(s)[e] <= Keys(s)[d]
    BY <1>1, <1>2, RootIsFirst
  <2>2. /\ e \in TMEVTB /\ d \in TMEVTB
        /\ Keys(s)[e] = Distance(s, e) + BOUNDARY_MARGIN
        /\ Keys(s)[d] = Distance(s, d) + BOUNDARY_MARGIN
        /\ Distance(s, e) \in Int /\ Distance(s, d) \in Int
    BY <1>1, <1>2, <2>1, Measures
  <2>3. QED  BY <1>3, <2>1, <2>2
<1>7. QED  BY <1>4, <1>5, <1>6

\* The distance is the difference of the times if the event is not in the past.
LEMMA WaitIs ==
  ASSUME NEW l \in 0 .. MAXLATE, NEW s, Sound(s, l), NEW e \in Registered(s.heap),
         Distance(s, e) >= 0
  PROVE  (s.evttim[e] - s.current) % W = Distance(s, e)
<1> DEFINE x == s.evttim[e] - s.current
<1>1. s \in TimeStates /\ e \in TMEVTB  BY InWindow DEF Sound
<1>2. s.evttim[e] \in Int /\ s.current \in Int /\ x \in Int  BY <1>1, FieldsOf
<1>3. W \in Nat \ {0} /\ BOUNDARY_MARGIN \in Nat /\ TMAX_ADJTIM \in Nat  BY Numbers
<1>4. Distance(s, e) = ((x + BOUNDARY_MARGIN) % W) - BOUNDARY_MARGIN
  <2>1. s.evttim[e] - (s.current - BOUNDARY_MARGIN) = x + BOUNDARY_MARGIN  BY <1>2, <1>3
  <2>2. QED  BY <2>1 DEF Distance, Advance
<1>5. Distance(s, e) \in Int /\ Distance(s, e) + TMAX_ADJTIM + BOUNDARY_MARGIN < W  BY InWindow
<1> HIDE DEF x
<1> DEFINE u == x + BOUNDARY_MARGIN
<1>6. u \in Int /\ u % W \in Int  BY <1>2, <1>3, Rem
<1>7. (u % W) + (-BOUNDARY_MARGIN) = Distance(s, e)  BY <1>3, <1>4, <1>6
<1>8. Distance(s, e) \in 0 .. W - 1 /\ -BOUNDARY_MARGIN \in Int  BY <1>3, <1>5
<1> HIDE DEF u
<1>9. (u + (-BOUNDARY_MARGIN)) % W = Distance(s, e)  BY <1>3, <1>6, <1>7, <1>8, RemShift
<1>10. u + (-BOUNDARY_MARGIN) = x  BY <1>2, <1>3 DEF u
<1>11. QED  BY <1>9, <1>10 DEF x

\* From s to t at most the timer has been set, asked for its interrupt or served.
SameTimes(s, t) ==
  /\ t \in TimeStates /\ t.cfg = s.cfg /\ t.raw = s.raw /\ t.hrtcnt = s.hrtcnt
  /\ t.current = s.current /\ t.mono = s.mono /\ t.offset = s.offset /\ t.heap = s.heap
  /\ t.evttim = s.evttim

\* What does not depend on the timer.
LEMMA SameTimesSound ==
  ASSUME NEW l, NEW s, Sound(s, l), NEW t, SameTimes(s, t)
  PROVE  /\ Sound(t, l) /\ Elapsed(t) = Elapsed(s)
         /\ \A e \in Registered(s.heap) : Until(t, e) = Until(s, e)
<1>1. Elapsed(t) = Elapsed(s) /\ Ahead(t) = Ahead(s) /\ Put(t) = Put(s)
  BY DEF SameTimes, Elapsed, Ahead, Put
<1>2. \A e : Advance(t, t.evttim[e]) = Advance(s, s.evttim[e])
  <2>1. t.current = s.current /\ t.evttim = s.evttim  BY DEF SameTimes
  <2>2. QED  BY <2>1, Zenon DEF Advance
<1>3. Keys(t) = Keys(s) /\ \A e : Distance(t, e) = Distance(s, e)
  BY <1>2 DEF Keys, Distance
<1>4. \A e : Until(t, e) = Until(s, e)  BY <1>1, <1>3 DEF Until
<1>5. QED  BY <1>1, <1>3, <1>4 DEF Sound, SameTimes

\* Setting the timer just after the time has been updated.
LEMMA TimerIsSet ==
  ASSUME NEW l \in 0 .. MAXLATE, NEW s, Sound(s, l), Elapsed(s) = s.raw % RATE,
         NEW t, t = set_hrt_event(s)
  PROVE  /\ SameTimes(s, t) /\ (s.irq => t.irq) /\ Sound(t, l) /\ (t.irq \/ TimerSet(t))
         /\ \A e \in Registered(s.heap) : Until(t, e) = Until(s, e)
<1>1. s \in TimeStates  BY DEF Sound
<1>2. /\ RATE \in Nat \ {0} /\ HRTCNT_BOUND \in Nat \ {0} /\ RAW \in Nat \ {0} /\ MAXLATE \in Nat
      /\ HRTCNT_BOUND * RATE + RATE + MAXLATE < RAW /\ HRTCNT_BOUND * RATE \in Nat
  BY Numbers, Scaled
<1>3. s.raw \in Int /\ s.raw % RATE \in 0 .. RATE - 1  BY <1>1, <1>2, FieldsOf, Rem
<1>4. ASSUME NEW h \in 0 .. HRTCNT_BOUND, t = target_hrt_set_event(s, h)
      PROVE  SameTimes(s, t) /\ (s.irq => t.irq) /\ Countdown(t) = h * RATE + 1
  <2> DEFINE x == s.raw + h * RATE + 1
  <2>1. h * RATE \in Nat /\ h * RATE <= HRTCNT_BOUND * RATE /\ h \in Int
    <3>1. h \in Int /\ HRTCNT_BOUND \in Int /\ h <= HRTCNT_BOUND /\ h >= 0  BY <1>2
    <3>2. QED  BY <1>2, <3>1, Scaled
  <2>2. x \in Int /\ x % RAW \in 0 .. RAW - 1
    <3>1. x \in Int  BY <1>3, <2>1
    <3> HIDE DEF x
    <3>2. QED  BY <1>2, <3>1, Rem
  <2>3. t = [s EXCEPT !.cmp = x % RAW]  BY <1>4 DEF target_hrt_set_event
  <2>4. t.cmp = x % RAW /\ t.raw = s.raw /\ t \in TimeStates /\ SameTimes(s, t) /\ (s.irq => t.irq)
    <3> HIDE DEF x
    <3>1. QED  BY <1>1, <2>2, <2>3 DEF TimeStates, SameTimes
  <2>5. (t.cmp - t.raw - 1) % RAW = h * RATE
    <3> DEFINE y == -(s.raw) - 1
    <3>1. y \in Int /\ x + y = h * RATE  BY <1>3, <2>1, <2>2
    <3>2. t.cmp - t.raw - 1 = (x % RAW) + y  BY <1>3, <2>2, <2>4
    <3> HIDE DEF x, y
    <3>3. ((x % RAW) + y) % RAW = (x + y) % RAW  BY <1>2, <2>2, <3>1, RemSum
    <3>4. h * RATE \in 0 .. RAW - 1  BY <1>2, <2>1
    <3>5. (h * RATE) % RAW = h * RATE  BY <1>2, <3>4, Small
    <3>6. QED  BY <3>1, <3>2, <3>3, <3>5
  <2>6. QED  BY <2>4, <2>5 DEF Countdown
<1>5. ASSUME NEW h \in 0 .. HRTCNT_BOUND, t = target_hrt_set_event(s, h),
             \A e \in Registered(s.heap) : h <= Distance(s, e)
      PROVE  SameTimes(s, t) /\ (s.irq => t.irq) /\ TimerSet(t)
  <2>1. SameTimes(s, t) /\ (s.irq => t.irq) /\ Countdown(t) = h * RATE + 1  BY <1>4, <1>5
  <2>2. Elapsed(t) = s.raw % RATE /\ t.heap = s.heap
        /\ \A e \in Registered(s.heap) : Until(t, e) = Until(s, e)
    BY <2>1, SameTimesSound DEF SameTimes
  <2>3. h * RATE \in Nat /\ h * RATE <= HRTCNT_BOUND * RATE /\ h \in Int
    <3>1. h \in Int /\ HRTCNT_BOUND \in Int /\ h <= HRTCNT_BOUND /\ h >= 0  BY <1>2
    <3>2. QED  BY <1>2, <3>1, Scaled
  <2>4. Countdown(t) + Elapsed(t) <= HRTCNT_BOUND * RATE + RATE
    BY <1>2, <1>3, <2>1, <2>2, <2>3
  <2>5. ASSUME NEW e \in Registered(s.heap) PROVE Countdown(t) <= Until(t, e) + RATE
    <3>1. Distance(s, e) \in Int /\ h <= Distance(s, e)  BY <1>5, InWindow
    <3>2. h * RATE <= Distance(s, e) * RATE /\ Distance(s, e) * RATE \in Int
      BY <2>3, <3>1, Scaled
    <3>3. Until(t, e) = Distance(s, e) * RATE - (s.raw % RATE)  BY <2>2 DEF Until
    <3>4. QED  BY <1>2, <1>3, <2>1, <2>3, <3>2, <3>3
  <2>6. QED  BY <2>1, <2>2, <2>4, <2>5 DEF TimerSet
<1>6. SameTimes(s, t) /\ (s.irq => t.irq) /\ (t.irq \/ TimerSet(t))
  <2> DEFINE e == s.heap.node[1]
             wait == (s.evttim[e] - s.current) % W
  <2>1. CASE s.heap.node = <<>>
    <3>1. t = target_hrt_set_event(s, HRTCNT_BOUND)  BY <2>1 DEF set_hrt_event
    <3>2. Registered(s.heap) = {}  BY <2>1, RootIsNearest
    <3>3. HRTCNT_BOUND \in 0 .. HRTCNT_BOUND  BY <1>2
    <3>4. QED  BY <1>5, <3>1, <3>2, <3>3
  <2>2. CASE s.heap.node # <<>> /\ Due(s)
    <3>1. t = [s EXCEPT !.irq = TRUE]  BY <2>2 DEF set_hrt_event, target_hrt_raise_event
    <3>2. QED  BY <1>1, <3>1 DEF TimeStates, SameTimes
  <2>3. CASE s.heap.node # <<>> /\ ~Due(s)
    <3> DEFINE h == IF wait > HRTCNT_BOUND THEN HRTCNT_BOUND ELSE wait
    <3>1. t = target_hrt_set_event(s, h)  BY <2>3 DEF set_hrt_event
    <3>2. e \in Registered(s.heap) /\ Distance(s, e) \in Int /\ Distance(s, e) > 0
      <4>1. e \in Registered(s.heap) /\ ~ (Distance(s, e) <= 0)  BY <2>3, RootIsNearest
      <4>2. Distance(s, e) \in Int  BY <4>1, InWindow
      <4>3. QED  BY <4>1, <4>2
    <3>3. wait = Distance(s, e)  BY <3>2, WaitIs
    <3> HIDE DEF wait
    <3>4. h \in 0 .. HRTCNT_BOUND /\ h <= Distance(s, e)  BY <1>2, <3>2, <3>3
    <3>5. \A d \in Registered(s.heap) :
            Distance(s, e) <= Distance(s, d) /\ Distance(s, d) \in Int
      BY InWindow, RootIsNearest
    <3> HIDE DEF h
    <3>6. h \in Int  BY <1>2, <3>4
    <3>7. \A d \in Registered(s.heap) : h <= Distance(s, d)  BY <3>2, <3>4, <3>5, <3>6
    <3>8. QED  BY <1>5, <3>1, <3>4, <3>7
  <2>4. QED  BY <2>1, <2>2, <2>3
<1>7. QED  BY <1>6, SameTimesSound

----------------------------------------------------------------------------
(* Events are registered and taken out.                                    *)

\* The system time that get_tim would return.
SysTime(s) == Total(update_current_evttim(s))

\* All that it depends on.
ClockOf(s) == <<s.raw, s.hrtcnt, s.current, s.mono, s.offset>>

\* The system time depends on the clocks only, and updating them does not change it.
LEMMA SysTimeOf ==
  ASSUME NEW s \in TimeStates, NEW t \in TimeStates,
         ClockOf(t) = ClockOf(s) \/ ClockOf(t) = ClockOf(update_current_evttim(s))
  PROVE  SysTime(t) = SysTime(s)
<1> DEFINE n == update_current_evttim(s)
           m == update_current_evttim(t)
<1>1. /\ Same(s, n) /\ n.hrtcnt = target_hrt_get_current(s)
      /\ Total(n) = (s.offset + s.mono + Gain(s, Advanced(s))) % SYS
  BY Updated
<1>2. Total(m) = (t.offset + t.mono + Gain(t, Advanced(t))) % SYS  BY Updated
<1>3. CASE ClockOf(t) = ClockOf(s)
  <2>1. t.raw = s.raw /\ t.hrtcnt = s.hrtcnt /\ t.current = s.current /\ t.mono = s.mono
        /\ t.offset = s.offset
    BY <1>3 DEF ClockOf
  <2>2. Gain(t, Advanced(t)) = Gain(s, Advanced(s))
    BY <2>1 DEF Gain, Advanced, Ahead, target_hrt_get_current
  <2>3. QED  BY <1>1, <1>2, <2>1, <2>2 DEF SysTime
<1>4. CASE ClockOf(t) = ClockOf(n)
  <2> HIDE DEF n
  <2>1. t.raw = n.raw /\ t.hrtcnt = n.hrtcnt /\ t.current = n.current /\ t.mono = n.mono
        /\ t.offset = n.offset
    BY <1>4 DEF ClockOf
  <2>2. TCYC_HRTCNT \in Nat \ {0} /\ target_hrt_get_current(s) \in 0 .. TCYC_HRTCNT - 1
    BY Numbers, Quotient
  <2>3. target_hrt_get_current(t) = target_hrt_get_current(s)
    BY <1>1, <2>1 DEF Same, target_hrt_get_current
  <2>4. Advanced(t) = 0
    <3>1. target_hrt_get_current(s) - target_hrt_get_current(s) = 0  BY <2>2
    <3>2. 0 % TCYC_HRTCNT = 0  BY <2>2, Small
    <3>3. QED  BY <1>1, <2>1, <2>3, <3>1, <3>2 DEF Advanced
  <2>5. Ahead(t) \in Nat  BY Measures
  <2>6. Gain(t, Advanced(t)) = 0  BY <2>4, <2>5 DEF Gain
  <2>7. n.offset \in Int /\ n.mono \in Int
    <3>1. n \in TimeStates  BY <1>1 DEF Same
    <3>2. QED  BY <3>1, FieldsOf
  <2>8. t.offset + t.mono + 0 = n.offset + n.mono  BY <2>1, <2>7
  <2>9. Total(m) = Total(n)  BY <1>2, <2>6, <2>8 DEF Total
  <2>10. QED  BY <2>9 DEF SysTime, n
<1>5. QED  BY <1>3, <1>4

\* The relative times that events are registered for.
Relative == RELTIM \cup {CYCTIM, CYCPHS}

\* What the timer is set to, or that it has asked for its interrupt.
Armed(s) == in_signal_time \/ s.irq \/ TimerSet(s)

\* What registering an event and taking one out have in common: from s to r, apart from
\* the event e.
Preserved(s, r, e) ==
  /\ r.cfg = s.cfg /\ r.raw = s.raw /\ (s.irq => r.irq) /\ SysTime(r) = SysTime(s)
  /\ Armed(s) => Armed(r)
  /\ \A d \in Registered(s.heap) \ {e} : Until(r, d) = Until(s, d)

\* tmevtb_enqueue_reltim: the event is registered for not less than the time asked for and
\* not more than a step later, and the timer is set to it if it is now the first.
LEMMA Enqueued ==
  ASSUME NEW l \in 0 .. MAXLATE, NEW s, Sound(s, l), NEW e \in TMEVTB \ Registered(s.heap),
         NEW time \in Relative, in_signal_time \in BOOLEAN,
         NEW r, r = tmevtb_enqueue_reltim(s, e, time)
  PROVE  /\ Sound(r, l) /\ Preserved(s, r, e) /\ Registered(r.heap) = Registered(s.heap) \cup {e}
         /\ Until(r, e) = (time + TSTEP_HRTCNT) * RATE - (s.raw % RATE)
<1> DEFINE now == update_current_evttim(s)
           v == (calc_current_evttim_ub(now) + time) % W
           timed == [now EXCEPT !.evttim[e] = v]
           new == [timed EXCEPT !.heap = tmevtb_insert(@, Keys(timed), e)]
           away == TSTEP_HRTCNT + time
<1>1. /\ W \in Nat \ {0} /\ BOUNDARY_MARGIN \in Nat \ {0} /\ RATE \in Nat \ {0}
      /\ TMAX_ADJTIM \in Nat /\ TSTEP_HRTCNT \in Nat \ {0} /\ MAXLATE \in Nat
      /\ HRTCNT_BOUND \in Nat
  BY Numbers
<1>2. time \in Nat /\ time + TSTEP_HRTCNT + 3 * TMAX_ADJTIM + BOUNDARY_MARGIN < W
  <2>1. RELTIM \subseteq Nat /\ CYCTIM \in Nat /\ CYCPHS \in Nat  BY TimeAssumption
  <2>2. time \in RELTIM \cup {CYCTIM, CYCPHS}  BY DEF Relative
  <2>3. QED  BY <2>1, <2>2, TimeAssumption
<1>3. /\ Sound(now, l) /\ Same(s, now) /\ Elapsed(now) = s.raw % RATE
      /\ \A d \in Registered(s.heap) : Until(now, d) = Until(s, d)
      /\ TimerSet(s) => TimerSet(now)
  BY UpdatedSound
<1>4. now \in TimeStates /\ now.heap = s.heap /\ now.cfg = s.cfg /\ now.raw = s.raw
      /\ now.irq = s.irq /\ s \in TimeStates
  BY <1>3 DEF Same, Sound
<1> HIDE DEF now
<1>5. now.current \in Int /\ now.heap \in TimeHeaps /\ s.raw \in Int
      /\ Registered(now.heap) \subseteq TMEVTB
  BY <1>4, FieldsOf, TheRegistered
<1>6. v \in 0 .. W - 1 /\ v = (now.current + away) % W
  <2>1. now.current + TSTEP_HRTCNT + time = now.current + away /\ now.current + away \in Int
    BY <1>1, <1>2, <1>5
  <2>2. v = (now.current + away) % W  BY <2>1 DEF calc_current_evttim_ub
  <2> HIDE DEF away, v
  <2>3. QED  BY <1>1, <2>1, <2>2, Rem
<1> HIDE DEF v
<1>7. /\ timed \in TimeStates /\ timed.evttim = [now.evttim EXCEPT ![e] = v]
      /\ timed.current = now.current /\ timed.heap = now.heap
      /\ timed.cfg = now.cfg /\ timed.raw = now.raw /\ timed.cmp = now.cmp /\ timed.irq = now.irq
      /\ timed.hrtcnt = now.hrtcnt /\ timed.mono = now.mono /\ timed.offset = now.offset
  BY <1>4, <1>6 DEF TimeStates
<1> HIDE DEF timed
<1>8. InOrder(timed.heap, Keys(timed)) /\ Keys(timed) \in [TMEVTB -> Int]
      /\ \A d \in TMEVTB \ {e} : Distance(timed, d) = Distance(now, d)
  <2>1. now.evttim \in [TMEVTB -> Int]  BY <1>4, FieldsOf
  <2>2. \A d \in TMEVTB \ {e} : timed.evttim[d] = now.evttim[d]  BY <1>7, <2>1
  <2>3. \A d \in TMEVTB \ {e} : Advance(timed, timed.evttim[d]) = Advance(now, now.evttim[d])
    BY <1>7, <2>2, Zenon DEF Advance
  <2>4. \A d \in TMEVTB \ {e} : Keys(timed)[d] = Keys(now)[d]  BY <2>3 DEF Keys
  <2>5. \A d \in Registered(now.heap) : Keys(timed)[d] = Keys(now)[d]
    BY <1>4, <1>5, <2>4
  <2>6. InOrder(now.heap, Keys(timed))  BY <1>3, <1>5, <2>5, SameOrder DEF Sound
  <2>7. QED  BY <1>7, <2>3, <2>6, Measures DEF Distance
<1>9. Distance(timed, e) = away
  <2> DEFINE y == -(now.current - BOUNDARY_MARGIN)
             z == now.current + away
  <2>1. y \in Int /\ z \in Int /\ z + y = away + BOUNDARY_MARGIN /\ away \in Int
    BY <1>1, <1>2, <1>5
  <2>2. timed.evttim[e] = v
    <3>1. now.evttim \in [TMEVTB -> Int]  BY <1>4, FieldsOf
    <3>2. QED  BY <1>7, <3>1
  <2>3. v = z % W /\ v \in Int  BY <1>1, <1>6
  <2>4. v - (now.current - BOUNDARY_MARGIN) = v + y  BY <1>1, <1>5, <2>3
  <2> HIDE DEF z
  <2>5. (v + y) % W = (z + y) % W
    <3> HIDE DEF y
    <3>1. QED  BY <1>1, <2>1, <2>3, RemSum
  <2>6. away + BOUNDARY_MARGIN \in 0 .. W - 1  BY <1>1, <1>2
  <2>7. (away + BOUNDARY_MARGIN) % W = away + BOUNDARY_MARGIN
    <3> DEFINE u == away + BOUNDARY_MARGIN
    <3>1. u \in 0 .. W - 1  BY <2>6
    <3> HIDE DEF u
    <3>2. u % W = u  BY <1>1, <3>1, Small
    <3>3. QED  BY <3>2 DEF u
  <2>8. Advance(timed, timed.evttim[e]) = away + BOUNDARY_MARGIN
    BY <1>7, <2>1, <2>2, <2>4, <2>5, <2>7 DEF Advance
  <2>9. QED  BY <1>1, <2>1, <2>8 DEF Distance
<1>10. /\ new \in TimeStates /\ new.heap = tmevtb_insert(now.heap, Keys(timed), e)
       /\ new.evttim = timed.evttim /\ new.current = now.current
       /\ new.cfg = now.cfg /\ new.raw = now.raw /\ new.cmp = now.cmp /\ new.irq = now.irq
       /\ new.hrtcnt = now.hrtcnt /\ new.mono = now.mono /\ new.offset = now.offset
       /\ InOrder(new.heap, Keys(timed)) /\ Registered(new.heap) = Registered(s.heap) \cup {e}
       /\ new.heap \in TimeHeaps
  <2>1. e \in TMEVTB \ Registered(timed.heap)  BY <1>4, <1>7
  <2> DEFINE h == tmevtb_insert(timed.heap, Keys(timed), e)
  <2>2. h \in TimeHeaps /\ InOrder(h, Keys(timed))
        /\ Registered(h) = Registered(timed.heap) \cup {e}
    <3>1. timed.heap \in TimeHeaps  BY <1>5, <1>7
    <3>2. QED  BY <1>8, <2>1, <3>1, InsertKeepsOrder
  <2>3. new = [timed EXCEPT !.heap = h]  OBVIOUS
  <2>4. h = tmevtb_insert(now.heap, Keys(timed), e)  BY <1>7
  <2> HIDE DEF h
  <2>5. new \in TimeStates /\ new.heap = h /\ new.evttim = timed.evttim
        /\ new.current = timed.current /\ new.cfg = timed.cfg /\ new.raw = timed.raw
        /\ new.cmp = timed.cmp /\ new.irq = timed.irq /\ new.hrtcnt = timed.hrtcnt
        /\ new.mono = timed.mono /\ new.offset = timed.offset
    BY <1>7, <2>2, <2>3 DEF TimeStates
  <2>6. QED  BY <1>4, <1>7, <2>2, <2>4, <2>5
<1>11. r = SetTimerAt(new, new.heap.pos[e] = 1)
  BY DEF tmevtb_enqueue_reltim, now, timed, v
<1> HIDE DEF new, away
<1>12. away \in Nat /\ away = time + TSTEP_HRTCNT /\ away + 3 * TMAX_ADJTIM + BOUNDARY_MARGIN < W
  BY <1>1, <1>2 DEF away
<1>13. /\ Keys(new) = Keys(timed) /\ Elapsed(new) = s.raw % RATE /\ Ahead(new) = Ahead(now)
       /\ Put(new) = Put(now) /\ Countdown(new) = Countdown(now)
       /\ \A d : Distance(new, d) = Distance(timed, d)
  <2>1. \A d : Advance(new, new.evttim[d]) = Advance(timed, timed.evttim[d])
    BY <1>7, <1>10, Zenon DEF Advance
  <2>2. Keys(new) = Keys(timed) /\ \A d : Distance(new, d) = Distance(timed, d)
    BY <2>1 DEF Keys, Distance
  <2>3. Elapsed(new) = Elapsed(now)  BY <1>10 DEF Elapsed
  <2>4. QED  BY <1>3, <1>10, <2>2, <2>3 DEF Ahead, Put, Countdown
<1>14. \A d \in Registered(s.heap) : Until(new, d) = Until(s, d)
  <2>1. \A d \in Registered(s.heap) : d \in TMEVTB \ {e}  BY <1>4, <1>5
  <2>2. \A d \in Registered(s.heap) : Until(new, d) = Until(now, d)
    BY <1>3, <1>8, <1>13, <2>1 DEF Until
  <2>3. QED  BY <1>3, <2>2
<1>15. Until(new, e) = away * RATE - (s.raw % RATE) /\ Until(new, e) >= 1
  <2>1. s.raw % RATE \in 0 .. RATE - 1  BY <1>1, <1>5, Rem
  <2>2. Until(new, e) = away * RATE - (s.raw % RATE)  BY <1>9, <1>13 DEF Until
  <2>3. away * RATE >= RATE /\ away * RATE \in Int
    <3>1. away >= 1 /\ away \in Int  BY <1>1, <1>2, <1>12
    <3>2. QED  BY <3>1, Multiple
  <2>4. QED  BY <1>1, <2>1, <2>2, <2>3
<1>16. Sound(new, l)
  <2>1. Ahead(now) \in Nat /\ Put(now) \in Nat /\ Ahead(now) <= 2 * TMAX_ADJTIM
        /\ Elapsed(now) <= HRTCNT_BOUND * RATE + RATE + l
    BY <1>3, <1>4, Measures DEF Sound
  <2>2. ASSUME NEW d \in Registered(new.heap)
        PROVE  /\ Distance(new, d) + 3 * TMAX_ADJTIM + BOUNDARY_MARGIN < W + Ahead(new)
               /\ Until(new, d) + RATE + l + Put(new) >= 0
    <3>1. CASE d = e
      <4>1. Distance(new, d) = away  BY <1>9, <1>13, <3>1
      <4>2. Until(new, d) \in Int
        <5>1. new \in TimeStates  BY <1>10
        <5>2. QED  BY <3>1, <5>1, Measures
      <4>3. QED  BY <1>1, <1>12, <1>13, <1>15, <2>1, <3>1, <4>1, <4>2
    <3>2. CASE d # e
      <4>1. d \in Registered(s.heap) /\ d \in TMEVTB \ {e}  BY <1>4, <1>5, <1>10, <3>2
      <4>2. Distance(new, d) = Distance(now, d)  BY <1>8, <1>13, <4>1
      <4>3. Until(new, d) = Until(now, d)  BY <1>3, <1>14, <4>1
      <4>4. QED  BY <1>3, <1>4, <1>13, <4>1, <4>2, <4>3 DEF Sound
    <3>3. QED  BY <3>1, <3>2
  <2>3. QED  BY <1>3, <1>10, <1>13, <2>1, <2>2 DEF Sound
<1>17. SysTime(new) = SysTime(s)
  <2>1. ClockOf(new) = ClockOf(now)  BY <1>10 DEF ClockOf
  <2>2. QED  BY <1>4, <1>10, <2>1, SysTimeOf DEF now
<1>18. CASE ~in_signal_time /\ new.heap.pos[e] = 1
  <2>1. r = set_hrt_event(new)  BY <1>11, <1>18 DEF SetTimerAt
  <2>2. new.raw = s.raw /\ new.cfg = s.cfg /\ new.irq = s.irq  BY <1>4, <1>10
  <2>3. /\ SameTimes(new, r) /\ (new.irq => r.irq) /\ Sound(r, l) /\ (r.irq \/ TimerSet(r))
        /\ \A d \in Registered(new.heap) : Until(r, d) = Until(new, d)
    BY <1>13, <1>16, <2>1, <2>2, TimerIsSet
  <2>4. SysTime(r) = SysTime(s)
    <3>1. ClockOf(r) = ClockOf(new) /\ r \in TimeStates  BY <2>3 DEF SameTimes, ClockOf
    <3>2. QED  BY <1>10, <1>17, <3>1, SysTimeOf
  <2>5. r.heap = new.heap /\ r.cfg = s.cfg /\ r.raw = s.raw /\ (s.irq => r.irq)
    BY <2>2, <2>3 DEF SameTimes
  <2>6. e \in Registered(new.heap) /\ Registered(s.heap) \subseteq Registered(new.heap)  BY <1>10
  <2>7. QED  BY <1>10, <1>12, <1>14, <1>15, <2>3, <2>4, <2>5, <2>6 DEF Preserved, Armed
<1>19. CASE ~ (~in_signal_time /\ new.heap.pos[e] = 1)
  <2>1. r = new  BY <1>11, <1>19 DEF SetTimerAt
  <2>2. ASSUME Armed(s) PROVE Armed(new)
    <3>1. SUFFICES ASSUME ~in_signal_time, TimerSet(s) PROVE TimerSet(new)
      BY <1>4, <1>10, <2>2 DEF Armed
    <3>2. TimerSet(now) /\ new.heap.pos[e] # 1  BY <1>3, <1>19, <3>1
    <3> DEFINE d == new.heap.node[1]
    <3>3. /\ e \in Registered(new.heap) /\ d \in Registered(new.heap)
          /\ new.heap.node # <<>> /\ Distance(new, d) <= Distance(new, e)
      BY <1>10, <1>16, RootIsNearest
    <3>4. d # e
      <4>1. 1 \in 1 .. LastNode(new.heap)
        <5>1. LastNode(new.heap) \in Nat /\ LastNode(new.heap) # 0
          BY <1>10, <3>3 DEF TimeHeaps, LastNode
        <5>2. QED  BY <5>1
      <4>2. new.heap.pos[d] = 1  BY <1>10, <4>1 DEF InOrder
      <4>3. QED  BY <3>2, <4>2
    <3>5. d \in Registered(s.heap)  BY <1>10, <3>3, <3>4
    <3>6. Distance(new, d) \in Int /\ Distance(new, e) \in Int /\ Elapsed(new) \in Nat
          /\ Countdown(new) \in Nat /\ Until(new, d) \in Int /\ Until(new, e) \in Int
      <4>1. d \in TMEVTB /\ e \in TMEVTB  BY <1>4, <1>5, <3>5
      <4>2. QED  BY <1>1, <1>10, <4>1, Measures, Numbers
    <3>7. Until(new, d) <= Until(new, e)
      <4>1. Distance(new, d) * RATE <= Distance(new, e) * RATE
            /\ Distance(new, d) * RATE \in Int /\ Distance(new, e) * RATE \in Int
        BY <3>3, <3>6, Scaled
      <4> HIDE DEF d
      <4>2. QED  BY <3>6, <4>1 DEF Until
    <3>8. \A x \in Registered(s.heap) : Countdown(new) <= Until(new, x) + RATE
      BY <1>3, <1>4, <1>13, <1>14, <3>2 DEF TimerSet
    <3>9. Countdown(new) <= Until(new, e) + RATE  BY <1>1, <3>5, <3>6, <3>7, <3>8
    <3>10. Countdown(new) + Elapsed(new) <= HRTCNT_BOUND * RATE + RATE
      BY <1>3, <1>13, <3>2 DEF TimerSet
    <3>11. QED  BY <1>10, <3>8, <3>9, <3>10 DEF TimerSet
  <2>3. new.raw = s.raw /\ new.cfg = s.cfg /\ new.irq = s.irq  BY <1>4, <1>10
  <2>4. QED  BY <1>10, <1>12, <1>14, <1>15, <1>16, <1>17, <2>1, <2>2, <2>3 DEF Preserved
<1>20. QED  BY <1>18, <1>19

\* The state without the event e, the time and node of which are forgotten.
LEMMA TakenOut ==
  ASSUME NEW l \in 0 .. MAXLATE, NEW s, Sound(s, l), NEW e \in Registered(s.heap),
         NEW h \in TimeHeaps, InOrder(h, Keys(s)), Registered(h) = Registered(s.heap) \ {e},
         NEW r, r = Forget([s EXCEPT !.heap = h], e)
  PROVE  /\ Sound(r, l) /\ Registered(r.heap) = Registered(s.heap) \ {e}
         /\ r.cfg = s.cfg /\ r.irq = s.irq /\ ClockOf(r) = ClockOf(s)
         /\ \A d \in Registered(r.heap) : Until(r, d) = Until(s, d)
         /\ TimerSet(s) => TimerSet(r)
<1> DEFINE g == [h EXCEPT !.pos[e] = 0]
<1>1. s \in TimeStates /\ e \in TMEVTB /\ s.evttim \in [TMEVTB -> Int] /\ W \in Nat \ {0}
      /\ Registered(h) \subseteq TMEVTB
  BY InWindow, FieldsOf, TheRegistered, Numbers DEF Sound
<1>2. g \in TimeHeaps /\ g.node = h.node /\ g.pos = [h.pos EXCEPT ![e] = 0]
      /\ h.pos \in [TMEVTB -> Nat]
  BY <1>1 DEF TimeHeaps
<1> DEFINE f == [s.evttim EXCEPT ![e] = 0]
<1>3. r = [s EXCEPT !.heap = g, !.evttim = f]
  BY <1>1 DEF Forget, TimeStates
<1> HIDE DEF g
<1>4. /\ r \in TimeStates /\ r.heap = g /\ r.evttim = [s.evttim EXCEPT ![e] = 0]
      /\ r.cfg = s.cfg /\ r.irq = s.irq /\ r.raw = s.raw /\ r.cmp = s.cmp
      /\ r.hrtcnt = s.hrtcnt /\ r.current = s.current /\ r.mono = s.mono /\ r.offset = s.offset
  <2>1. 0 \in 0 .. W - 1 /\ s.evttim \in [TMEVTB -> 0 .. W - 1]  BY <1>1 DEF TimeStates
  <2>2. f \in [TMEVTB -> 0 .. W - 1]  BY <2>1
  <2>3. r.evttim = f
    <3> HIDE DEF f
    <3>1. QED  BY <1>1, <1>3 DEF TimeStates
  <2> HIDE DEF f
  <2>4. QED  BY <1>1, <1>2, <1>3, <2>2, <2>3 DEF TimeStates, f
<1>5. LastNode(g) = LastNode(h) /\ Registered(g) = Registered(h)  BY <1>2 DEF LastNode, Registered
<1>6. \A d \in TMEVTB \ {e} : Distance(r, d) = Distance(s, d) /\ Keys(r)[d] = Keys(s)[d]
  <2>1. \A d \in TMEVTB \ {e} : r.evttim[d] = s.evttim[d]  BY <1>1, <1>4
  <2>2. \A d \in TMEVTB \ {e} : Advance(r, r.evttim[d]) = Advance(s, s.evttim[d])
    BY <1>4, <2>1, Zenon DEF Advance
  <2>3. QED  BY <2>2 DEF Distance, Keys
<1>7. Elapsed(r) = Elapsed(s) /\ Ahead(r) = Ahead(s) /\ Put(r) = Put(s)
      /\ Countdown(r) = Countdown(s)
  BY <1>4 DEF Elapsed, Ahead, Put, Countdown
<1>8. \A d \in Registered(r.heap) :
        d \in TMEVTB \ {e} /\ d \in Registered(s.heap) /\ Until(r, d) = Until(s, d)
  BY <1>1, <1>4, <1>5, <1>6, <1>7 DEF Until
<1>9. InOrder(r.heap, Keys(r))
  <2>1. \A i \in 1 .. LastNode(g) : g.node[i] \in Registered(g)  BY DEF Registered
  <2>2. \A i \in 1 .. LastNode(g) : g.node[i] \in TMEVTB \ {e} /\ g.pos[g.node[i]] = h.pos[g.node[i]]
    BY <1>1, <1>2, <1>5, <2>1
  <2>3. InOrder(g, Keys(s))  BY <1>2, <1>5, <2>2 DEF InOrder
  <2>4. \A d \in Registered(g) : Keys(r)[d] = Keys(s)[d]  BY <1>1, <1>5, <1>6
  <2>5. QED  BY <1>2, <1>4, <2>3, <2>4, SameOrder
<1>10. Sound(r, l)  BY <1>4, <1>6, <1>7, <1>8, <1>9 DEF Sound
<1>11. TimerSet(s) => TimerSet(r)  BY <1>7, <1>8 DEF TimerSet
<1>12. QED  BY <1>4, <1>5, <1>8, <1>10, <1>11 DEF ClockOf

\* tmevtb_dequeue: if the event was the first, the timer is set to the one that is now.
LEMMA Dequeued ==
  ASSUME NEW l \in 0 .. MAXLATE, NEW s, Sound(s, l), NEW e \in Registered(s.heap),
         in_signal_time \in BOOLEAN, NEW r, r = tmevtb_dequeue(s, e)
  PROVE  Sound(r, l) /\ Preserved(s, r, e) /\ Registered(r.heap) = Registered(s.heap) \ {e}
<1> DEFINE h == tmevtb_delete(s.heap, Keys(s), e)
           new == Forget([s EXCEPT !.heap = h], e)
           now == update_current_evttim(new)
           top == s.heap.pos[e] = 1
<1>1. s \in TimeStates /\ s.heap \in TimeHeaps /\ InOrder(s.heap, Keys(s))
      /\ Keys(s) \in [TMEVTB -> Int]
  BY FieldsOf, Measures DEF Sound
<1>2. h \in TimeHeaps /\ InOrder(h, Keys(s)) /\ Registered(h) = Registered(s.heap) \ {e}
  BY <1>1, DeleteKeepsOrder
<1>3. r = SetTimerAt(IF top /\ ~in_signal_time THEN now ELSE new, top)
  BY DEF tmevtb_dequeue
<1> HIDE DEF h
<1>4. /\ Sound(new, l) /\ Registered(new.heap) = Registered(s.heap) \ {e}
      /\ new.cfg = s.cfg /\ new.irq = s.irq /\ ClockOf(new) = ClockOf(s)
      /\ \A d \in Registered(new.heap) : Until(new, d) = Until(s, d)
      /\ TimerSet(s) => TimerSet(new)
  BY <1>2, TakenOut
<1> HIDE DEF new
<1>5. new \in TimeStates /\ new.raw = s.raw /\ SysTime(new) = SysTime(s)
  <2>1. new \in TimeStates  BY <1>4 DEF Sound
  <2>2. QED  BY <1>1, <1>4, <2>1, SysTimeOf DEF ClockOf
<1>6. CASE ~in_signal_time /\ top
  <2>1. r = set_hrt_event(now)  BY <1>3, <1>6 DEF SetTimerAt
  <2>2. /\ Sound(now, l) /\ Same(new, now) /\ Elapsed(now) = new.raw % RATE
        /\ \A d \in Registered(new.heap) : Until(now, d) = Until(new, d)
    BY <1>4, UpdatedSound
  <2>3. now \in TimeStates /\ now.heap = new.heap /\ now.raw = s.raw /\ now.cfg = s.cfg
        /\ now.irq = s.irq
    BY <1>4, <1>5, <2>2 DEF Same
  <2>4. SysTime(now) = SysTime(s)  BY <1>5, <2>3, SysTimeOf
  <2> HIDE DEF now
  <2>5. /\ SameTimes(now, r) /\ (now.irq => r.irq) /\ Sound(r, l) /\ (r.irq \/ TimerSet(r))
        /\ \A d \in Registered(now.heap) : Until(r, d) = Until(now, d)
    BY <1>5, <2>1, <2>2, <2>3, TimerIsSet
  <2>6. r.heap = new.heap /\ r.cfg = s.cfg /\ r.raw = s.raw /\ (s.irq => r.irq)
        /\ r \in TimeStates /\ ClockOf(r) = ClockOf(now)
    BY <2>3, <2>5 DEF SameTimes, ClockOf
  <2>7. SysTime(r) = SysTime(s)  BY <2>3, <2>4, <2>6, SysTimeOf
  <2>8. QED  BY <1>4, <2>2, <2>3, <2>5, <2>6, <2>7 DEF Preserved, Armed
<1>7. CASE ~ (~in_signal_time /\ top)
  <2>1. r = new  BY <1>3, <1>7 DEF SetTimerAt
  <2>2. QED  BY <1>4, <1>5, <2>1 DEF Preserved, Armed
<1>8. QED  BY <1>6, <1>7

\* What call_cyclic does to the heap and to the time of the event at its top.
WithoutTop(s) == [s EXCEPT !.heap = tmevtb_delete_top(@, Keys(s))]
Postponed(s, e) == [WithoutTop(s) EXCEPT !.evttim[e] = (@ + CYCTIM) % W]

\* It is put back at its place.
Requeued(s, e) ==
  [Postponed(s, e) EXCEPT !.heap = tmevtb_insert(@, Keys(Postponed(s, e)), e)]

\* A cyclic handler that is due is registered again for its next period.
LEMMA NextPeriod ==
  ASSUME NEW l \in 0 .. MAXLATE, NEW s, Sound(s, l), s.heap.node # <<>>, Due(s),
         NEW e, e = s.heap.node[1], NEW r, r = Requeued(s, e)
  PROVE  /\ Sound(r, l) /\ Registered(r.heap) = Registered(s.heap)
         /\ r.cfg = s.cfg /\ r.irq = s.irq /\ ClockOf(r) = ClockOf(s)
         /\ \A x \in Registered(s.heap) \ {e} : Until(r, x) = Until(s, x)
         /\ Until(r, e) = Until(s, e) + CYCTIM * RATE
<1> DEFINE v == (s.evttim[e] + CYCTIM) % W
           h == tmevtb_delete_top(s.heap, Keys(s))
           d == WithoutTop(s)
           n == Postponed(s, e)
           f == [s.evttim EXCEPT ![e] = v]
<1>1. s \in TimeStates /\ s.heap \in TimeHeaps /\ InOrder(s.heap, Keys(s))
      /\ Keys(s) \in [TMEVTB -> Int] /\ Registered(s.heap) \subseteq TMEVTB
  BY FieldsOf, Measures, TheRegistered DEF Sound
<1>2. h \in TimeHeaps /\ InOrder(h, Keys(s)) /\ Registered(h) = Registered(s.heap) \ {e}
      /\ e \in Registered(s.heap) /\ e \in TMEVTB
  BY <1>1, DeleteTopKeepsOrder
<1>3. /\ W \in Nat \ {0} /\ BOUNDARY_MARGIN \in Nat \ {0} /\ RATE \in Nat \ {0}
      /\ TMAX_ADJTIM \in Nat /\ TSTEP_HRTCNT \in Nat /\ CYCTIM \in Nat
      /\ CYCTIM + TSTEP_HRTCNT + 3 * TMAX_ADJTIM + BOUNDARY_MARGIN < W
  BY Numbers, TimeAssumption
<1>4. Distance(s, e) \in Int /\ Distance(s, e) <= 0 /\ Distance(s, e) > -BOUNDARY_MARGIN
  BY <1>2, InWindow, RootIsNearest
<1>5. s.evttim \in [TMEVTB -> Int] /\ s.evttim[e] \in Int /\ s.current \in Int
      /\ s.evttim[e] + CYCTIM \in Int
  <2>1. s.evttim \in [TMEVTB -> Int] /\ s.current \in Int  BY <1>1, FieldsOf
  <2>2. s.evttim[e] \in Int  BY <1>2, <2>1
  <2>3. QED  BY <1>3, <2>1, <2>2
<1>6. v \in 0 .. W - 1 /\ v \in Int
  <2> DEFINE y == s.evttim[e] + CYCTIM
  <2>1. y \in Int /\ v = y % W  BY <1>5
  <2> HIDE DEF y, v
  <2>2. QED  BY <1>3, <2>1, Rem
<1>7. d = [s EXCEPT !.heap = h]  BY DEF WithoutTop
<1> HIDE DEF h, d
<1>8. d \in TimeStates /\ d.heap = h /\ d.evttim = s.evttim  BY <1>1, <1>2, <1>7 DEF TimeStates
<1>9. n = [s EXCEPT !.heap = h, !.evttim = f]
  <2>1. n = [d EXCEPT !.evttim = f]  BY <1>8 DEF Postponed, d
  <2> HIDE DEF f, n
  <2>2. QED  BY <1>1, <1>7, <2>1 DEF TimeStates
<1>10. /\ n \in TimeStates /\ n.heap = h /\ n.evttim = [s.evttim EXCEPT ![e] = v]
       /\ n.current = s.current
  <2> HIDE DEF v, n
  <2>1. s.evttim \in [TMEVTB -> 0 .. W - 1]  BY <1>1 DEF TimeStates
  <2>2. f \in [TMEVTB -> 0 .. W - 1]  BY <1>2, <1>6, <2>1
  <2> HIDE DEF f
  <2>3. QED  BY <1>1, <1>2, <1>9, <2>2 DEF TimeStates, f
<1> HIDE DEF n
<1>11. Distance(n, e) = Distance(s, e) + CYCTIM
  <2> DEFINE y == -(s.current - BOUNDARY_MARGIN)
             z == s.evttim[e] + CYCTIM
             u == s.evttim[e] + y
  <2>1. y \in Int /\ z \in Int /\ u \in Int /\ z + y = u + CYCTIM
    <3>1. y \in Int  BY <1>3, <1>5
    <3> DEFINE x == s.evttim[e]
    <3>2. x \in Int /\ CYCTIM \in Int  BY <1>3, <1>5
    <3> HIDE DEF x, y
    <3>3. (x + CYCTIM) + y = (x + y) + CYCTIM /\ x + CYCTIM \in Int /\ x + y \in Int
      BY <3>1, <3>2
    <3>4. QED  BY <3>1, <3>3 DEF x
  <2>2. n.evttim[e] = v  BY <1>2, <1>5, <1>10
  <2>3. v = z % W  OBVIOUS
  <2>4. v - (s.current - BOUNDARY_MARGIN) = v + y  BY <1>3, <1>5, <1>6
  <2>5. s.evttim[e] - (s.current - BOUNDARY_MARGIN) = u  BY <1>3, <1>5
  <2> HIDE DEF z, y, u, v
  <2>6. (v + y) % W = (z + y) % W  BY <1>3, <2>1, <2>3, RemSum
  <2>7. Distance(s, e) = (u % W) - BOUNDARY_MARGIN  BY <2>5 DEF Distance, Advance
  <2>8. u % W \in Int  BY <1>3, <2>1, Rem
  <2>9. (u % W) + CYCTIM \in 0 .. W - 1  BY <1>3, <1>4, <2>7, <2>8
  <2>10. (u + CYCTIM) % W = (u % W) + CYCTIM
    <3>1. CYCTIM \in Int  BY <1>3
    <3>2. QED  BY <1>3, <2>1, <2>9, <3>1, RemShift
  <2>11. Distance(n, e) = ((v + y) % W) - BOUNDARY_MARGIN
    BY <1>10, <2>2, <2>4 DEF Distance, Advance
  <2>12. (v + y) % W = (u % W) + CYCTIM  BY <2>1, <2>6, <2>10
  <2> DEFINE q == u % W
  <2>13. Distance(n, e) = (q + CYCTIM) - BOUNDARY_MARGIN /\ Distance(s, e) = q - BOUNDARY_MARGIN
         /\ q \in Int
    BY <2>7, <2>8, <2>11, <2>12
  <2> HIDE DEF q
  <2>14. QED  BY <1>3, <2>13
<1> HIDE DEF v
<1>12. \A x \in TMEVTB \ {e} : Distance(n, x) = Distance(s, x) /\ Keys(n)[x] = Keys(s)[x]
  <2>1. \A x \in TMEVTB \ {e} : n.evttim[x] = s.evttim[x]  BY <1>5, <1>10
  <2>2. \A x \in TMEVTB \ {e} : Advance(n, n.evttim[x]) = Advance(s, s.evttim[x])
    BY <1>10, <2>1, Zenon DEF Advance
  <2>3. QED  BY <2>2 DEF Distance, Keys
<1>13. InOrder(h, Keys(n)) /\ Keys(n) \in [TMEVTB -> Int]
  <2>1. \A x \in Registered(h) : Keys(n)[x] = Keys(s)[x]  BY <1>1, <1>2, <1>12
  <2>2. QED  BY <1>2, <1>10, <2>1, Measures, SameOrder
<1> DEFINE g == tmevtb_insert(h, Keys(n), e)
<1>14. g \in TimeHeaps /\ InOrder(g, Keys(n)) /\ Registered(g) = Registered(s.heap)
  <2>1. e \in TMEVTB \ Registered(h)  BY <1>2
  <2>2. g \in TimeHeaps /\ InOrder(g, Keys(n)) /\ Registered(g) = Registered(h) \cup {e}
    BY <1>2, <1>13, <2>1, InsertKeepsOrder
  <2>3. QED  BY <1>2, <2>2
<1>15. r = [s EXCEPT !.heap = g, !.evttim = f]
  <2>1. r = [n EXCEPT !.heap = g]  BY <1>10 DEF Requeued, n
  <2> HIDE DEF g, f
  <2>2. r = [s EXCEPT !.heap = g, !.evttim = f]  BY <1>1, <1>9, <2>1 DEF TimeStates
  <2>3. QED  BY <2>2 DEF f
<1> HIDE DEF g
<1>16. /\ r \in TimeStates /\ r.heap = g /\ r.evttim = n.evttim
       /\ r.cfg = s.cfg /\ r.irq = s.irq /\ r.raw = s.raw /\ r.cmp = s.cmp
       /\ r.hrtcnt = s.hrtcnt /\ r.current = s.current /\ r.mono = s.mono /\ r.offset = s.offset
  <2>1. f = n.evttim /\ n.evttim \in [TMEVTB -> 0 .. W - 1]  BY <1>10 DEF TimeStates
  <2> HIDE DEF f
  <2>2. QED  BY <1>1, <1>14, <1>15, <2>1 DEF TimeStates
<1>17. (\A x : Distance(r, x) = Distance(n, x)) /\ Keys(r) = Keys(n)
  <2>1. \A x : Advance(r, r.evttim[x]) = Advance(n, n.evttim[x])
    BY <1>10, <1>16, Zenon DEF Advance
  <2>2. QED  BY <2>1 DEF Distance, Keys
<1>18. Elapsed(r) = Elapsed(s) /\ Ahead(r) = Ahead(s) /\ Put(r) = Put(s)
  BY <1>16 DEF Elapsed, Ahead, Put
<1>19. \A x \in Registered(s.heap) \ {e} :
         Distance(r, x) = Distance(s, x) /\ Until(r, x) = Until(s, x)
  BY <1>1, <1>12, <1>17, <1>18 DEF Until
<1>20. Until(r, e) = Until(s, e) + CYCTIM * RATE
  <2>1. Distance(r, e) = Distance(s, e) + CYCTIM /\ CYCTIM \in Int  BY <1>3, <1>11, <1>17
  <2>2. (Distance(s, e) + CYCTIM) * RATE = Distance(s, e) * RATE + CYCTIM * RATE
        /\ Distance(s, e) * RATE \in Int /\ CYCTIM * RATE \in Int
    BY <1>4, <2>1, Scaled
  <2>3. Elapsed(s) \in Int  BY <1>1, Measures
  <2>4. QED  BY <1>18, <2>1, <2>2, <2>3 DEF Until
<1>21. Sound(r, l)
  <2>1. Ahead(s) \in Nat /\ Put(s) \in Nat /\ Until(s, e) \in Int /\ CYCTIM * RATE \in Nat
    BY <1>1, <1>2, <1>3, Measures
  <2>2. Distance(r, e) + 3 * TMAX_ADJTIM + BOUNDARY_MARGIN < W + Ahead(r)
    BY <1>3, <1>4, <1>11, <1>17, <1>18, <2>1
  <2>3. Until(r, e) + RATE + l + Put(r) >= 0
    <3>1. Until(s, e) + RATE + l + Put(s) >= 0  BY <1>2 DEF Sound
    <3>2. QED  BY <1>3, <1>18, <1>20, <2>1, <3>1, Numbers
  <2>4. InOrder(r.heap, Keys(r)) /\ Registered(r.heap) = Registered(s.heap)
    BY <1>14, <1>16, <1>17
  <2>5. QED  BY <1>16, <1>18, <1>19, <2>2, <2>3, <2>4 DEF Sound
<1>22. QED  BY <1>14, <1>16, <1>19, <1>20, <1>21 DEF ClockOf

----------------------------------------------------------------------------
(* The calls.                                                              *)

\* The inductive invariant: the events of the heap are those that should be in it, they
\* lie where they can be told apart, the timer is set to the first one unless its
\* interrupt is pending or handled, and the time of each event in the heap is the one that
\* was asked for or up to one step later.
EventInv ==
  /\ in_signal_time \in BOOLEAN /\ running \in TMEVTB \cup {NULL} /\ late \in 0 .. MAXLATE
  /\ exists \subseteq ALM \cup CYC /\ started \subseteq exists /\ left \in [TMEVTB -> Int]
  /\ StartedAreRegistered /\ DeletedAreSilent
  /\ running # NULL => in_signal_time
  /\ ~in_signal_time /\ ~tm.irq => late = 0
  /\ Sound(tm, late) /\ Armed(tm)
  /\ \A e \in Reg : left[e] <= Until(tm, e) /\ Until(tm, e) <= left[e] + TSTEP_HRTCNT * RATE

\* The system time goes on, and by less than a turn of the event time.
Monotone == (SysTime(tm') - SysTime(tm)) % SYS < W

\* The time events of the three kinds.
LEMMA KindsApart ==
  /\ TMO \subseteq TMEVTB /\ ALM \subseteq TMEVTB /\ CYC \subseteq TMEVTB
  /\ TMO \cap ALM = {} /\ TMO \cap CYC = {} /\ ALM \cap CYC = {} /\ NULL \notin TMEVTB
  /\ \A c \in CFG : c.acre \subseteq ALM \cup CYC
BY KindAssumption

\* The types that the invariant gives.
LEMMA InvTypes ==
  ASSUME EventInv
  PROVE  /\ tm \in TimeStates /\ tm.heap \in TimeHeaps /\ Reg \subseteq TMEVTB
         /\ late \in 0 .. MAXLATE /\ late \in Nat /\ MAXLATE \in Nat
         /\ \A e \in Reg : left[e] \in Int /\ Until(tm, e) \in Int
<1>1. tm \in TimeStates /\ tm.heap \in TimeHeaps /\ Registered(tm.heap) \subseteq TMEVTB
  BY FieldsOf, TheRegistered DEF EventInv, Sound
<1>2. MAXLATE \in Nat  BY Numbers
<1>3. \A e \in TMEVTB : Until(tm, e) \in Int  BY <1>1, Measures
<1>4. QED  BY <1>1, <1>2, <1>3 DEF EventInv, Reg

\* The system time of a step that leaves it alone.
LEMMA SysTimeSame ==
  ASSUME tm \in TimeStates, SysTime(tm') = SysTime(tm)
  PROVE  Monotone
<1>1. W \in Nat \ {0} /\ SYS \in Nat \ {0} /\ SYS = 2 * W  BY Numbers
<1>2. SysTime(tm) \in Int
  <2> DEFINE n == update_current_evttim(tm)
  <2>1. n \in TimeStates  BY Updated DEF Same
  <2>2. n.offset + n.mono \in Int  BY <2>1, FieldsOf
  <2> HIDE DEF n
  <2> DEFINE u == n.offset + n.mono
  <2>3. SysTime(tm) = u % SYS  BY DEF SysTime, Total, n
  <2> HIDE DEF u
  <2>4. QED  BY <1>1, <2>2, <2>3, Rem DEF u
<1>3. SysTime(tm') - SysTime(tm) = 0  BY <1>2
<1>4. 0 % SYS = 0  BY <1>1, Small
<1>5. QED  BY <1>1, <1>3, <1>4 DEF Monotone

\* A call leaves the flags of the timer's interrupt alone.
LEMMA CallStep ==
  ASSUME EventInv, UNCHANGED <<in_signal_time, running, late>>,
         Sound(tm', late), Armed(tm'), tm.irq => tm'.irq,
         exists' \subseteq ALM \cup CYC, started' \subseteq exists', left' \in [TMEVTB -> Int],
         Registered(tm'.heap) \ TMO = started',
         running # NULL => running \in exists' \/ running \in TMO,
         \A e \in Registered(tm'.heap) :
            left'[e] <= Until(tm', e) /\ Until(tm', e) <= left'[e] + TSTEP_HRTCNT * RATE
  PROVE  EventInv'
<1>1. StartedAreRegistered'  BY DEF StartedAreRegistered, Reg
<1>2. DeletedAreSilent'  BY <1>1 DEF DeletedAreSilent, StartedAreRegistered
<1>3. Sound(tm, late)' /\ Armed(tm)'  BY DEF Sound, Armed
<1>4. QED  BY <1>1, <1>2, <1>3 DEF EventInv, Reg

\* Stopping what may be started.
LEMMA Stopped ==
  ASSUME EventInv, NEW e \in ALM \cup CYC,
         NEW s, s = IF e \in started THEN tmevtb_dequeue(tm, e) ELSE tm
  PROVE  /\ Sound(s, late) /\ Armed(s) /\ (tm.irq => s.irq) /\ SysTime(s) = SysTime(tm)
         /\ s.raw = tm.raw
         /\ Registered(s.heap) = Reg \ {e}
         /\ \A d \in Reg \ {e} : Until(s, d) = Until(tm, d)
<1>1. e \in Reg <=> e \in started  BY KindsApart DEF EventInv, StartedAreRegistered
<1>2. CASE e \in started
  <2>1. Sound(s, late) /\ Preserved(tm, s, e) /\ Registered(s.heap) = Registered(tm.heap) \ {e}
    BY <1>1, <1>2, Dequeued DEF EventInv, Reg
  <2>2. QED  BY <2>1 DEF Preserved, EventInv, Reg
<1>3. CASE e \notin started  BY <1>1, <1>3 DEF EventInv, Reg
<1>4. QED  BY <1>2, <1>3

\* Registering an event that is not registered in the state s.
LEMMA EnqueueStep ==
  ASSUME EventInv, NEW s, NEW e \in TMEVTB \ Registered(s.heap), NEW time \in Relative,
         Sound(s, late), Armed(s), tm.irq => s.irq, SysTime(s) = SysTime(tm),
         Registered(s.heap) = Reg \ {e},
         \A d \in Reg \ {e} : Until(s, d) = Until(tm, d),
         Enqueue(s, e, time)
  PROVE  /\ Sound(tm', late) /\ Armed(tm') /\ (tm.irq => tm'.irq) /\ Monotone
         /\ Registered(tm'.heap) = Reg \cup {e} /\ left' \in [TMEVTB -> Int]
         /\ \A d \in Registered(tm'.heap) :
               left'[d] <= Until(tm', d) /\ Until(tm', d) <= left'[d] + TSTEP_HRTCNT * RATE
<1> DEFINE r == tmevtb_enqueue_reltim(s, e, time)
<1>1. tm' = r /\ left' = [left EXCEPT ![e] = time * RATE]  BY DEF Enqueue
<1>2. late \in 0 .. MAXLATE /\ in_signal_time \in BOOLEAN /\ left \in [TMEVTB -> Int]
  BY DEF EventInv
<1>3. /\ Sound(r, late) /\ Preserved(s, r, e) /\ Registered(r.heap) = Registered(s.heap) \cup {e}
      /\ Until(r, e) = (time + TSTEP_HRTCNT) * RATE - (s.raw % RATE)
  BY <1>2, Enqueued
<1> HIDE DEF r
<1>4. RATE \in Nat \ {0} /\ TSTEP_HRTCNT \in Nat \ {0} /\ time \in Nat
  <2>1. RELTIM \subseteq Nat /\ CYCTIM \in Nat /\ CYCPHS \in Nat  BY TimeAssumption
  <2>2. QED  BY <2>1, Numbers DEF Relative
<1>5. time * RATE \in Int  BY <1>4
<1>6. left' \in [TMEVTB -> Int] /\ left'[e] = time * RATE /\ \A d \in TMEVTB \ {e} : left'[d] = left[d]
  BY <1>1, <1>2, <1>5
<1>7. left'[e] <= Until(r, e) /\ Until(r, e) <= left'[e] + TSTEP_HRTCNT * RATE
  <2>1. s.raw \in Int  BY FieldsOf DEF Sound
  <2>2. s.raw % RATE \in 0 .. RATE - 1  BY <1>4, <2>1, Rem
  <2>3. (time + TSTEP_HRTCNT) * RATE = time * RATE + TSTEP_HRTCNT * RATE  BY <1>4
  <2>4. TSTEP_HRTCNT * RATE >= RATE /\ TSTEP_HRTCNT * RATE \in Int  BY <1>4, Multiple
  <2>5. QED  BY <1>3, <1>4, <1>5, <1>6, <2>2, <2>3, <2>4
<1>8. ASSUME NEW d \in Registered(r.heap)
      PROVE left'[d] <= Until(r, d) /\ Until(r, d) <= left'[d] + TSTEP_HRTCNT * RATE
  <2>1. CASE d = e  BY <1>7, <2>1
  <2>2. CASE d # e
    <3>1. d \in Reg \ {e} /\ d \in Registered(s.heap) \ {e} /\ d \in TMEVTB \ {e}
      BY <1>3, <2>2, InvTypes
    <3>2. Until(r, d) = Until(tm, d) /\ left'[d] = left[d]  BY <1>3, <1>6, <3>1 DEF Preserved
    <3>3. QED  BY <3>1, <3>2 DEF EventInv
  <2>3. QED  BY <2>1, <2>2
<1>9. Armed(r) /\ (tm.irq => r.irq) /\ SysTime(r) = SysTime(tm)  BY <1>3 DEF Preserved
<1>10. Monotone  BY <1>1, <1>9, InvTypes, SysTimeSame
<1>11. Registered(r.heap) = Reg \cup {e}  BY <1>3
<1>12. QED  BY <1>1, <1>3, <1>6, <1>8, <1>9, <1>10, <1>11

\* Starting an alarm or a cyclic handler, whether it is started or not.
LEMMA StartStep ==
  ASSUME EventInv, NEW e \in ALM \cup CYC, NEW time \in Relative, Start(e, time),
         UNCHANGED <<in_signal_time, running, late>>, e \in exists', exists \subseteq exists',
         exists' \subseteq ALM \cup CYC
  PROVE  EventInv' /\ Monotone
<1> DEFINE s == IF e \in started THEN tmevtb_dequeue(tm, e) ELSE tm
<1>1. Enqueue(s, e, time) /\ started' = started \cup {e}  BY DEF Start
<1>2. /\ Sound(s, late) /\ Armed(s) /\ (tm.irq => s.irq) /\ SysTime(s) = SysTime(tm)
      /\ Registered(s.heap) = Reg \ {e}
      /\ \A d \in Reg \ {e} : Until(s, d) = Until(tm, d)
  BY Stopped
<1> HIDE DEF s
<1>3. e \in TMEVTB \ Registered(s.heap)  BY <1>2, KindsApart
<1>4. /\ Sound(tm', late) /\ Armed(tm') /\ (tm.irq => tm'.irq) /\ Monotone
      /\ Registered(tm'.heap) = Reg \cup {e} /\ left' \in [TMEVTB -> Int]
      /\ \A d \in Registered(tm'.heap) :
            left'[d] <= Until(tm', d) /\ Until(tm', d) <= left'[d] + TSTEP_HRTCNT * RATE
  BY <1>1, <1>2, <1>3, EnqueueStep
<1>5. Registered(tm'.heap) \ TMO = started'
  BY <1>1, <1>4, KindsApart DEF EventInv, StartedAreRegistered
<1>6. started' \subseteq exists' /\ (running # NULL => running \in exists' \/ running \in TMO)
  BY <1>1 DEF EventInv, DeletedAreSilent
<1>7. QED  BY <1>4, <1>5, <1>6, CallStep

\* Stopping one, and what is done with it after that.
LEMMA StopStep ==
  ASSUME EventInv, NEW e \in ALM \cup CYC, Stop(e), UNCHANGED <<in_signal_time, running, late>>,
         exists' \subseteq exists, exists \ {e} \subseteq exists', running = NULL \/ exists' = exists
  PROVE  EventInv' /\ Monotone
<1>1. /\ tm' = IF e \in started THEN tmevtb_dequeue(tm, e) ELSE tm
      /\ started' = started \ {e} /\ left' = [left EXCEPT ![e] = 0]
  BY DEF Stop
<1>2. /\ Sound(tm', late) /\ Armed(tm') /\ (tm.irq => tm'.irq) /\ SysTime(tm') = SysTime(tm)
      /\ Registered(tm'.heap) = Reg \ {e}
      /\ \A d \in Reg \ {e} : Until(tm', d) = Until(tm, d)
  BY <1>1, Stopped
<1>3. Monotone  BY <1>2, InvTypes, SysTimeSame
<1>4. left' \in [TMEVTB -> Int] /\ \A d \in Reg \ {e} : left'[d] = left[d]
  <2>1. left \in [TMEVTB -> Int] /\ 0 \in Int /\ Reg \subseteq TMEVTB  BY InvTypes DEF EventInv
  <2>2. left' = [left EXCEPT ![e] = 0]  BY <1>1
  <2>3. QED  BY <2>1, <2>2
<1>5. Registered(tm'.heap) \ TMO = started' /\ started' \subseteq exists'
      /\ exists' \subseteq ALM \cup CYC
  BY <1>1, <1>2 DEF EventInv, StartedAreRegistered
<1>6. running # NULL => running \in exists' \/ running \in TMO
  BY DEF EventInv, DeletedAreSilent
<1>7. \A d \in Registered(tm'.heap) :
        left'[d] <= Until(tm', d) /\ Until(tm', d) <= left'[d] + TSTEP_HRTCNT * RATE
  BY <1>2, <1>4 DEF EventInv
<1>8. QED  BY <1>2, <1>3, <1>4, <1>5, <1>6, <1>7, CallStep

\* The waits of the tasks.
LEMMA WaitStep ==
  ASSUME EventInv, NEW e \in TMO,
         wait_dequeue_tmevtb(e) \/ \E t \in RELTIM : make_wait_tmout(e, t)
  PROVE  EventInv' /\ Monotone
<1>1. ASSUME wait_dequeue_tmevtb(e) PROVE EventInv' /\ Monotone
  <2>1. /\ UNCHANGED <<in_signal_time, running, late>> /\ UNCHANGED <<exists, started>>
        /\ e \in Reg /\ tm' = tmevtb_dequeue(tm, e) /\ left' = [left EXCEPT ![e] = 0]
    BY <1>1 DEF wait_dequeue_tmevtb, Call
  <2>2. Sound(tm', late) /\ Preserved(tm, tm', e) /\ Registered(tm'.heap) = Reg \ {e}
    BY <2>1, Dequeued DEF EventInv, Reg
  <2>3. Monotone  BY <2>2, InvTypes, SysTimeSame DEF Preserved
  <2>4. left' \in [TMEVTB -> Int] /\ \A d \in Reg \ {e} : left'[d] = left[d]
    BY <2>1, InvTypes DEF EventInv
  <2>5. Registered(tm'.heap) \ TMO = started' /\ started' \subseteq exists'
        /\ exists' \subseteq ALM \cup CYC
        /\ (running # NULL => running \in exists' \/ running \in TMO)
    BY <2>1, <2>2 DEF EventInv, StartedAreRegistered, DeletedAreSilent
  <2>6. \A d \in Registered(tm'.heap) :
          left'[d] <= Until(tm', d) /\ Until(tm', d) <= left'[d] + TSTEP_HRTCNT * RATE
    BY <2>2, <2>4 DEF EventInv, Preserved, Reg
  <2>7. Armed(tm') /\ (tm.irq => tm'.irq)  BY <2>2 DEF Preserved, EventInv
  <2>8. QED  BY <2>1, <2>2, <2>3, <2>4, <2>5, <2>6, <2>7, CallStep
<1>2. ASSUME NEW t \in RELTIM, make_wait_tmout(e, t) PROVE EventInv' /\ Monotone
  <2>1. /\ UNCHANGED <<in_signal_time, running, late>> /\ UNCHANGED <<exists, started>>
        /\ e \notin Reg /\ Enqueue(tm, e, t)
    BY <1>2 DEF make_wait_tmout, Call
  <2>2. e \in TMEVTB \ Registered(tm.heap) /\ t \in Relative /\ Registered(tm.heap) = Reg \ {e}
    BY <2>1, KindsApart DEF Relative, Reg
  <2>3. Sound(tm, late) /\ Armed(tm)  BY DEF EventInv
  <2>4. /\ Sound(tm', late) /\ Armed(tm') /\ (tm.irq => tm'.irq) /\ Monotone
        /\ Registered(tm'.heap) = Reg \cup {e} /\ left' \in [TMEVTB -> Int]
        /\ \A d \in Registered(tm'.heap) :
              left'[d] <= Until(tm', d) /\ Until(tm', d) <= left'[d] + TSTEP_HRTCNT * RATE
    BY <2>1, <2>2, <2>3, EnqueueStep
  <2>5. Registered(tm'.heap) \ TMO = started' /\ started' \subseteq exists'
        /\ exists' \subseteq ALM \cup CYC
        /\ (running # NULL => running \in exists' \/ running \in TMO)
    BY <2>1, <2>4 DEF EventInv, StartedAreRegistered, DeletedAreSilent
  <2>6. QED  BY <2>1, <2>4, <2>5, CallStep
<1>3. QED  BY <1>1, <1>2

----------------------------------------------------------------------------
(* The counter.                                                            *)

\* How far apart two remainders are.
LEMMA RemGap ==
  ASSUME NEW m \in Nat \ {0}, NEW x \in Int, NEW d \in 0 .. m - 1
  PROVE  (((x + d) % m) - (x % m)) % m = d
<1> DEFINE y == -(x % m)
           z == x + d
<1>1. x % m \in 0 .. m - 1 /\ x \div m \in Int /\ x = m * (x \div m) + (x % m)  BY Rem
<1>2. y \in Int /\ z \in Int /\ z + y = d + m * (x \div m)  BY <1>1
<1>3. ((x + d) % m) - (x % m) = (z % m) + y
  <2>1. z % m \in Int  BY <1>2, Rem
  <2>2. QED  BY <1>1, <2>1
<1> HIDE DEF y, z
<1>4. ((z % m) + y) % m = (z + y) % m  BY <1>2, RemSum
<1>5. (d + m * (x \div m)) % m = d % m
  <2> DEFINE q == x \div m
  <2>1. d \in Int /\ q \in Int  BY <1>1
  <2> HIDE DEF q
  <2>2. (d + m * q) % m = d % m  BY <2>1, RemPlus
  <2>3. QED  BY <2>2 DEF q
<1>6. QED  BY <1>2, <1>3, <1>4, <1>5, Small

\* The state after a tick of the counter.
Ticked(s) ==
  [s EXCEPT !.raw = (s.raw + 1) % RAW, !.irq = @ \/ (s.raw + 1) % RAW = s.cmp]

\* With each tick the events come nearer and the interrupt of the timer does.
LEMMA TickMeasures ==
  ASSUME NEW s \in TimeStates, Elapsed(s) + 1 < RAW, NEW t, t = Ticked(s)
  PROVE  /\ t \in TimeStates /\ t.cfg = s.cfg /\ t.heap = s.heap /\ Keys(t) = Keys(s)
         /\ (s.irq => t.irq) /\ Ahead(t) = Ahead(s) /\ Put(t) = Put(s)
         /\ Elapsed(t) = Elapsed(s) + 1
         /\ \A e \in TMEVTB : Distance(t, e) = Distance(s, e) /\ Until(t, e) = Until(s, e) - 1
         /\ t.irq \/ Countdown(t) = Countdown(s) - 1
         /\ t.offset = s.offset /\ t.mono = s.mono
<1> DEFINE r == (s.raw + 1) % RAW
           i == s.irq \/ r = s.cmp
<1>1. RAW \in Nat \ {0} /\ RATE \in Nat \ {0}  BY Numbers
<1>2. s.raw \in Int /\ s.cmp \in Int /\ s.cmp \in 0 .. RAW - 1 /\ s.hrtcnt \in Int
      /\ s.irq \in BOOLEAN
  BY FieldsOf
<1>3. r \in 0 .. RAW - 1 /\ r \in Int
  <2> DEFINE x == s.raw + 1
  <2>1. x \in Int /\ r = x % RAW  BY <1>2
  <2> HIDE DEF x, r
  <2>2. x % RAW \in 0 .. RAW - 1  BY <1>1, <2>1, Rem
  <2>3. QED  BY <1>1, <2>1, <2>2
<1>4. t = [s EXCEPT !.raw = r, !.irq = i] /\ i \in BOOLEAN  BY <1>2 DEF Ticked, TimeStates
<1> HIDE DEF i
<1>5. /\ t \in TimeStates /\ t.raw = r /\ t.irq = i
      /\ t.cfg = s.cfg /\ t.heap = s.heap /\ t.evttim = s.evttim /\ t.cmp = s.cmp
      /\ t.hrtcnt = s.hrtcnt /\ t.current = s.current /\ t.mono = s.mono /\ t.offset = s.offset
  <2> HIDE DEF r
  <2>1. QED  BY <1>3, <1>4 DEF TimeStates
<1>6. Elapsed(t) = Elapsed(s) + 1
  <2> DEFINE y == -(s.hrtcnt * RATE)
             x == s.raw + 1
             u == s.raw + y
  <2>1. x \in Int /\ y \in Int /\ u \in Int /\ x + y = u + 1  BY <1>1, <1>2
  <2>2. r - s.hrtcnt * RATE = (x % RAW) + y /\ s.raw - s.hrtcnt * RATE = u
    <3>1. s.hrtcnt * RATE \in Int  BY <1>1, <1>2
    <3>2. QED  BY <1>2, <1>3, <3>1
  <2> HIDE DEF r, x, y, u
  <2>3. ((x % RAW) + y) % RAW = (x + y) % RAW  BY <1>1, <2>1, RemSum
  <2>4. Elapsed(s) = u % RAW  BY <2>2 DEF Elapsed
  <2>5. (u % RAW) + 1 \in 0 .. RAW - 1
    <3>1. u % RAW \in 0 .. RAW - 1  BY <1>1, <2>1, Rem
    <3>2. QED  BY <1>1, <2>4, <3>1
  <2>6. (u + 1) % RAW = (u % RAW) + 1
    <3>1. 1 \in Int  OBVIOUS
    <3>2. QED  BY <1>1, <2>1, <2>5, <3>1, RemShift
  <2>7. Elapsed(t) = (r - s.hrtcnt * RATE) % RAW  BY <1>5 DEF Elapsed
  <2>8. QED  BY <2>1, <2>2, <2>3, <2>4, <2>6, <2>7
<1>7. t.irq \/ Countdown(t) = Countdown(s) - 1
  <2> DEFINE v == s.cmp - s.raw - 1
             x == s.raw + 1
             c == s.cmp - 1
  <2>1. v \in Int /\ x \in Int /\ c \in Int /\ c - x = v + (-1)  BY <1>2
  <2>2. t.cmp - t.raw - 1 = c - (x % RAW)  BY <1>2, <1>3, <1>5
  <2>3. Countdown(s) = (v % RAW) + 1  BY DEF Countdown
  <2>4. s.cmp = x + v  BY <1>2
  <2>5. r = x % RAW  OBVIOUS
  <2> HIDE DEF v, x, c, r
  <2>6. (c - (x % RAW)) % RAW = (c - x) % RAW  BY <1>1, <2>1, RemDiff
  <2>7. v % RAW \in 0 .. RAW - 1 /\ v \div RAW \in Int /\ v = RAW * (v \div RAW) + (v % RAW)
    BY <1>1, <2>1, Rem
  <2>8. CASE v % RAW = 0
    <3>1. s.cmp = x + RAW * (v \div RAW)  BY <1>1, <2>1, <2>4, <2>7, <2>8
    <3>2. (x + RAW * (v \div RAW)) % RAW = x % RAW  BY <1>1, <2>1, <2>7, RemPlus
    <3>3. s.cmp % RAW = s.cmp  BY <1>1, <1>2, Small
    <3>4. r = s.cmp  BY <2>5, <3>1, <3>2, <3>3
    <3>5. QED  BY <1>5, <3>4 DEF i
  <2>9. CASE v % RAW # 0
    <3>1. (v % RAW) + (-1) \in 0 .. RAW - 1 /\ -1 \in Int  BY <1>1, <2>7, <2>9
    <3>2. (v + (-1)) % RAW = (v % RAW) + (-1)  BY <1>1, <2>1, <3>1, RemShift
    <3>3. Countdown(t) = ((v % RAW) + (-1)) + 1  BY <2>1, <2>2, <2>6, <3>2 DEF Countdown
    <3>4. QED  BY <2>3, <2>7, <3>3
  <2>10. QED  BY <2>8, <2>9
<1>8. \A e : Advance(t, t.evttim[e]) = Advance(s, s.evttim[e])  BY <1>5, Zenon DEF Advance
<1>9. Keys(t) = Keys(s) /\ \A e : Distance(t, e) = Distance(s, e)  BY <1>8 DEF Keys, Distance
<1>10. ASSUME NEW e \in TMEVTB PROVE Until(t, e) = Until(s, e) - 1
  <2>1. Distance(s, e) \in Int /\ Elapsed(s) \in Nat  BY Measures
  <2>2. Distance(s, e) * RATE \in Int  BY <1>1, <2>1
  <2>3. QED  BY <1>6, <1>9, <2>1, <2>2 DEF Until
<1>11. Ahead(t) = Ahead(s) /\ Put(t) = Put(s)  BY <1>5 DEF Ahead, Put
<1>12. s.irq => t.irq  BY <1>5 DEF i
<1>13. QED  BY <1>5, <1>6, <1>7, <1>9, <1>10, <1>11, <1>12

\* The system time goes on by a step at most when the counter does.
LEMMA TickTime ==
  ASSUME NEW s \in TimeStates, Elapsed(s) + 1 < RAW
  PROVE  (SysTime(Ticked(s)) - SysTime(s)) % SYS < W
<1> DEFINE t == Ticked(s)
           a == Advanced(s)
           b == Advanced(t)
           r == s.raw % RATE
           q == t.raw % RATE
<1>1. /\ t \in TimeStates /\ Ahead(t) = Ahead(s) /\ Elapsed(t) = Elapsed(s) + 1
      /\ t.offset = s.offset /\ t.mono = s.mono
  BY TickMeasures
<1>2. /\ W \in Nat \ {0} /\ SYS \in Nat \ {0} /\ SYS = 2 * W /\ RATE \in Nat \ {0}
      /\ TCYC_HRTCNT \in Nat /\ TCYC_HRTCNT <= W /\ 3 * TMAX_ADJTIM + BOUNDARY_MARGIN + TSTEP_HRTCNT < W
      /\ TMAX_ADJTIM \in Nat /\ TSTEP_HRTCNT \in Nat \ {0} /\ BOUNDARY_MARGIN \in Nat \ {0}
  BY Numbers
<1>3. /\ a \in 0 .. TCYC_HRTCNT - 1 /\ Elapsed(s) = a * RATE + r /\ r \in 0 .. RATE - 1
      /\ SysTime(s) = (s.offset + s.mono + Gain(s, a)) % SYS
  BY Updated DEF SysTime
<1>4. /\ b \in 0 .. TCYC_HRTCNT - 1 /\ Elapsed(t) = b * RATE + q /\ q \in 0 .. RATE - 1
      /\ SysTime(t) = (t.offset + t.mono + Gain(t, b)) % SYS
  <2> HIDE DEF t
  <2>1. QED  BY <1>1, Updated DEF SysTime
<1>5. s.offset \in Int /\ s.mono \in Int /\ Ahead(s) \in Nat  BY FieldsOf, Measures
<1> HIDE DEF t, a, b, r, q
<1>6. a \in Int /\ b \in Int /\ a >= 0 /\ b >= 0 /\ a < W /\ b < W  BY <1>2, <1>3, <1>4
<1>7. b * RATE + q = a * RATE + r + 1 /\ a * RATE \in Int /\ b * RATE \in Int
  BY <1>1, <1>2, <1>3, <1>4, <1>6
<1>8. b \in {a, a + 1}
  <2>1. ~ (b < a)
    <3>1. SUFFICES ASSUME b < a PROVE FALSE  OBVIOUS
    <3>2. b * RATE + RATE <= a * RATE  BY <1>6, <3>1, Scaled
    <3>3. QED  BY <1>2, <1>3, <1>4, <1>7, <3>2
  <2>2. ~ (a + 1 < b)
    <3>1. SUFFICES ASSUME a + 1 < b PROVE FALSE  OBVIOUS
    <3>2. a + 1 \in Int /\ (a + 1) * RATE = a * RATE + RATE  BY <1>2, <1>6
    <3>3. (a + 1) * RATE + RATE <= b * RATE  BY <1>6, <3>1, <3>2, Scaled
    <3>4. QED  BY <1>2, <1>3, <1>4, <1>7, <3>2, <3>3
  <2>3. QED  BY <1>6, <2>1, <2>2
<1> DEFINE g == Gain(s, a)
           h == Gain(t, b)
<1>9. g \in Int /\ h \in Int /\ h - g \in 0 .. 1
  BY <1>1, <1>5, <1>6, <1>8 DEF Gain
<1> DEFINE x == s.offset + s.mono + g
           d == h - g
<1>10. x \in Int /\ d \in 0 .. SYS - 1 /\ d < W /\ s.offset + s.mono + h = x + d
  BY <1>2, <1>5, <1>9
<1>11. SysTime(s) = x % SYS /\ SysTime(t) = (x + d) % SYS
  BY <1>1, <1>3, <1>4, <1>10
<1> HIDE DEF x, d
<1>12. (((x + d) % SYS) - (x % SYS)) % SYS = d  BY <1>2, <1>10, RemGap
<1>13. QED  BY <1>10, <1>11, <1>12 DEF t

\* A tick of the counter.
LEMMA TickStep == ASSUME EventInv, Tick PROVE EventInv' /\ Monotone
<1> DEFINE waiting == tm.irq \/ in_signal_time
<1>1. /\ waiting => late < MAXLATE
      /\ late' = IF waiting THEN late + 1 ELSE 0
      /\ tm' = Ticked(tm)
      /\ left' = [e \in TMEVTB |-> IF e \in Reg /\ left[e] >= -MaxOverdue
                                   THEN left[e] - 1 ELSE left[e]]
      /\ UNCHANGED <<in_signal_time, exists, started, running>>
  BY DEF Tick, Ticked
<1>2. /\ tm \in TimeStates /\ Reg \subseteq TMEVTB /\ late \in 0 .. MAXLATE /\ late \in Nat
      /\ MAXLATE \in Nat /\ \A e \in Reg : left[e] \in Int /\ Until(tm, e) \in Int
  BY InvTypes
<1>3. /\ RATE \in Nat \ {0} /\ HRTCNT_BOUND \in Nat \ {0} /\ TSTEP_HRTCNT \in Nat \ {0}
      /\ HRTCNT_BOUND * RATE + RATE + MAXLATE < RAW /\ TMAX_ADJTIM \in Nat
      /\ HRTCNT_BOUND * RATE \in Nat /\ TSTEP_HRTCNT * RATE \in Nat
      /\ (1 + TSTEP_HRTCNT) * RATE = RATE + TSTEP_HRTCNT * RATE
  <2>1. RATE \in Nat \ {0} /\ HRTCNT_BOUND \in Nat \ {0} /\ TSTEP_HRTCNT \in Nat \ {0}  BY Numbers
  <2>2. HRTCNT_BOUND * RATE \in Nat /\ TSTEP_HRTCNT * RATE \in Nat
        /\ (1 + TSTEP_HRTCNT) * RATE = RATE + TSTEP_HRTCNT * RATE
    BY <2>1
  <2>3. QED  BY <2>2, Numbers
<1>4. Elapsed(tm) \in Nat /\ Countdown(tm) \in Nat /\ Countdown(tm) >= 1 /\ Put(tm) \in Nat
      /\ RAW \in Nat
  <2>1. RAW \in Nat  BY Numbers
  <2>2. QED  BY <1>2, <2>1, Measures
<1>5. /\ late' \in 0 .. MAXLATE /\ Elapsed(tm) + 1 <= HRTCNT_BOUND * RATE + RATE + late'
      /\ \A e \in Reg : Until(tm, e) - 1 + RATE + late' + Put(tm) >= 0
      /\ ~waiting => late' = 0 /\ TimerSet(tm)
  <2>1. CASE waiting
    <3>1. late' = late + 1 /\ late + 1 \in 0 .. MAXLATE  BY <1>1, <1>2, <2>1
    <3>2. Elapsed(tm) <= HRTCNT_BOUND * RATE + RATE + late
          /\ \A e \in Reg : Until(tm, e) + RATE + late + Put(tm) >= 0
      BY DEF EventInv, Sound, Reg
    <3>3. QED  BY <1>2, <1>3, <1>4, <2>1, <3>1, <3>2
  <2>2. CASE ~waiting
    <3>1. late' = 0 /\ TimerSet(tm)  BY <1>1, <2>2 DEF EventInv, Armed
    <3>2. Countdown(tm) + Elapsed(tm) <= HRTCNT_BOUND * RATE + RATE
          /\ \A e \in Reg : Countdown(tm) <= Until(tm, e) + RATE
      BY <3>1 DEF TimerSet, Reg
    <3>3. QED  BY <1>2, <1>3, <1>4, <3>1, <3>2
  <2>3. QED  BY <2>1, <2>2
<1>6. Elapsed(tm) + 1 < RAW  BY <1>2, <1>3, <1>4, <1>5
<1>7. /\ tm' \in TimeStates /\ tm'.cfg = tm.cfg /\ tm'.heap = tm.heap /\ Keys(tm') = Keys(tm)
      /\ (tm.irq => tm'.irq) /\ Ahead(tm') = Ahead(tm) /\ Put(tm') = Put(tm)
      /\ Elapsed(tm') = Elapsed(tm) + 1
      /\ \A e \in TMEVTB : /\ Distance(tm', e) = Distance(tm, e)
                           /\ Until(tm', e) = Until(tm, e) - 1
      /\ tm'.irq \/ Countdown(tm') = Countdown(tm) - 1
  BY <1>1, <1>2, <1>6, TickMeasures
<1>8. Monotone  BY <1>1, <1>2, <1>6, TickTime DEF Monotone
<1>9. Sound(tm, late)'
  <2>1. Sound(tm, late)  BY DEF EventInv
  <2>2. \A e \in Registered(tm.heap) : Until(tm', e) + RATE + late' + Put(tm') >= 0
    BY <1>2, <1>5, <1>7 DEF Reg
  <2>3. \A e \in Registered(tm.heap) : Distance(tm', e) = Distance(tm, e)
    BY <1>2, <1>7 DEF Reg
  <2>4. QED  BY <1>5, <1>7, <2>1, <2>2, <2>3 DEF Sound
<1>10. Armed(tm)'
  <2>1. SUFFICES ASSUME ~in_signal_time', ~tm'.irq PROVE TimerSet(tm)'  BY DEF Armed
  <2>2. TimerSet(tm) /\ Countdown(tm') = Countdown(tm) - 1  BY <1>1, <1>5, <1>7, <2>1
  <2>3. Countdown(tm') + Elapsed(tm') <= HRTCNT_BOUND * RATE + RATE
    BY <1>3, <1>4, <1>7, <2>2 DEF TimerSet
  <2>4. \A e \in Reg : Countdown(tm') <= Until(tm', e) + RATE
    BY <1>2, <1>3, <1>4, <1>7, <2>2 DEF TimerSet, Reg
  <2>5. QED  BY <1>7, <2>3, <2>4 DEF TimerSet, Reg
<1>11. Reg' = Reg  BY <1>7 DEF Reg
<1>12. \A e \in Reg : left[e] >= -MaxOverdue
  <2>1. MaxOverdue = RATE + TSTEP_HRTCNT * RATE + MAXLATE + Put(tm)
    BY <1>3, <1>4 DEF MaxOverdue, Overdue, Put
  <2>2. \A e \in Reg : Until(tm, e) <= left[e] + TSTEP_HRTCNT * RATE
                       /\ Until(tm, e) + RATE + late + Put(tm) >= 0
    BY DEF EventInv, Sound, Reg
  <2>3. QED  BY <1>2, <1>3, <1>4, <2>1, <2>2
<1>13. left' \in [TMEVTB -> Int] /\ \A e \in Reg : left'[e] = left[e] - 1
  <2>1. left \in [TMEVTB -> Int]  BY DEF EventInv
  <2> DEFINE f == [e \in TMEVTB |-> IF e \in Reg /\ left[e] >= -MaxOverdue
                                    THEN left[e] - 1 ELSE left[e]]
  <2>2. left' = f  BY <1>1
  <2>3. \A e \in TMEVTB : f[e] \in Int  BY <2>1
  <2>4. \A e \in Reg : f[e] = left[e] - 1  BY <1>2, <1>12
  <2>5. f \in [TMEVTB -> Int]  BY <2>3
  <2>6. QED  BY <2>2, <2>4, <2>5
<1>14. \A e \in Reg : left'[e] <= Until(tm', e) /\ Until(tm', e) <= left'[e] + TSTEP_HRTCNT * RATE
  <2>1. \A e \in Reg : left[e] <= Until(tm, e) /\ Until(tm, e) <= left[e] + TSTEP_HRTCNT * RATE
    BY DEF EventInv
  <2>2. QED  BY <1>2, <1>3, <1>7, <1>13, <2>1
<1>15. StartedAreRegistered' /\ DeletedAreSilent'
  BY <1>1, <1>11 DEF EventInv, StartedAreRegistered, DeletedAreSilent
<1>16. ~in_signal_time' /\ ~tm'.irq => late' = 0  BY <1>1, <1>5, <1>7
<1>17. QED
  BY <1>1, <1>5, <1>8, <1>9, <1>10, <1>11, <1>13, <1>14, <1>15, <1>16 DEF EventInv

----------------------------------------------------------------------------
(* The interrupt of the timer.                                             *)

\* When no event is due just after the time has been updated, none is late.
LEMMA NothingDue ==
  ASSUME NEW l \in 0 .. MAXLATE, NEW s, Sound(s, l), Elapsed(s) = s.raw % RATE, ~Due(s)
  PROVE  Sound(s, 0)
<1>1. s \in TimeStates  BY DEF Sound
<1>2. /\ RATE \in Nat \ {0} /\ HRTCNT_BOUND * RATE \in Nat /\ MAXLATE \in Nat
      /\ s.raw % RATE \in 0 .. RATE - 1 /\ Put(s) \in Nat
  <2>1. RATE \in Nat \ {0} /\ HRTCNT_BOUND \in Nat /\ MAXLATE \in Nat /\ s.raw \in Int
    BY <1>1, Numbers, FieldsOf
  <2>2. HRTCNT_BOUND * RATE \in Nat  BY <2>1
  <2>3. QED  BY <1>1, <2>1, <2>2, Rem, Measures
<1>3. ASSUME NEW e \in Registered(s.heap) PROVE Until(s, e) >= 0 /\ Until(s, e) \in Int
  <2> DEFINE top == s.heap.node[1]
  <2>1. s.heap.node # <<>> /\ Distance(s, top) <= Distance(s, e)  BY RootIsNearest
  <2>2. top \in Registered(s.heap) /\ ~ (Distance(s, top) <= 0)  BY <2>1, RootIsNearest
  <2>3. Distance(s, top) \in Int /\ Distance(s, e) \in Int /\ Until(s, e) \in Int
    BY <2>2, InWindow
  <2> HIDE DEF top
  <2>4. Distance(s, e) >= 1  BY <2>1, <2>2, <2>3
  <2>5. Distance(s, e) * RATE >= RATE /\ Distance(s, e) * RATE \in Int  BY <2>3, <2>4, Multiple
  <2>6. QED  BY <1>2, <2>3, <2>5 DEF Until
<1>4. \A e \in Registered(s.heap) : Until(s, e) + RATE + 0 + Put(s) >= 0  BY <1>2, <1>3
<1>5. Elapsed(s) <= HRTCNT_BOUND * RATE + RATE + 0  BY <1>2
<1>6. QED  BY <1>4, <1>5 DEF Sound

\* signal_time reads the time; it goes on if an event is due and ends otherwise.
LEMMA ReadStep ==
  ASSUME EventInv, running = NULL, UNCHANGED <<exists, started, running, left>>,
         NEW s, SameTimes(tm, s), s.cmp = tm.cmp,
         NEW now, now = update_current_evttim(s),
         \/ Due(now) /\ tm' = now /\ in_signal_time' = TRUE /\ late' = late
         \/ ~Due(now) /\ Finish(now)
  PROVE  EventInv' /\ Monotone
<1>1. late \in 0 .. MAXLATE /\ tm \in TimeStates /\ Sound(tm, late)  BY InvTypes DEF EventInv
<1>2. /\ Sound(s, late) /\ s \in TimeStates /\ s.heap = tm.heap
      /\ \A e \in Reg : Until(s, e) = Until(tm, e)
  BY <1>1, SameTimesSound DEF SameTimes, Reg
<1>3. /\ Sound(now, late) /\ Same(s, now) /\ Elapsed(now) = s.raw % RATE
      /\ now.heap = tm.heap /\ now.raw = s.raw
      /\ \A e \in Reg : Until(now, e) = Until(tm, e)
  BY <1>1, <1>2, UpdatedSound DEF Same, Reg
<1>4. SysTime(now) = SysTime(tm)
  <2>1. ClockOf(s) = ClockOf(tm)  BY DEF SameTimes, ClockOf
  <2>2. now \in TimeStates  BY <1>3 DEF Same
  <2>3. SysTime(now) = SysTime(s) /\ SysTime(s) = SysTime(tm)  BY <1>1, <1>2, <2>1, <2>2, SysTimeOf
  <2>4. QED  BY <2>3
<1>5. /\ Sound(tm', late') /\ Armed(tm)' /\ tm'.heap = tm.heap /\ SysTime(tm') = SysTime(tm)
      /\ \A e \in Reg : Until(tm', e) = Until(tm, e)
      /\ in_signal_time' \in BOOLEAN /\ late' \in 0 .. MAXLATE
      /\ ~in_signal_time' => late' = 0
  <2>1. CASE Due(now) /\ tm' = now /\ in_signal_time' = TRUE /\ late' = late
    <3>1. Armed(tm)'  BY <2>1 DEF Armed
    <3>2. QED  BY <1>1, <1>3, <1>4, <2>1, <3>1
  <2>2. CASE ~Due(now) /\ Finish(now)
    <3>1. tm' = set_hrt_event(now) /\ in_signal_time' = FALSE /\ late' = 0
      BY <2>2 DEF Finish
    <3>2. 0 \in 0 .. MAXLATE  BY Numbers
    <3>3. Sound(now, 0) /\ Elapsed(now) = now.raw % RATE  BY <1>1, <1>3, <2>2, NothingDue
    <3>4. /\ SameTimes(now, tm') /\ Sound(tm', 0) /\ (tm'.irq \/ TimerSet(tm'))
          /\ \A e \in Registered(now.heap) : Until(tm', e) = Until(now, e)
      BY <3>1, <3>2, <3>3, TimerIsSet
    <3>5. SysTime(tm') = SysTime(tm)
      <4>1. now \in TimeStates /\ tm' \in TimeStates /\ ClockOf(tm') = ClockOf(now)
        BY <1>3, <3>4 DEF SameTimes, Same, ClockOf
      <4>2. QED  BY <1>4, <4>1, SysTimeOf
    <3>6. Armed(tm)'  BY <3>4 DEF Armed
    <3>7. tm'.heap = tm.heap  BY <1>3, <3>4 DEF SameTimes
    <3>8. QED  BY <1>3, <3>1, <3>2, <3>4, <3>5, <3>6, <3>7 DEF Reg
  <2>3. QED  BY <2>1, <2>2
<1>6. Reg' = Reg  BY <1>5 DEF Reg
<1>7. \A e \in Reg : left'[e] <= Until(tm', e) /\ Until(tm', e) <= left'[e] + TSTEP_HRTCNT * RATE
  BY <1>5 DEF EventInv
<1>8. StartedAreRegistered' /\ DeletedAreSilent'
  BY <1>6 DEF EventInv, StartedAreRegistered, DeletedAreSilent
<1>9. Monotone  BY <1>1, <1>5, SysTimeSame
<1>10. QED  BY <1>5, <1>6, <1>7, <1>8, <1>9 DEF EventInv, Sound

\* signal_time begins, and looks again when no event of the heap is due.
LEMMA SignalStep == ASSUME EventInv, signal_time \/ LookAgain PROVE EventInv' /\ Monotone
<1>1. tm \in TimeStates  BY InvTypes
<1>2. CASE signal_time
  <2> DEFINE s == [tm EXCEPT !.irq = FALSE]
             now == update_current_evttim(s)
  <2>1. /\ ~in_signal_time /\ UNCHANGED <<exists, started, running, left>>
        /\ IF Due(now) THEN tm' = now /\ in_signal_time' = TRUE /\ UNCHANGED late ELSE Finish(now)
    BY <1>2 DEF signal_time
  <2>2. running = NULL  BY <2>1 DEF EventInv
  <2>3. SameTimes(tm, s) /\ s.cmp = tm.cmp  BY <1>1 DEF SameTimes, TimeStates
  <2> HIDE DEF s
  <2>4. QED  BY <2>1, <2>2, <2>3, ReadStep
<1>3. CASE LookAgain
  <2> DEFINE now == update_current_evttim(tm)
  <2>1. /\ in_signal_time /\ running = NULL /\ UNCHANGED <<exists, started, running, left>>
        /\ IF Due(now) THEN tm' = now /\ UNCHANGED <<in_signal_time, late>> ELSE Finish(now)
    BY <1>3 DEF LookAgain
  <2>2. SameTimes(tm, tm)  BY <1>1 DEF SameTimes
  <2>3. in_signal_time = TRUE  BY <2>1 DEF EventInv
  <2>4. QED  BY <2>1, <2>2, <2>3, ReadStep
<1>4. QED  BY <1>2, <1>3

\* The callback of a task that waits, or of an alarm.
LEMMA ExpiredStep ==
  ASSUME EventInv, Expiring, Expired, running' = Top, UNCHANGED <<in_signal_time, exists, late>>,
         started' = started \ {Top}
  PROVE  EventInv' /\ Monotone
<1> DEFINE h == tmevtb_delete_top(tm.heap, Keys(tm))
           e == Top
<1>1. /\ tm \in TimeStates /\ tm.heap \in TimeHeaps /\ Reg \subseteq TMEVTB
      /\ late \in 0 .. MAXLATE /\ Sound(tm, late) /\ InOrder(tm.heap, Keys(tm))
      /\ Keys(tm) \in [TMEVTB -> Int]
  BY InvTypes, Measures DEF EventInv, Sound
<1>2. in_signal_time /\ tm.heap.node # <<>>  BY DEF Expiring, Due
<1>3. h \in TimeHeaps /\ InOrder(h, Keys(tm)) /\ Registered(h) = Reg \ {e} /\ e \in Reg
  BY <1>1, <1>2, DeleteTopKeepsOrder DEF Reg, Top
<1>4. tm' = Forget([tm EXCEPT !.heap = h], e) /\ left' = [left EXCEPT ![e] = 0]
  BY DEF Expired, DeleteTop
<1> HIDE DEF h, e
<1>5. /\ Sound(tm', late) /\ Registered(tm'.heap) = Reg \ {e} /\ ClockOf(tm') = ClockOf(tm)
      /\ \A d \in Registered(tm'.heap) : Until(tm', d) = Until(tm, d)
  <2> DEFINE r == Forget([tm EXCEPT !.heap = h], e)
  <2>1. h \in TimeHeaps /\ InOrder(h, Keys(tm)) /\ e \in Registered(tm.heap)
        /\ Registered(h) = Registered(tm.heap) \ {e}
    BY <1>3 DEF Reg
  <2>2. /\ Sound(r, late) /\ Registered(r.heap) = Registered(tm.heap) \ {e}
        /\ ClockOf(r) = ClockOf(tm)
        /\ \A d \in Registered(r.heap) : Until(r, d) = Until(tm, d)
    BY <1>1, <2>1, TakenOut
  <2> HIDE DEF r
  <2>3. tm' = r  BY <1>4 DEF r
  <2>4. QED  BY <2>2, <2>3 DEF Reg
<1>6. Sound(tm, late)' /\ Reg' = Reg \ {e}
  <2>1. late' = late  OBVIOUS
  <2>2. QED  BY <1>5, <2>1 DEF Sound, Reg
<1>7. Armed(tm)'  BY <1>2 DEF Armed
<1>8. left' \in [TMEVTB -> Int] /\ \A d \in Reg \ {e} : left'[d] = left[d]
  <2>1. left \in [TMEVTB -> Int] /\ 0 \in Int  BY DEF EventInv
  <2>2. QED  BY <1>1, <1>4, <2>1
<1>9. \A d \in Reg' : left'[d] <= Until(tm', d) /\ Until(tm', d) <= left'[d] + TSTEP_HRTCNT * RATE
  BY <1>5, <1>6, <1>8 DEF EventInv
<1>10. StartedAreRegistered'
  <2>1. Reg \ TMO = started  BY DEF EventInv, StartedAreRegistered
  <2>2. Reg' \ TMO = started'  BY <1>6, <2>1 DEF e
  <2>3. QED  BY <2>2 DEF StartedAreRegistered
<1>11. DeletedAreSilent'
  <2>1. e \in TMO \cup exists  BY <1>3 DEF EventInv, StartedAreRegistered
  <2>2. (Reg \cup {running}) \ (TMO \cup {NULL}) \subseteq exists  BY DEF EventInv, DeletedAreSilent
  <2>3. Reg' \cup {running'} = (Reg \ {e}) \cup {e} /\ exists' = exists  BY <1>6 DEF e
  <2>4. (Reg' \cup {running'}) \ (TMO \cup {NULL}) \subseteq exists'  BY <2>1, <2>2, <2>3
  <2>5. QED  BY <2>4 DEF DeletedAreSilent
<1>12. Monotone
  <2>1. tm' \in TimeStates  BY <1>5 DEF Sound
  <2>2. QED  BY <1>1, <1>5, <2>1, SysTimeOf, SysTimeSame
<1>13. running' \in TMEVTB /\ in_signal_time'
  BY <1>1, <1>2, <1>3 DEF e
<1>14. started' \subseteq exists' /\ exists' \subseteq ALM \cup CYC  BY DEF EventInv
<1>15. QED  BY <1>1, <1>6, <1>7, <1>8, <1>9, <1>10, <1>11, <1>12, <1>13, <1>14 DEF EventInv

\* The callback of a cyclic handler.
LEMMA CyclicStep == ASSUME EventInv, call_cyclic PROVE EventInv' /\ Monotone
<1> DEFINE e == Top
<1>1. /\ tm \in TimeStates /\ tm.heap \in TimeHeaps /\ Reg \subseteq TMEVTB
      /\ late \in 0 .. MAXLATE /\ Sound(tm, late)
      /\ \A d \in Reg : left[d] \in Int /\ Until(tm, d) \in Int
  BY InvTypes DEF EventInv
<1>2. /\ in_signal_time /\ Due(tm) /\ tm.heap.node # <<>> /\ e \in CYC /\ running' = e
      /\ tm' = Requeued(tm, e) /\ left' = [left EXCEPT ![e] = @ + CYCTIM * RATE]
      /\ UNCHANGED <<in_signal_time, exists, started, late>>
  BY DEF call_cyclic, Expiring, Due, Requeued, Postponed, WithoutTop, DeleteTop
<1>3. e = tm.heap.node[1]  BY DEF Top
<1> HIDE DEF e
<1>4. /\ Sound(tm', late) /\ Registered(tm'.heap) = Reg /\ ClockOf(tm') = ClockOf(tm)
      /\ \A x \in Reg \ {e} : Until(tm', x) = Until(tm, x)
      /\ Until(tm', e) = Until(tm, e) + CYCTIM * RATE
  BY <1>1, <1>2, <1>3, NextPeriod DEF Reg
<1>5. e \in Reg /\ e \in TMEVTB  BY <1>1, <1>2, <1>3, RootIsNearest DEF Reg
<1>6. Sound(tm, late)' /\ Reg' = Reg  BY <1>2, <1>4 DEF Sound, Reg
<1>7. Armed(tm)'  BY <1>2 DEF Armed
<1>8. CYCTIM * RATE \in Int /\ TSTEP_HRTCNT * RATE \in Int
  <2>1. CYCTIM \in Nat /\ RATE \in Nat /\ TSTEP_HRTCNT \in Nat  BY TimeAssumption
  <2>2. QED  BY <2>1
<1>9. /\ left' \in [TMEVTB -> Int] /\ left'[e] = left[e] + CYCTIM * RATE
      /\ \A d \in Reg \ {e} : left'[d] = left[d]
  <2>1. left \in [TMEVTB -> Int] /\ left[e] + CYCTIM * RATE \in Int
    BY <1>1, <1>5, <1>8 DEF EventInv
  <2>2. QED  BY <1>1, <1>2, <1>5, <2>1
<1>10. ASSUME NEW d \in Reg
       PROVE  left'[d] <= Until(tm', d) /\ Until(tm', d) <= left'[d] + TSTEP_HRTCNT * RATE
  <2>1. left[d] <= Until(tm, d) /\ Until(tm, d) <= left[d] + TSTEP_HRTCNT * RATE  BY DEF EventInv
  <2>2. CASE d = e  BY <1>1, <1>4, <1>8, <1>9, <2>1, <2>2
  <2>3. CASE d # e  BY <1>4, <1>9, <2>1, <2>3
  <2>4. QED  BY <2>2, <2>3
<1>11. StartedAreRegistered'  BY <1>2, <1>6 DEF EventInv, StartedAreRegistered
<1>12. DeletedAreSilent'
  <2>1. e \in exists  BY <1>2, <1>5, KindsApart DEF EventInv, StartedAreRegistered
  <2>2. QED  BY <1>2, <1>6, <2>1 DEF EventInv, DeletedAreSilent
<1>13. Monotone
  <2>1. tm' \in TimeStates  BY <1>4 DEF Sound
  <2>2. QED  BY <1>1, <1>4, <2>1, SysTimeOf, SysTimeSame
<1>14. QED  BY <1>2, <1>5, <1>6, <1>7, <1>9, <1>10, <1>11, <1>12, <1>13 DEF EventInv

\* What signal_time does.
LEMMA SignalTimeStep == ASSUME EventInv, SignalTime PROVE EventInv' /\ Monotone
<1>1. CASE signal_time \/ LookAgain  BY <1>1, SignalStep
<1>2. CASE wait_tmout \/ call_alarm
  <2>1. Expiring /\ Expired /\ running' = Top /\ UNCHANGED <<in_signal_time, exists, late>>
    BY <1>2 DEF wait_tmout, call_alarm
  <2>2. started' = started \ {Top}
    <3>1. CASE wait_tmout
      <4>1. started' = started /\ Top \in TMO  BY <3>1 DEF wait_tmout
      <4>2. Top \notin started  BY <4>1 DEF EventInv, StartedAreRegistered
      <4>3. QED  BY <4>1, <4>2
    <3>2. CASE call_alarm  BY <3>2 DEF call_alarm
    <3>3. QED  BY <1>2, <3>1, <3>2
  <2>3. QED  BY <2>1, <2>2, ExpiredStep
<1>3. CASE call_cyclic  BY <1>3, CyclicStep
<1>4. CASE HandlerReturns
  <2>1. running' = NULL /\ UNCHANGED <<tm, in_signal_time, exists, started, late, left>>
    BY <1>4 DEF HandlerReturns
  <2>2. EventInv'
    BY <2>1 DEF EventInv, StartedAreRegistered, DeletedAreSilent, Reg, Armed, Sound
  <2>3. Monotone  BY <2>1, InvTypes, SysTimeSame
  <2>4. QED  BY <2>2, <2>3
<1>5. QED  BY <1>1, <1>2, <1>3, <1>4 DEF SignalTime, Expire

----------------------------------------------------------------------------
(* The clock is set and adjusted.                                          *)

\* set_tim changes no more than what is added to the event time.
LEMMA SetTimStep == ASSUME EventInv, NEW systim \in SYSTIMS, set_tim(systim) PROVE EventInv'
<1> DEFINE now == update_current_evttim(tm)
           o == (systim - now.mono) % SYS
<1>1. /\ tm' = [now EXCEPT !.offset = o]
      /\ UNCHANGED <<in_signal_time, running, late>> /\ UNCHANGED <<exists, started, left>>
  BY DEF set_tim, Call
<1>2. late \in 0 .. MAXLATE /\ tm \in TimeStates /\ Sound(tm, late)  BY InvTypes DEF EventInv
<1>3. /\ Sound(now, late) /\ Same(tm, now) /\ \A e \in Reg : Until(now, e) = Until(tm, e)
      /\ TimerSet(tm) => TimerSet(now)
  BY <1>2, UpdatedSound DEF Reg
<1>4. now \in TimeStates /\ now.heap = tm.heap /\ now.irq = tm.irq  BY <1>3 DEF Same
<1> HIDE DEF now
<1>5. o \in 0 .. SYS - 1
  <2> DEFINE x == systim - now.mono
  <2>1. now.mono \in Int /\ systim \in Int  BY <1>4, FieldsOf, TimeAssumption
  <2>2. x \in Int /\ SYS \in Nat \ {0}  BY <2>1, Numbers
  <2> HIDE DEF x
  <2>3. x % SYS \in 0 .. SYS - 1  BY <2>2, Rem
  <2>4. QED  BY <2>3 DEF x
<1> HIDE DEF o
<1>6. /\ tm' \in TimeStates /\ tm'.cfg = now.cfg /\ tm'.raw = now.raw /\ tm'.hrtcnt = now.hrtcnt
      /\ tm'.current = now.current /\ tm'.mono = now.mono /\ tm'.heap = now.heap
      /\ tm'.evttim = now.evttim /\ tm'.irq = now.irq /\ tm'.cmp = now.cmp
  BY <1>1, <1>4, <1>5 DEF TimeStates
<1>7. tm'.heap = tm.heap /\ tm'.irq = tm.irq  BY <1>4, <1>6
<1>8. /\ Sound(tm', late) /\ Elapsed(tm') = Elapsed(now)
      /\ \A e \in Reg : Until(tm', e) = Until(now, e)
  <2> DEFINE t == tm'
  <2>1. \A e : Advance(t, t.evttim[e]) = Advance(now, now.evttim[e])  BY <1>6, Zenon DEF Advance
  <2>2. Keys(t) = Keys(now) /\ \A e : Distance(t, e) = Distance(now, e)
    BY <2>1 DEF Keys, Distance
  <2>3. Elapsed(t) = Elapsed(now) /\ Put(t) = Put(now)  BY <1>6 DEF Elapsed, Put
  <2>4. Ahead(t) = Ahead(now)  BY <1>6, Zenon DEF Ahead
  <2>5. \A e : Until(t, e) = Until(now, e)  BY <2>2, <2>3 DEF Until
  <2>6. t.heap = now.heap /\ t \in TimeStates  BY <1>6
  <2> HIDE DEF t
  <2>7. Sound(t, late)  BY <1>3, <2>2, <2>3, <2>4, <2>5, <2>6 DEF Sound
  <2>8. QED  BY <2>3, <2>5, <2>7 DEF t
<1>9. TimerSet(now) => TimerSet(tm')
  <2>1. Countdown(tm') = Countdown(now)  BY <1>6 DEF Countdown
  <2>2. QED  BY <1>4, <1>6, <1>8, <2>1 DEF TimerSet, Reg
<1>10. Armed(tm)' /\ Sound(tm, late)'
  BY <1>1, <1>3, <1>7, <1>8, <1>9 DEF EventInv, Armed, Sound
<1>11. Reg' = Reg  BY <1>7 DEF Reg
<1>12. \A e \in Reg : left'[e] <= Until(tm', e) /\ Until(tm', e) <= left'[e] + TSTEP_HRTCNT * RATE
  BY <1>1, <1>3, <1>8 DEF EventInv
<1>13. StartedAreRegistered' /\ DeletedAreSilent'
  BY <1>1, <1>11 DEF EventInv, StartedAreRegistered, DeletedAreSilent
<1>14. QED  BY <1>1, <1>7, <1>10, <1>11, <1>12, <1>13 DEF EventInv

\* The system time as it is written down just after an update.
LEMMA Fresh ==
  ASSUME NEW s \in TimeStates, s.hrtcnt = target_hrt_get_current(s)
  PROVE  SysTime(s) = (s.offset + s.mono) % SYS
<1>1. SysTime(s) = (s.offset + s.mono + Gain(s, Advanced(s))) % SYS  BY Updated DEF SysTime
<1>2. Advanced(s) = 0
  <2>1. TCYC_HRTCNT \in Nat \ {0} /\ s.hrtcnt \in Int  BY Numbers, FieldsOf
  <2>2. target_hrt_get_current(s) - s.hrtcnt = 0  BY <2>1
  <2>3. 0 % TCYC_HRTCNT = 0  BY <2>1, Small
  <2>4. QED  BY <2>2, <2>3 DEF Advanced
<1>3. Gain(s, 0) = 0 /\ s.offset + s.mono + 0 = s.offset + s.mono
  <2>1. Ahead(s) \in Nat /\ s.offset \in Int /\ s.mono \in Int  BY Measures, FieldsOf
  <2>2. QED  BY <2>1 DEF Gain
<1>4. QED  BY <1>1, <1>2, <1>3

\* The event time put forward or back just after an update.
Adjusted(s, a) ==
  LET moved == [s EXCEPT !.current = (@ + a) % W]
  IN  IF a > 0 THEN Overtake(moved, s.current, a) ELSE moved

\* The system time follows an adjustment forward only, and not back.
LEMMA AdjustedTime ==
  ASSUME NEW s \in TimeStates, s.hrtcnt = target_hrt_get_current(s),
         NEW a \in -TMAX_ADJTIM .. TMAX_ADJTIM, NEW t, t = Adjusted(s, a)
  PROVE  /\ Same(s, t) /\ t.hrtcnt = s.hrtcnt /\ t.current = (s.current + a) % W
         /\ Elapsed(t) = Elapsed(s) /\ (SysTime(t) - SysTime(s)) % SYS < W
         /\ a > 0 => Ahead(t) = Ahead(s) - a + Gain(s, a)
         /\ ~ (a > 0) => (Ahead(s) - a < W => Ahead(t) = Ahead(s) - a)
<1>1. /\ W \in Nat \ {0} /\ SYS \in Nat \ {0} /\ SYS = 2 * W /\ TMAX_ADJTIM \in Nat
      /\ TSTEP_HRTCNT \in Nat \ {0} /\ BOUNDARY_MARGIN \in Nat \ {0}
      /\ 3 * TMAX_ADJTIM + BOUNDARY_MARGIN + TSTEP_HRTCNT < W /\ RATE \in Nat \ {0}
  BY Numbers
<1>2. a \in Int /\ s.current \in Int /\ s.mono \in Int /\ s.offset \in Int /\ Ahead(s) \in Nat
      /\ Ahead(s) < W
  BY <1>1, FieldsOf, Measures
<1> DEFINE d == (s.current + a) % W
<1>3. d \in 0 .. W - 1 /\ d \in Int
  <2> DEFINE x == s.current + a
  <2>1. x \in Int /\ d = x % W  BY <1>2
  <2> HIDE DEF x, d
  <2>2. x % W \in 0 .. W - 1  BY <1>1, <2>1, Rem
  <2>3. QED  BY <1>1, <2>1, <2>2
<1>4. SysTime(s) = (s.offset + s.mono) % SYS  BY Fresh
<1>5. /\ Same(s, t) /\ t.hrtcnt = s.hrtcnt /\ t.current = d
      /\ (SysTime(t) - SysTime(s)) % SYS < W
      /\ a > 0 => Ahead(t) = Ahead(s) - a + Gain(s, a)
      /\ ~ (a > 0) => (Ahead(s) - a < W => Ahead(t) = Ahead(s) - a)
  <2>1. CASE a > 0
    <3>1. a \in 0 .. W - 1  BY <1>1, <2>1
    <3>2. t = Overtake([s EXCEPT !.current = (@ + a) % W], s.current, a)  BY <2>1 DEF Adjusted
    <3>3. /\ Same(s, t) /\ t.hrtcnt = s.hrtcnt /\ t.current = d
          /\ Ahead(t) = Ahead(s) - a + Gain(s, a)
          /\ (t.offset + t.mono) % SYS = (s.offset + s.mono + Gain(s, a)) % SYS
      BY <3>1, <3>2, Forward DEF Total
    <3>4. SysTime(t) = (s.offset + s.mono + Gain(s, a)) % SYS
      <4>1. t \in TimeStates /\ t.hrtcnt = target_hrt_get_current(t)
        BY <3>3 DEF Same, target_hrt_get_current
      <4>2. QED  BY <3>3, <4>1, Fresh
    <3> DEFINE x == s.offset + s.mono
               g == Gain(s, a)
    <3>5. x \in Int /\ g \in 0 .. SYS - 1 /\ g < W  BY <1>1, <1>2, <3>1 DEF Gain
    <3>6. SysTime(t) = (x + g) % SYS /\ SysTime(s) = x % SYS  BY <1>4, <3>4
    <3> HIDE DEF x, g
    <3>7. (((x + g) % SYS) - (x % SYS)) % SYS = g  BY <1>1, <3>5, RemGap
    <3>8. QED  BY <2>1, <3>3, <3>5, <3>6, <3>7
  <2>2. CASE ~ (a > 0)
    <3>1. t = [s EXCEPT !.current = d]  BY <2>2 DEF Adjusted
    <3>2. /\ Same(s, t) /\ t.hrtcnt = s.hrtcnt /\ t.current = d /\ t.mono = s.mono
          /\ t.offset = s.offset
      <4> HIDE DEF d
      <4>1. QED  BY <1>3, <3>1 DEF TimeStates, Same
    <3>3. SysTime(t) = SysTime(s)
      <4>1. t \in TimeStates /\ t.hrtcnt = target_hrt_get_current(t)
        BY <3>2 DEF Same, target_hrt_get_current
      <4>2. QED  BY <1>4, <3>2, <4>1, Fresh
    <3>4. (SysTime(t) - SysTime(s)) % SYS < W
      <4> DEFINE x == s.offset + s.mono
      <4>1. x \in Int  BY <1>2
      <4> HIDE DEF x
      <4>2. x % SYS \in Int  BY <1>1, <4>1, Rem
      <4>3. SysTime(t) - SysTime(s) = 0  BY <1>4, <3>3, <4>2 DEF x
      <4>4. 0 % SYS = 0  BY <1>1, Small
      <4>5. QED  BY <1>1, <4>3, <4>4
    <3>5. ASSUME Ahead(s) - a < W PROVE Ahead(t) = Ahead(s) - a
      <4> DEFINE y == s.current + a
                 v == s.mono - s.current
      <4>1. y \in Int /\ v \in Int /\ -a \in Int /\ s.mono - y = v + (-a)  BY <1>2
      <4>2. Ahead(t) = (s.mono - (y % W)) % W  BY <3>2 DEF Ahead
      <4>3. Ahead(s) = v % W  BY DEF Ahead
      <4> HIDE DEF y, v
      <4>4. (s.mono - (y % W)) % W = (s.mono - y) % W  BY <1>1, <1>2, <4>1, RemDiff
      <4>5. (v % W) + (-a) \in 0 .. W - 1  BY <1>1, <1>2, <2>2, <3>5, <4>3
      <4>6. (v + (-a)) % W = (v % W) + (-a)  BY <1>1, <4>1, <4>5, RemShift
      <4>7. QED  BY <1>2, <4>1, <4>2, <4>3, <4>4, <4>6
    <3>6. QED  BY <2>2, <3>2, <3>4, <3>5
  <2>3. QED  BY <2>1, <2>2
<1>6. Elapsed(t) = Elapsed(s)  BY <1>5 DEF Same, Elapsed
<1>7. QED  BY <1>5, <1>6

\* An adjustment that is not refused leaves every event where it can be told apart, and
\* no later than it was but for the adjustment.
LEMMA AdjustedSound ==
  ASSUME NEW l \in 0 .. MAXLATE, NEW s, Sound(s, l), Elapsed(s) = s.raw % RATE,
         s.hrtcnt = target_hrt_get_current(s), "adj_tim" \in s.cfg.calls,
         NEW a \in -TMAX_ADJTIM .. TMAX_ADJTIM, ~check_adjtim(s, a), NEW t, t = Adjusted(s, a)
  PROVE  /\ Sound(t, l) /\ Same(s, t) /\ Elapsed(t) = s.raw % RATE
         /\ (SysTime(t) - SysTime(s)) % SYS < W
         /\ \A e \in Registered(s.heap) : Until(t, e) = Until(s, e) - a * RATE
<1>1. s \in TimeStates  BY DEF Sound
<1>2. /\ W \in Nat \ {0} /\ TMAX_ADJTIM \in Nat /\ RATE \in Nat \ {0} /\ MAXLATE \in Nat
      /\ TSTEP_HRTCNT \in Nat \ {0} /\ BOUNDARY_MARGIN \in Nat \ {0}
      /\ 3 * TMAX_ADJTIM + BOUNDARY_MARGIN + TSTEP_HRTCNT < W
  BY Numbers
<1>3. /\ Same(s, t) /\ t.hrtcnt = s.hrtcnt /\ t.current = (s.current + a) % W
      /\ Elapsed(t) = Elapsed(s) /\ (SysTime(t) - SysTime(s)) % SYS < W
      /\ a > 0 => Ahead(t) = Ahead(s) - a + Gain(s, a)
      /\ ~ (a > 0) => (Ahead(s) - a < W => Ahead(t) = Ahead(s) - a)
  BY <1>1, AdjustedTime
<1>4. t \in TimeStates /\ t.heap = s.heap /\ t.evttim = s.evttim /\ t.cfg = s.cfg /\ t.raw = s.raw
  BY <1>3 DEF Same
<1>5. a \in Int /\ a <= TMAX_ADJTIM /\ a >= -TMAX_ADJTIM /\ Ahead(s) \in Nat
      /\ Ahead(s) <= 2 * TMAX_ADJTIM
  BY <1>1, <1>2, Measures DEF Sound
<1>6. Ahead(t) <= 2 * TMAX_ADJTIM /\ Ahead(t) >= Ahead(s) - a
  <2>1. CASE a > 0  BY <1>2, <1>3, <1>5, <2>1 DEF Gain
  <2>2. CASE a = 0  BY <1>2, <1>3, <1>5, <2>2
  <2>3. CASE a < 0
    <3>1. ~ ((s.mono - s.current) % W >= TMAX_ADJTIM)  BY <1>5, <2>3 DEF check_adjtim
    <3>2. Ahead(s) < TMAX_ADJTIM  BY <1>2, <1>5, <3>1 DEF Ahead
    <3>3. QED  BY <1>2, <1>3, <1>5, <2>3, <3>2
  <2>4. QED  BY <1>5, <2>1, <2>2, <2>3
<1>7. 2 * TMAX_ADJTIM < BOUNDARY_MARGIN /\ Put(s) = 2 * TMAX_ADJTIM * RATE
      /\ 2 * TMAX_ADJTIM * RATE \in Nat
  <2>1. Overdue(s.cfg) < BOUNDARY_MARGIN * RATE  BY <1>1, FieldsOf, MarginAssumption
  <2>2. Overdue(s.cfg) = (1 + TSTEP_HRTCNT) * RATE + MAXLATE + 2 * TMAX_ADJTIM * RATE
        /\ Put(s) = 2 * TMAX_ADJTIM * RATE
    BY DEF Overdue, Put
  <2>3. (1 + TSTEP_HRTCNT) * RATE >= 0 /\ (1 + TSTEP_HRTCNT) * RATE \in Int
        /\ BOUNDARY_MARGIN * RATE \in Int
    BY <1>2
  <2> DEFINE p == 2 * TMAX_ADJTIM
  <2>4. p \in Nat /\ p * RATE \in Nat  BY <1>2
  <2>5. p * RATE < BOUNDARY_MARGIN * RATE  BY <1>2, <2>1, <2>2, <2>3, <2>4
  <2> HIDE DEF p
  <2>6. ~ (BOUNDARY_MARGIN * RATE <= p * RATE)  BY <2>3, <2>4, <2>5
  <2>7. p < BOUNDARY_MARGIN  BY <1>2, <2>4, <2>6, Scaled
  <2>8. QED  BY <2>2, <2>4, <2>7 DEF p
<1>8. ASSUME NEW e \in Registered(s.heap), a > 0
      PROVE  Distance(s, e) >= 1 - TMAX_ADJTIM /\ Distance(s, e) \in Int
  <2> DEFINE top == s.heap.node[1]
             x == s.evttim[top]
             u == x - (s.current - BOUNDARY_MARGIN)
  <2>1. s.heap.node # <<>> /\ Distance(s, top) <= Distance(s, e)  BY RootIsNearest
  <2>2. top \in Registered(s.heap)  BY <2>1, RootIsNearest
  <2>3. /\ top \in TMEVTB /\ Distance(s, top) \in Int /\ Distance(s, e) \in Int
        /\ Distance(s, top) > -BOUNDARY_MARGIN
        /\ Distance(s, top) + TMAX_ADJTIM + BOUNDARY_MARGIN < W
    BY <2>2, InWindow
  <2>4. x \in Int /\ s.current \in Int /\ u \in Int  BY <1>1, <1>2, <2>3, FieldsOf
  <2>5. ~ (Advance(s, x + TMAX_ADJTIM) <= Advance(s, s.current))
    BY <1>8, <2>1 DEF check_adjtim
  <2>6. Advance(s, s.current) = BOUNDARY_MARGIN
    <3>1. s.current - (s.current - BOUNDARY_MARGIN) = BOUNDARY_MARGIN  BY <1>2, <2>4
    <3>2. BOUNDARY_MARGIN \in 0 .. W - 1  BY <1>2
    <3>3. QED  BY <1>2, <3>1, <3>2, Small DEF Advance
  <2>7. Distance(s, top) = (u % W) - BOUNDARY_MARGIN  BY DEF Distance, Advance
  <2>8. Advance(s, x + TMAX_ADJTIM) = (u + TMAX_ADJTIM) % W
    <3> DEFINE y == x + TMAX_ADJTIM
    <3>1. y - (s.current - BOUNDARY_MARGIN) = u + TMAX_ADJTIM  BY <1>2, <2>4
    <3> HIDE DEF y, u
    <3>2. Advance(s, y) = (u + TMAX_ADJTIM) % W  BY <3>1 DEF Advance
    <3>3. QED  BY <3>2 DEF y
  <2> HIDE DEF u, x, top
  <2>9. u % W \in Int /\ (u % W) + TMAX_ADJTIM \in 0 .. W - 1
    <3>1. u % W \in 0 .. W - 1  BY <1>2, <2>4, Rem
    <3>2. QED  BY <1>2, <2>3, <2>7, <3>1
  <2>10. (u + TMAX_ADJTIM) % W = (u % W) + TMAX_ADJTIM
    <3>1. TMAX_ADJTIM \in Int  BY <1>2
    <3>2. QED  BY <1>2, <2>4, <2>9, <3>1, RemShift
  <2>11. ~ ((u % W) + TMAX_ADJTIM <= BOUNDARY_MARGIN)  BY <2>5, <2>6, <2>8, <2>10
  <2>12. Distance(s, top) >= 1 - TMAX_ADJTIM  BY <1>2, <2>3, <2>7, <2>9, <2>11
  <2>13. QED  BY <1>2, <2>1, <2>3, <2>12
<1>9. ASSUME NEW e \in Registered(s.heap)
      PROVE  Distance(s, e) - a >= -BOUNDARY_MARGIN /\ Distance(s, e) \in Int
  <2>1. Distance(s, e) > -BOUNDARY_MARGIN /\ Distance(s, e) \in Int  BY InWindow
  <2>2. CASE a > 0  BY <1>2, <1>5, <1>7, <1>8, <2>2
  <2>3. CASE ~ (a > 0)  BY <1>2, <1>5, <2>1, <2>3
  <2>4. QED  BY <2>2, <2>3
<1>10. /\ InOrder(t.heap, Keys(t))
       /\ \A e \in Registered(s.heap) :
            /\ Distance(t, e) = Distance(s, e) - a
            /\ Distance(t, e) + 3 * TMAX_ADJTIM + BOUNDARY_MARGIN < W + Ahead(t)
  <2>1. \A e \in Registered(s.heap) : Distance(s, e) - a >= -BOUNDARY_MARGIN  BY <1>9
  <2>2. /\ InOrder(t.heap, Keys(t))
        /\ \A e \in Registered(t.heap) :
             /\ Distance(t, e) = Distance(s, e) - a
             /\ Distance(t, e) + 3 * TMAX_ADJTIM + BOUNDARY_MARGIN < W + Ahead(t)
    BY <1>3, <1>4, <1>5, <1>6, <2>1, Shift
  <2>3. QED  BY <1>4, <2>2
<1>11. ASSUME NEW e \in Registered(s.heap)
       PROVE  Until(t, e) = Until(s, e) - a * RATE /\ Until(t, e) + RATE + l + Put(t) >= 0
  <2>1. Distance(t, e) = Distance(s, e) - a /\ Distance(s, e) \in Int  BY <1>9, <1>10
  <2>2. /\ (Distance(s, e) - a) * RATE = Distance(s, e) * RATE - a * RATE
        /\ Distance(s, e) * RATE \in Int /\ a * RATE \in Int
        /\ (Distance(s, e) - a) * RATE \in Int
    <3>1. Distance(s, e) - a \in Int  BY <1>5, <2>1
    <3>2. QED  BY <1>5, <2>1, <3>1, Scaled
  <2>3. s.raw % RATE \in 0 .. RATE - 1
    <3>1. s.raw \in Int  BY <1>1, FieldsOf
    <3>2. QED  BY <1>2, <3>1, Rem
  <2>4. Elapsed(s) \in Int /\ Elapsed(s) < RATE /\ Elapsed(s) >= 0  BY <1>2, <2>3
  <2>5. Until(t, e) = (Distance(s, e) - a) * RATE - Elapsed(s)
        /\ Until(s, e) = Distance(s, e) * RATE - Elapsed(s)
    BY <1>3, <2>1 DEF Until
  <2>6. Until(t, e) = Until(s, e) - a * RATE  BY <2>2, <2>4, <2>5
  <2>7. Put(t) = Put(s)  BY <1>4 DEF Put
  <2>8. CASE a > 0
    <3> DEFINE p == Distance(s, e) - a
               q == 1 - 2 * TMAX_ADJTIM
    <3>1. p \in Int /\ q \in Int /\ q <= p  BY <1>2, <1>5, <1>8, <2>1, <2>8
    <3>2. q * RATE = RATE - 2 * TMAX_ADJTIM * RATE  BY <1>2
    <3>3. Until(t, e) = p * RATE - Elapsed(s)  BY <2>5
    <3> HIDE DEF p, q
    <3>4. q * RATE <= p * RATE /\ p * RATE \in Int  BY <3>1, Scaled
    <3>5. QED  BY <1>2, <1>7, <2>4, <2>6, <2>7, <3>2, <3>3, <3>4
  <2>9. CASE ~ (a > 0)
    <3>1. a * RATE <= 0  BY <1>5, <2>9, Multiple
    <3>2. Until(s, e) + RATE + l + Put(s) >= 0 /\ Until(s, e) \in Int  BY InWindow DEF Sound
    <3>3. QED  BY <1>2, <1>7, <2>2, <2>6, <2>7, <3>1, <3>2
  <2>10. QED  BY <2>6, <2>8, <2>9
<1>12. Sound(t, l)
  <2>1. Elapsed(t) <= HRTCNT_BOUND * RATE + RATE + l  BY <1>3 DEF Sound
  <2>2. QED  BY <1>4, <1>6, <1>10, <1>11, <2>1 DEF Sound
<1>13. QED  BY <1>3, <1>11, <1>12

\* adj_tim: refused, in the interrupt of the timer, and elsewhere.
LEMMA AdjustStep ==
  ASSUME EventInv, NEW a \in -TMAX_ADJTIM .. TMAX_ADJTIM, adj_tim(a)
  PROVE  EventInv' /\ Monotone
<1> DEFINE now == update_current_evttim(tm)
           new == Adjusted(now, a)
<1>1. /\ "adj_tim" \in tm.cfg.calls /\ UNCHANGED <<in_signal_time, running, late>>
      /\ UNCHANGED <<exists, started>>
      /\ IF check_adjtim(now, a)
         THEN tm' = now /\ UNCHANGED left
         ELSE /\ tm' = IF in_signal_time THEN new ELSE set_hrt_event(new)
              /\ left' = [e \in TMEVTB |-> IF e \in Reg THEN left[e] - a * RATE ELSE left[e]]
  BY DEF adj_tim, Adjusted, Call
<1>2. /\ late \in 0 .. MAXLATE /\ tm \in TimeStates /\ Sound(tm, late) /\ Reg \subseteq TMEVTB
      /\ \A e \in Reg : left[e] \in Int /\ Until(tm, e) \in Int
  BY InvTypes DEF EventInv
<1>3. /\ Sound(now, late) /\ Same(tm, now) /\ Elapsed(now) = tm.raw % RATE
      /\ now.hrtcnt = target_hrt_get_current(tm)
      /\ \A e \in Reg : Until(now, e) = Until(tm, e)
      /\ TimerSet(tm) => TimerSet(now)
  BY <1>2, UpdatedSound DEF Reg
<1>4. /\ now \in TimeStates /\ now.heap = tm.heap /\ now.irq = tm.irq /\ now.cfg = tm.cfg
      /\ now.raw = tm.raw /\ SysTime(now) = SysTime(tm)
      /\ now.hrtcnt = target_hrt_get_current(now)
  <2>1. now \in TimeStates /\ now.heap = tm.heap /\ now.irq = tm.irq /\ now.cfg = tm.cfg
        /\ now.raw = tm.raw
    BY <1>3 DEF Same
  <2>2. SysTime(now) = SysTime(tm)  BY <1>2, <2>1, SysTimeOf
  <2>3. QED  BY <1>3, <2>1, <2>2 DEF target_hrt_get_current
<1> HIDE DEF now
<1>5. CASE check_adjtim(now, a)
  <2>1. tm' = now /\ left' = left  BY <1>1, <1>5
  <2>2. Registered(tm'.heap) = Reg /\ tm'.irq = tm.irq  BY <1>4, <2>1 DEF Reg
  <2>3. Sound(tm', late) /\ Armed(tm')  BY <1>3, <1>4, <2>1 DEF EventInv, Armed
  <2>4. \A e \in Registered(tm'.heap) :
          left'[e] <= Until(tm', e) /\ Until(tm', e) <= left'[e] + TSTEP_HRTCNT * RATE
    BY <1>3, <2>1, <2>2 DEF EventInv
  <2>5. Monotone  BY <1>2, <1>4, <2>1, SysTimeSame
  <2>6. Registered(tm'.heap) \ TMO = started' /\ started' \subseteq exists'
        /\ exists' \subseteq ALM \cup CYC /\ left' \in [TMEVTB -> Int]
        /\ (running # NULL => running \in exists' \/ running \in TMO)
    BY <1>1, <2>1, <2>2 DEF EventInv, StartedAreRegistered, DeletedAreSilent
  <2>7. QED  BY <1>1, <2>2, <2>3, <2>4, <2>5, <2>6, CallStep
<1>6. CASE ~check_adjtim(now, a)
  <2>1. /\ tm' = IF in_signal_time THEN new ELSE set_hrt_event(new)
        /\ left' = [e \in TMEVTB |-> IF e \in Reg THEN left[e] - a * RATE ELSE left[e]]
    BY <1>1, <1>6
  <2>2. /\ Sound(new, late) /\ Same(now, new) /\ Elapsed(new) = now.raw % RATE
        /\ (SysTime(new) - SysTime(now)) % SYS < W
        /\ \A e \in Registered(now.heap) : Until(new, e) = Until(now, e) - a * RATE
    BY <1>1, <1>2, <1>3, <1>4, <1>6, AdjustedSound
  <2>3. /\ new \in TimeStates /\ new.heap = tm.heap /\ new.irq = tm.irq /\ new.raw = tm.raw
        /\ (SysTime(new) - SysTime(tm)) % SYS < W /\ Elapsed(new) = new.raw % RATE
        /\ \A e \in Reg : Until(new, e) = Until(tm, e) - a * RATE
    BY <1>3, <1>4, <2>2 DEF Same, Reg
  <2> HIDE DEF new
  <2>4. /\ Sound(tm', late) /\ Armed(tm') /\ (tm.irq => tm'.irq) /\ tm'.heap = tm.heap
        /\ SysTime(tm') = SysTime(new) /\ \A e \in Reg : Until(tm', e) = Until(new, e)
    <3>1. CASE in_signal_time  BY <2>1, <2>2, <2>3, <3>1 DEF Armed
    <3>2. CASE ~in_signal_time
      <4>1. tm' = set_hrt_event(new)  BY <2>1, <3>2
      <4>2. /\ SameTimes(new, tm') /\ (new.irq => tm'.irq) /\ Sound(tm', late)
            /\ (tm'.irq \/ TimerSet(tm'))
            /\ \A e \in Registered(new.heap) : Until(tm', e) = Until(new, e)
        BY <1>2, <2>2, <2>3, <4>1, TimerIsSet
      <4>3. tm' \in TimeStates /\ ClockOf(tm') = ClockOf(new) /\ tm'.heap = tm.heap
        BY <2>3, <4>2 DEF SameTimes, ClockOf
      <4>4. SysTime(tm') = SysTime(new)  BY <2>3, <4>3, SysTimeOf
      <4>5. QED  BY <2>3, <4>2, <4>3, <4>4 DEF Armed, Reg
    <3>3. QED  BY <3>1, <3>2
  <2>5. Monotone  BY <2>3, <2>4 DEF Monotone
  <2>6. a * RATE \in Int /\ TSTEP_HRTCNT * RATE \in Int
    <3>1. a \in Int /\ RATE \in Nat /\ TSTEP_HRTCNT \in Nat  BY Numbers
    <3>2. QED  BY <3>1
  <2>7. left' \in [TMEVTB -> Int] /\ \A e \in Reg : left'[e] = left[e] - a * RATE
    <3>1. left \in [TMEVTB -> Int]  BY DEF EventInv
    <3> DEFINE f == [e \in TMEVTB |-> IF e \in Reg THEN left[e] - a * RATE ELSE left[e]]
    <3>2. \A e \in TMEVTB : f[e] \in Int  BY <2>6, <3>1
    <3>3. f \in [TMEVTB -> Int] /\ \A e \in Reg : f[e] = left[e] - a * RATE  BY <1>2, <3>2
    <3>4. QED  BY <2>1, <3>3
  <2>8. ASSUME NEW e \in Reg
        PROVE  left'[e] <= Until(tm', e) /\ Until(tm', e) <= left'[e] + TSTEP_HRTCNT * RATE
    <3>1. left[e] <= Until(tm, e) /\ Until(tm, e) <= left[e] + TSTEP_HRTCNT * RATE  BY DEF EventInv
    <3>2. left'[e] = left[e] - a * RATE /\ Until(tm', e) = Until(tm, e) - a * RATE
      BY <2>3, <2>4, <2>7
    <3>3. QED  BY <1>2, <2>6, <3>1, <3>2
  <2>9. Registered(tm'.heap) = Reg  BY <2>4 DEF Reg
  <2>10. Registered(tm'.heap) \ TMO = started' /\ started' \subseteq exists'
         /\ exists' \subseteq ALM \cup CYC
         /\ (running # NULL => running \in exists' \/ running \in TMO)
    BY <1>1, <2>9 DEF EventInv, StartedAreRegistered, DeletedAreSilent
  <2>11. QED  BY <1>1, <2>4, <2>5, <2>7, <2>8, <2>9, <2>10, CallStep
<1>7. QED  BY <1>5, <1>6

\* Alarms and cyclic handlers are started, stopped, created and deleted.
LEMMA HandlerStep ==
  ASSUME EventInv, NEW e \in ALM \cup CYC,
         \/ e \in ALM /\ \/ stp_alm(e) \/ acre_alm(e)
                         \/ \E t \in RELTIM : sta_alm(e, t)
         \/ e \in CYC /\ (sta_cyc(e) \/ stp_cyc(e) \/ \E sta \in BOOLEAN : acre_cyc(e, sta))
         \/ del(e)
  PROVE  EventInv' /\ Monotone
<1>1. CYCPHS \in Relative /\ RELTIM \subseteq Relative  BY DEF Relative
<1>2. exists \subseteq ALM \cup CYC /\ tm \in TimeStates  BY InvTypes DEF EventInv
<1>3. CASE stp_alm(e) \/ stp_cyc(e)
  <2>1. Stop(e) /\ exists' = exists /\ UNCHANGED <<in_signal_time, running, late>>
    BY <1>3 DEF stp_alm, stp_cyc, OnExisting, Call
  <2>2. QED  BY <2>1, StopStep
<1>4. CASE sta_cyc(e) \/ \E t \in RELTIM : sta_alm(e, t)
  <2>1. PICK t \in Relative : Start(e, t) /\ e \in exists /\ exists' = exists
                              /\ UNCHANGED <<in_signal_time, running, late>>
    BY <1>1, <1>4 DEF sta_alm, sta_cyc, OnExisting, Call
  <2>2. QED  BY <1>2, <2>1, StartStep
<1>5. CASE del(e)
  <2>1. /\ Stop(e) /\ exists' = exists \ {e} /\ ~in_signal_time
        /\ UNCHANGED <<in_signal_time, running, late>>
    BY <1>5 DEF del, TaskContext, Call
  <2>2. running = NULL  BY <2>1 DEF EventInv
  <2>3. QED  BY <2>1, <2>2, StopStep
<1>6. CASE acre_alm(e) \/ acre_cyc(e, FALSE)
  <2>1. /\ exists' = exists \cup {e} /\ UNCHANGED <<tm, started, left>>
        /\ UNCHANGED <<in_signal_time, running, late>>
    BY <1>6 DEF acre_alm, acre_cyc, Call
  <2>2. Monotone  BY <1>2, <2>1, SysTimeSame
  <2>3. EventInv'
    BY <2>1 DEF EventInv, StartedAreRegistered, DeletedAreSilent, Reg, Armed, Sound
  <2>4. QED  BY <2>2, <2>3
<1>7. CASE acre_cyc(e, TRUE)
  <2>1. /\ Start(e, CYCPHS) /\ exists' = exists \cup {e}
        /\ UNCHANGED <<in_signal_time, running, late>>
    BY <1>7 DEF acre_cyc, Call
  <2>2. QED  BY <1>1, <1>2, <2>1, StartStep
<1>8. QED  BY <1>3, <1>4, <1>5, <1>6, <1>7

\* The invariant is preserved by every step; only set_tim may turn the system time back.
LEMMA EventStep ==
  ASSUME EventInv, Next
  PROVE  EventInv' /\ (Monotone \/ \E systim \in SYSTIMS : set_tim(systim))
<1>1. CASE Tick  BY <1>1, TickStep
<1>2. CASE SignalTime  BY <1>2, SignalTimeStep
<1>3. CASE \E e \in TMO : wait_dequeue_tmevtb(e) \/ \E t \in RELTIM : make_wait_tmout(e, t)
  BY <1>3, WaitStep
<1>4. CASE \/ \E e \in ALM : stp_alm(e) \/ acre_alm(e) \/ \E t \in RELTIM : sta_alm(e, t)
           \/ \E e \in CYC : sta_cyc(e) \/ stp_cyc(e) \/ \E sta \in BOOLEAN : acre_cyc(e, sta)
           \/ \E e \in ALM \cup CYC : del(e)
  BY <1>4, HandlerStep
<1>5. CASE \E a \in -TMAX_ADJTIM .. TMAX_ADJTIM : adj_tim(a)  BY <1>5, AdjustStep
<1>6. CASE \E systim \in SYSTIMS : set_tim(systim)  BY <1>6, SetTimStep
<1>7. QED  BY <1>1, <1>2, <1>3, <1>4, <1>5, <1>6 DEF Next

\* A step that changes nothing.
LEMMA EventStutter == ASSUME EventInv, UNCHANGED tvars PROVE EventInv' /\ Monotone
<1>1. UNCHANGED <<tm, in_signal_time, exists, started, running, late, left>>  BY DEF tvars
<1>2. EventInv'
  BY <1>1 DEF EventInv, StartedAreRegistered, DeletedAreSilent, Reg, Armed, Sound
<1>3. Monotone  BY <1>1, InvTypes, SysTimeSame
<1>4. QED  BY <1>2, <1>3

----------------------------------------------------------------------------
(* The start.                                                              *)

\* The static cyclic handlers can be numbered, and each has a node of its own at the start.
LEMMA StartHeap ==
  ASSUME NEW c \in CFG, NEW h, h = InitialHeap(c)
  PROVE  /\ h \in TimeHeaps /\ Registered(h) = SCYC(c)
         /\ \A i \in 1 .. LastNode(h) : h.pos[h.node[i]] = i
<1> DEFINE S == SCYC(c)
           n == Cardinality(S)
           P(g) == /\ \A i \in DOMAIN g.node : g.pos[g.node[i]] = i
                   /\ \A e \in TMEVTB \ S : g.pos[e] = 0
<1>1. IsFiniteSet(S) /\ n \in Nat /\ S \subseteq TMEVTB
  <2>1. IsFiniteSet(CYC) /\ S \in SUBSET CYC  BY KindAssumption DEF SCYC
  <2>2. IsFiniteSet(S)  BY <2>1, FS_Subset
  <2>3. QED  BY <2>1, <2>2, FS_CardinalityType, KindsApart
<1>2. PICK f \in [1 .. n -> S] : /\ \A i, j \in 1 .. n : f[i] = f[j] => i = j
                                 /\ \A e \in S : \E i \in 1 .. n : f[i] = e
  BY <1>1, FS_CardinalityType DEF ExistsBijection, Bijection, Injection, Surjection, IsInjective
<1>3. h = CHOOSE g \in [node : [1 .. n -> S], pos : [TMEVTB -> 0 .. n]] : P(g)
  BY DEF InitialHeap
<1> HIDE DEF n, S
<1>4. \E g \in [node : [1 .. n -> S], pos : [TMEVTB -> 0 .. n]] : P(g)
  <2> DEFINE at(e) == CHOOSE i \in 1 .. n : f[i] = e
             p == [e \in TMEVTB |-> IF e \in S THEN at(e) ELSE 0]
  <2>1. \A e \in S : at(e) \in 1 .. n /\ f[at(e)] = e  BY <1>2
  <2> HIDE DEF at
  <2>2. p \in [TMEVTB -> 0 .. n]  BY <1>1, <2>1
  <2>3. \A i \in 1 .. n : p[f[i]] = i
    <3>1. \A i \in 1 .. n : f[i] \in S /\ f[i] \in TMEVTB  BY <1>1, <1>2
    <3>2. \A i \in 1 .. n : at(f[i]) = i  BY <1>2, <2>1, <3>1
    <3>3. QED  BY <3>1, <3>2
  <2>4. \A e \in TMEVTB \ S : p[e] = 0  OBVIOUS
  <2> HIDE DEF p
  <2> DEFINE g == [node |-> f, pos |-> p]
  <2>5. g \in [node : [1 .. n -> S], pos : [TMEVTB -> 0 .. n]] /\ P(g)
    BY <1>2, <2>2, <2>3, <2>4
  <2>6. QED  BY <2>5
<1>5. h \in [node : [1 .. n -> S], pos : [TMEVTB -> 0 .. n]] /\ P(h)  BY <1>3, <1>4
<1>6. /\ h.node \in [1 .. n -> S] /\ h.pos \in [TMEVTB -> 0 .. n]
      /\ \A i \in 1 .. n : h.pos[h.node[i]] = i
  BY <1>5
<1>7. h \in TimeHeaps /\ LastNode(h) = n
  <2>1. h.node \in [1 .. n -> TMEVTB]  BY <1>1, <1>6
  <2>2. h.node \in Seq(TMEVTB) /\ Len(h.node) = n  BY <1>1, <2>1
  <2>3. h.pos \in [TMEVTB -> Nat]  BY <1>1, <1>6
  <2>4. h = [node |-> h.node, pos |-> h.pos]  BY <1>5
  <2>5. QED  BY <2>2, <2>3, <2>4 DEF TimeHeaps, LastNode
<1>8. \A e \in S : \E i \in 1 .. n : h.node[i] = e
  <2>1. h.node \in Injection(1 .. n, S)
    <3> DEFINE g == h.node
    <3>1. g \in [1 .. n -> S] /\ \A i \in 1 .. n : h.pos[g[i]] = i  BY <1>6
    <3> HIDE DEF g
    <3>2. \A a, b \in DOMAIN g : g[a] = g[b] => a = b  BY <3>1, Zenon
    <3>3. g \in Injection(1 .. n, S)  BY <3>1, <3>2, Zenon DEF Injection, IsInjective
    <3>4. QED  BY <3>3 DEF g
  <2>2. IsFiniteSet(1 .. n) /\ Cardinality(1 .. n) = n
    <3>1. 1 \in Int /\ n \in Int  BY <1>1
    <3>2. QED  BY <1>1, <3>1, FS_Interval
  <2>3. Cardinality(1 .. n) = Cardinality(S)  BY <2>2 DEF n
  <2>4. h.node \in Surjection(1 .. n, S)  BY <1>1, <2>1, <2>3, FS_Injection
  <2>5. QED  BY <2>4 DEF Surjection
<1>9. Registered(h) = S
  <2>1. \A i \in 1 .. n : h.node[i] \in S  BY <1>6
  <2>2. Registered(h) = {h.node[i] : i \in 1 .. n}  BY <1>7 DEF Registered
  <2>3. QED  BY <1>8, <2>1, <2>2, Zenon
<1>10. QED  BY <1>6, <1>7, <1>9 DEF S

\* At the start the cyclic handlers wait for their phase, and the timer is set to it.
LEMMA EventInit == Init => EventInv
<1> SUFFICES ASSUME Init PROVE EventInv  OBVIOUS
<1>1. PICK c \in CFG, raw \in 0 .. RAW - 1 :
        /\ tm = set_hrt_event(AtStart(c, raw))
        /\ left = [e \in TMEVTB |-> IF e \in SCYC(c) THEN CYCPHS * RATE - (raw % RATE) ELSE 0]
        /\ exists = (ALM \cup CYC) \ c.acre /\ started = SCYC(c)
  BY DEF Init
<1>2. running = NULL /\ late = 0 /\ in_signal_time = FALSE  BY DEF Init
<1>3. /\ W \in Nat \ {0} /\ BOUNDARY_MARGIN \in Nat \ {0} /\ RATE \in Nat \ {0}
      /\ TMAX_ADJTIM \in Nat /\ TSTEP_HRTCNT \in Nat \ {0} /\ MAXLATE \in Nat
      /\ HRTCNT_BOUND * RATE \in Nat /\ RAW \in Nat \ {0} /\ SYS \in Nat \ {0}
      /\ TCYC_HRTCNT \in Nat \ {0}
  <2>1. HRTCNT_BOUND \in Nat /\ RATE \in Nat  BY Numbers
  <2>2. HRTCNT_BOUND * RATE \in Nat  BY <2>1
  <2>3. QED  BY <2>2, Numbers
<1>4. CYCPHS \in Nat /\ CYCPHS + TSTEP_HRTCNT + 3 * TMAX_ADJTIM + BOUNDARY_MARGIN < W
  BY TimeAssumption
<1> DEFINE s == AtStart(c, raw)
           h == InitialHeap(c)
           q == raw \div RATE
           f == [e \in TMEVTB |-> IF e \in SCYC(c) THEN CYCPHS ELSE 0]
           S == SCYC(c)
<1>5. h \in TimeHeaps /\ Registered(h) = S /\ \A i \in 1 .. LastNode(h) : h.pos[h.node[i]] = i
  BY StartHeap
<1>6. S \subseteq CYC /\ S \subseteq TMEVTB  BY KindsApart DEF SCYC
<1>7. f \in [TMEVTB -> 0 .. W - 1] /\ \A e \in S : f[e] = CYCPHS
  <2> HIDE DEF S
  <2>1. 0 \in 0 .. W - 1 /\ CYCPHS \in 0 .. W - 1  BY <1>3, <1>4
  <2>2. \A e \in TMEVTB : (IF e \in S THEN CYCPHS ELSE 0) \in 0 .. W - 1  BY <2>1
  <2>3. f = [e \in TMEVTB |-> IF e \in S THEN CYCPHS ELSE 0]  BY DEF S
  <2> HIDE DEF f
  <2>4. QED  BY <1>6, <2>2, <2>3
<1> HIDE DEF f, h
<1>8. q \in 0 .. TCYC_HRTCNT - 1 /\ (raw - q * RATE) % RAW = raw % RATE
      /\ raw % RATE \in 0 .. RATE - 1
  <2> DEFINE z == [cfg |-> c, raw |-> raw, cmp |-> 0, irq |-> FALSE, hrtcnt |-> 0,
                   current |-> 0, mono |-> 0, offset |-> 0, heap |-> h, evttim |-> f]
  <2>1. z \in TimeStates  BY <1>3, <1>5, <1>7 DEF TimeStates
  <2>2. z.raw = raw  OBVIOUS
  <2> HIDE DEF z
  <2>3. QED  BY <2>1, <2>2, Quotient DEF target_hrt_get_current
<1>9. s = [cfg |-> c, raw |-> raw, cmp |-> 0, irq |-> FALSE, hrtcnt |-> q,
           current |-> 0, mono |-> 0, offset |-> 0, heap |-> h, evttim |-> f]
  BY DEF AtStart, f, h
<1> HIDE DEF q, s
<1>10. /\ s \in TimeStates /\ s.raw = raw /\ s.hrtcnt = q /\ s.current = 0 /\ s.mono = 0
       /\ s.heap = h /\ s.evttim = f
  BY <1>3, <1>5, <1>7, <1>8, <1>9 DEF TimeStates
<1>11. Elapsed(s) = raw % RATE  BY <1>8, <1>10 DEF Elapsed
<1>12. Ahead(s) = 0
  <2>1. Ahead(s) = 0 % W  BY <1>10 DEF Ahead
  <2>2. QED  BY <1>3, <2>1, Small
<1>13. ASSUME NEW e \in S PROVE Distance(s, e) = CYCPHS /\ Keys(s)[e] = CYCPHS + BOUNDARY_MARGIN
  <2> DEFINE u == CYCPHS + BOUNDARY_MARGIN
  <2>1. CYCPHS - (s.current - BOUNDARY_MARGIN) = u  BY <1>3, <1>4, <1>10
  <2>2. u \in 0 .. W - 1  BY <1>3, <1>4
  <2>3. Advance(s, s.evttim[e]) = u % W  BY <1>7, <1>10, <2>1 DEF Advance
  <2> HIDE DEF u
  <2>4. Advance(s, s.evttim[e]) = u  BY <1>3, <2>2, <2>3, Small
  <2>5. e \in TMEVTB  BY <1>6
  <2>6. QED  BY <1>3, <1>4, <2>4, <2>5 DEF Distance, Keys, u
<1>14. InOrder(s.heap, Keys(s))
  <2>1. \A x \in 1 .. LastNode(h) : h.node[x] \in S  BY <1>5 DEF Registered
  <2>2. LastNode(h) \in Nat  BY <1>5, TheRegistered
  <2>3. \A x \in 2 .. LastNode(h) : x \in 1 .. LastNode(h) /\ x \div 2 \in 1 .. LastNode(h)
    BY <2>2
  <2>4. \A x \in 2 .. LastNode(h) : Keys(s)[h.node[x \div 2]] <= Keys(s)[h.node[x]]
    <3>1. CYCPHS + BOUNDARY_MARGIN \in Int  BY <1>3, <1>4
    <3>2. QED  BY <1>13, <2>1, <2>3, <3>1
  <2>5. QED  BY <1>5, <1>10, <2>4 DEF InOrder
<1>15. CYCPHS * RATE \in Nat /\ TSTEP_HRTCNT * RATE \in Nat  BY <1>3, <1>4
<1>16. \A e \in S : Until(s, e) = CYCPHS * RATE - (raw % RATE)  BY <1>11, <1>13 DEF Until
<1>17. Sound(s, 0)
  <2>1. Put(s) \in Nat  BY <1>10, Measures
  <2>2. \A e \in S : Until(s, e) + RATE + 0 + Put(s) >= 0  BY <1>3, <1>8, <1>15, <1>16, <2>1
  <2>3. \A e \in S : Distance(s, e) + 3 * TMAX_ADJTIM + BOUNDARY_MARGIN < W + Ahead(s)
    BY <1>3, <1>4, <1>12, <1>13
  <2>4. Elapsed(s) <= HRTCNT_BOUND * RATE + RATE + 0  BY <1>3, <1>8, <1>11
  <2>5. Ahead(s) <= 2 * TMAX_ADJTIM  BY <1>3, <1>12
  <2>6. Registered(s.heap) = S  BY <1>5, <1>10
  <2> HIDE DEF S
  <2>7. QED  BY <1>10, <1>14, <2>2, <2>3, <2>4, <2>5, <2>6 DEF Sound
<1>18. /\ SameTimes(s, tm) /\ Sound(tm, 0) /\ (tm.irq \/ TimerSet(tm))
       /\ \A e \in Registered(s.heap) : Until(tm, e) = Until(s, e)
  <2>1. 0 \in 0 .. MAXLATE  BY <1>3
  <2>2. tm = set_hrt_event(s)  BY <1>1 DEF s
  <2>3. Elapsed(s) = s.raw % RATE  BY <1>10, <1>11
  <2>4. QED  BY <1>17, <2>1, <2>2, <2>3, TimerIsSet
<1>19. Reg = S  BY <1>5, <1>10, <1>18 DEF Reg, SameTimes
<1>20. left \in [TMEVTB -> Int] /\ \A e \in S : left[e] = CYCPHS * RATE - (raw % RATE)
  <2>1. CYCPHS * RATE - (raw % RATE) \in Int  BY <1>3, <1>8, <1>15
  <2>2. left = [e \in TMEVTB |-> IF e \in S THEN CYCPHS * RATE - (raw % RATE) ELSE 0]  BY <1>1
  <2> HIDE DEF S
  <2> DEFINE d == CYCPHS * RATE - (raw % RATE)
  <2>3. d \in Int /\ 0 \in Int  BY <2>1
  <2> HIDE DEF d
  <2>4. left = [e \in TMEVTB |-> IF e \in S THEN d ELSE 0]  BY <2>2 DEF d
  <2>5. left \in [TMEVTB -> Int] /\ \A e \in S : left[e] = d  BY <1>6, <2>3, <2>4
  <2>6. QED  BY <2>5 DEF d
<1>21. \A e \in Reg : left[e] <= Until(tm, e) /\ Until(tm, e) <= left[e] + TSTEP_HRTCNT * RATE
  <2>1. \A e \in Reg : Until(tm, e) = CYCPHS * RATE - (raw % RATE)  BY <1>5, <1>10, <1>16, <1>18, <1>19
  <2>2. CYCPHS * RATE - (raw % RATE) \in Int  BY <1>3, <1>8, <1>15
  <2>3. QED  BY <1>15, <1>19, <1>20, <2>1, <2>2
<1>22. exists \subseteq ALM \cup CYC /\ started \subseteq exists
       /\ StartedAreRegistered /\ DeletedAreSilent
  <2>1. S = CYC \ c.acre /\ S \cap TMO = {}  BY <1>6, KindsApart DEF SCYC
  <2>2. exists = (ALM \cup CYC) \ c.acre /\ started = S  BY <1>1
  <2>3. QED  BY <1>2, <1>19, <2>1, <2>2 DEF StartedAreRegistered, DeletedAreSilent
<1>23. Armed(tm)  BY <1>18 DEF Armed
<1>24. late \in 0 .. MAXLATE /\ Sound(tm, late)  BY <1>2, <1>3, <1>18
<1>25. QED  BY <1>2, <1>20, <1>21, <1>22, <1>23, <1>24 DEF EventInv

----------------------------------------------------------------------------
(* What follows.                                                           *)

\* The event at the top is due no later than any other, but for the rounding.
LEMMA InvTop == EventInv => TopIsEarliest
<1> SUFFICES ASSUME EventInv PROVE TopIsEarliest  OBVIOUS
<1>1. /\ late \in 0 .. MAXLATE /\ tm \in TimeStates /\ Sound(tm, late)
      /\ \A d \in Reg : left[d] \in Int /\ Until(tm, d) \in Int
  BY InvTypes DEF EventInv
<1>2. ASSUME NEW e \in Reg PROVE left[Top] <= left[e] + TSTEP_HRTCNT * RATE
  <2> DEFINE t == Top
  <2>1. t = tm.heap.node[1] /\ e \in Registered(tm.heap)  BY DEF Top, Reg
  <2>2. tm.heap.node # <<>> /\ Distance(tm, t) <= Distance(tm, e)
    BY <1>1, <2>1, RootIsNearest
  <2>3. t \in Reg  BY <1>1, <2>1, <2>2, RootIsNearest DEF Reg
  <2> HIDE DEF t
  <2>4. Distance(tm, t) \in Int /\ Distance(tm, e) \in Int /\ Elapsed(tm) \in Int
    <3>1. t \in TMEVTB /\ e \in TMEVTB  BY <2>3, InvTypes
    <3>2. QED  BY <1>1, <3>1, Measures
  <2>5. Distance(tm, t) * RATE <= Distance(tm, e) * RATE
        /\ Distance(tm, t) * RATE \in Int /\ Distance(tm, e) * RATE \in Int
    BY <2>2, <2>4, Scaled
  <2>6. Until(tm, t) <= Until(tm, e)  BY <2>4, <2>5 DEF Until
  <2>7. left[t] <= Until(tm, t) /\ Until(tm, e) <= left[e] + TSTEP_HRTCNT * RATE
    BY <2>3 DEF EventInv
  <2>8. TSTEP_HRTCNT * RATE \in Int
    <3>1. TSTEP_HRTCNT \in Int /\ RATE \in Int  BY Numbers
    <3>2. QED  BY <3>1
  <2>9. left[t] <= left[e] + TSTEP_HRTCNT * RATE  BY <1>1, <2>3, <2>6, <2>7, <2>8
  <2>10. QED  BY <2>9 DEF t
<1>3. QED  BY <1>2 DEF TopIsEarliest

\* The state invariant of the run.
LEMMA InvEvents == EventInv => EventsOK
<1> SUFFICES ASSUME EventInv PROVE EventsOK  OBVIOUS
<1>1. TypeOK  BY InvTypes DEF EventInv, TypeOK
<1>2. QED  BY <1>1, InvTop DEF EventInv, EventsOK

\* No event is more overdue than the bounds allow.
LEMMA InvTimely == EventInv => Timely
<1> SUFFICES ASSUME EventInv, NEW e \in Reg PROVE left[e] >= -MaxOverdue  BY DEF Timely
<1>1. late \in 0 .. MAXLATE /\ MAXLATE \in Nat /\ late \in Int /\ tm \in TimeStates
      /\ left[e] \in Int /\ Until(tm, e) \in Int
  BY InvTypes
<1>2. Put(tm) \in Nat  BY <1>1, Measures
<1>3. RATE \in Nat /\ TSTEP_HRTCNT * RATE \in Int /\ (1 + TSTEP_HRTCNT) * RATE = RATE + TSTEP_HRTCNT * RATE
  <2>1. RATE \in Nat /\ TSTEP_HRTCNT \in Nat  BY Numbers
  <2>2. QED  BY <2>1
<1>4. MaxOverdue = RATE + TSTEP_HRTCNT * RATE + MAXLATE + Put(tm)
  BY <1>1, <1>2, <1>3 DEF MaxOverdue, Overdue, Put
<1>5. Until(tm, e) <= left[e] + TSTEP_HRTCNT * RATE /\ Until(tm, e) + RATE + late + Put(tm) >= 0
  BY DEF EventInv, Sound, Reg
<1>6. QED  BY <1>1, <1>2, <1>3, <1>4, <1>5

\* What is due by the heap has been due by the request.
LEMMA InvExpire == EventInv /\ Expire => left[Top] <= 0
<1> SUFFICES ASSUME EventInv, Expire PROVE left[Top] <= 0  OBVIOUS
<1> DEFINE t == Top
<1>1. /\ late \in 0 .. MAXLATE /\ tm \in TimeStates /\ Sound(tm, late)
      /\ \A d \in Reg : left[d] \in Int /\ Until(tm, d) \in Int
  BY InvTypes DEF EventInv
<1>2. Due(tm) /\ tm.heap.node # <<>> /\ t = tm.heap.node[1]
  BY DEF Expire, wait_tmout, call_alarm, call_cyclic, Expiring, Due, Top
<1> HIDE DEF t
<1>3. t \in Reg /\ Distance(tm, t) <= 0  BY <1>1, <1>2, RootIsNearest DEF Reg
<1>4. Distance(tm, t) \in Int /\ Elapsed(tm) \in Nat
  <2>1. t \in TMEVTB  BY <1>3, InvTypes
  <2>2. QED  BY <1>1, <2>1, Measures
<1>5. Distance(tm, t) * RATE <= 0 /\ Distance(tm, t) * RATE \in Int  BY <1>3, <1>4, Multiple
<1>6. Until(tm, t) <= 0  BY <1>4, <1>5 DEF Until
<1>7. left[t] <= Until(tm, t)  BY <1>3 DEF EventInv
<1>8. QED  BY <1>1, <1>3, <1>6, <1>7 DEF t

\* The invariant holds in every state.
LEMMA EventInductive == Spec => []EventInv
<1>1. EventInv /\ [Next]_tvars => EventInv'  BY EventStep, EventStutter
<1>2. QED  BY EventInit, <1>1, PTL DEF Spec

\* The heap holds the events it should, and the one at its top is due no later than any
\* other up to the rounding of one step, although the times wrap around and the boundary
\* they are compared with moves, for every width of the counters and every rate of the
\* hardware (time_event.c, EVTTIM_ADVANCE; alarm.c, cyclic.c).
THEOREM EventsAreInOrder == Spec => []EventsOK
BY EventInductive, InvEvents, PTL

\* No registered event is ever more overdue than what rounding, the setting of the timer,
\* the delay of its interrupt and the adjustments of the clock account for (time_event.c,
\* set_hrt_event, signal_time and check_adjtim).
THEOREM EventsAreTimely == Spec => []Timely
BY EventInductive, InvTimely, PTL

\* No task is timed out and no handler is called before the time it asked for has passed,
\* and only set_tim turns the system time back, whatever wraps around and however the clock
\* is adjusted (time_event.c, calc_current_evttim_ub, update_current_evttim).
THEOREM ClocksAreRight == Spec => ClocksOK
<1>1. ASSUME EventInv, [Next]_tvars PROVE [Expire => left[Top] <= 0]_tvars
  BY <1>1, InvExpire
<1>2. ASSUME EventInv, [Next]_tvars
      PROVE [(SystemTime' - SystemTime) % SYS < W \/ \E systim \in SYSTIMS : set_tim(systim)]_tvars
  BY <1>2, EventStep DEF Monotone, SysTime, SystemTime, Total
<1>3. QED  BY EventInductive, <1>1, <1>2, PTL DEF Spec, ClocksOK, NeverEarly, SystemTimeMonotone
=============================================================================
