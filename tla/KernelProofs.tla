----------------------------- MODULE KernelProofs -----------------------------
(***************************************************************************)
(* Theorems about the kernel for every number of tasks, priorities,        *)
(* semaphores and mutexes, every set of calls and every nesting of         *)
(* interrupts.  First what each operator of KernelOps and each internal    *)
(* function of task.c, wait.c and mutex.c does to the members of a queue,  *)
(* to the ready queue, the bitmap and p_schedtsk, and to the wait queues;  *)
(* then the service calls, on those lemmas.                                *)
(***************************************************************************)
EXTENDS Kernel, FiniteSetTheorems, SequenceTheorems, WellFoundedInduction, TLAPS

----------------------------------------------------------------------------
(* Queues: what unlinking, linking at either end and rotating do to the    *)
(* members, to the order of the first one, and to the absence of           *)
(* duplicates.                                                             *)

\* Unlinking a member removes it and nothing else, and leaves the first member
\* in its place if it is another one.
LEMMA QueueDelete ==
  ASSUME NEW T, NEW q \in Seq(T), NEW t, InQueue(q, t), Distinct(q)
  PROVE  /\ queue_delete(q, t) \in Seq(T)
         /\ Distinct(queue_delete(q, t))
         /\ \A x : InQueue(queue_delete(q, t), x) <=> InQueue(q, x) /\ x # t
         /\ q # <<>>
         /\ Head(q) # t => queue_delete(q, t) # <<>> /\ Head(queue_delete(q, t)) = Head(q)
<1> DEFINE at == CHOOSE i \in DOMAIN q : q[i] = t
           r == queue_delete(q, t)
<1>1. at \in 1 .. Len(q) /\ q[at] = t /\ Len(q) \in Nat /\ DOMAIN q = 1 .. Len(q)
  BY DEF InQueue
<1>2. r = [i \in 1 .. Len(q) - 1 |-> IF i < at THEN q[i] ELSE q[i + 1]]
  BY DEF queue_delete
<1> HIDE DEF at, r
<1>3. r \in Seq(T) /\ Len(r) = Len(q) - 1 /\ DOMAIN r = 1 .. Len(q) - 1
  <2>1. Len(q) - 1 \in Nat  BY <1>1
  <2>2. \A i \in 1 .. Len(q) - 1 : r[i] \in T  BY <1>1, <1>2
  <2>3. QED  BY <1>1, <1>2, <2>1, <2>2
<1>4. \A i \in 1 .. Len(q) - 1 : r[i] = IF i < at THEN q[i] ELSE q[i + 1]
  BY <1>2
<1>5. Distinct(r)
  BY <1>1, <1>3, <1>4, SMTT(40) DEF Distinct
<1>6. ASSUME NEW x  PROVE InQueue(r, x) <=> InQueue(q, x) /\ x # t
  <2>1. ASSUME InQueue(r, x)  PROVE InQueue(q, x) /\ x # t
    <3>1. PICK i \in 1 .. Len(q) - 1 : r[i] = x  BY <2>1, <1>3 DEF InQueue
    <3>2. CASE i < at  BY <3>1, <3>2, <1>1, <1>4 DEF InQueue, Distinct
    <3>3. CASE ~(i < at)
      <4>1. i + 1 \in DOMAIN q /\ i + 1 # at /\ q[i + 1] = x  BY <3>1, <3>3, <1>1, <1>4
      <4>2. QED  BY <4>1, <1>1 DEF InQueue, Distinct
    <3>4. QED  BY <3>2, <3>3
  <2>2. ASSUME InQueue(q, x), x # t  PROVE InQueue(r, x)
    <3>1. PICK i \in 1 .. Len(q) : q[i] = x  BY <2>2, <1>1 DEF InQueue
    <3>2. CASE i < at
      <4>1. i \in 1 .. Len(q) - 1 /\ r[i] = x  BY <3>1, <3>2, <1>1, <1>4
      <4>2. QED  BY <4>1, <1>3 DEF InQueue
    <3>3. CASE i > at
      <4>1. i - 1 \in 1 .. Len(q) - 1 /\ r[i - 1] = x  BY <3>1, <3>3, <1>1, <1>4
      <4>2. QED  BY <4>1, <1>3 DEF InQueue
    <3>4. QED  BY <3>1, <3>2, <3>3, <2>2, <1>1
  <2>3. QED  BY <2>1, <2>2
<1>7. ASSUME Head(q) # t  PROVE r # <<>> /\ Head(r) = Head(q)
  <2>1. 1 < at /\ 1 \in 1 .. Len(q) - 1  BY <1>7, <1>1
  <2>2. r[1] = q[1] /\ Len(r) > 0  BY <2>1, <1>3, <1>4
  <2>3. QED  BY <2>2, <1>3
<1>8. q # <<>>  BY <1>1
<1>9. QED  BY <1>3, <1>5, <1>6, <1>7, <1>8 DEF r

\* Linking a new member at the end keeps the first member of the queue.
LEMMA QueueAppend ==
  ASSUME NEW T, NEW q \in Seq(T), NEW t \in T, ~InQueue(q, t), Distinct(q)
  PROVE  /\ Append(q, t) \in Seq(T)
         /\ Distinct(Append(q, t))
         /\ \A x : InQueue(Append(q, t), x) <=> InQueue(q, x) \/ x = t
         /\ Append(q, t) # <<>>
         /\ Head(Append(q, t)) = IF q = <<>> THEN t ELSE Head(q)
<1> DEFINE r == Append(q, t)
<1>1. /\ Len(q) \in Nat /\ DOMAIN q = 1 .. Len(q)
      /\ r \in Seq(T) /\ Len(r) = Len(q) + 1 /\ DOMAIN r = 1 .. Len(q) + 1
      /\ r[Len(q) + 1] = t /\ \A i \in 1 .. Len(q) : r[i] = q[i]
  OBVIOUS
<1> HIDE DEF r
<1>2. Distinct(r)
  BY <1>1 DEF Distinct, InQueue
<1>3. ASSUME NEW x  PROVE InQueue(r, x) <=> InQueue(q, x) \/ x = t
  BY <1>1 DEF InQueue
<1>4. r # <<>> /\ Head(r) = IF q = <<>> THEN t ELSE Head(q)
  BY <1>1
<1>5. QED  BY <1>1, <1>2, <1>3, <1>4 DEF r

\* Linking a new member at the front makes it the first.
LEMMA QueuePrepend ==
  ASSUME NEW T, NEW q \in Seq(T), NEW t \in T, ~InQueue(q, t), Distinct(q)
  PROVE  /\ <<t>> \o q \in Seq(T)
         /\ Distinct(<<t>> \o q)
         /\ \A x : InQueue(<<t>> \o q, x) <=> InQueue(q, x) \/ x = t
         /\ <<t>> \o q # <<>>
         /\ Head(<<t>> \o q) = t
<1> DEFINE r == <<t>> \o q
<1>1. /\ Len(q) \in Nat /\ DOMAIN q = 1 .. Len(q)
      /\ r \in Seq(T) /\ Len(r) = Len(q) + 1 /\ DOMAIN r = 1 .. Len(q) + 1
      /\ r[1] = t /\ \A i \in 1 .. Len(q) : r[i + 1] = q[i]
  OBVIOUS
<1> HIDE DEF r
<1>2. \A i \in DOMAIN r : i = 1 \/ (i - 1 \in DOMAIN q /\ r[i] = q[i - 1])
  BY <1>1
<1>3. Distinct(r)
  BY <1>1, <1>2 DEF Distinct, InQueue
<1>4. ASSUME NEW x  PROVE InQueue(r, x) <=> InQueue(q, x) \/ x = t
  BY <1>1, <1>2 DEF InQueue
<1>5. r # <<>> /\ Head(r) = t
  BY <1>1
<1>6. QED  BY <1>1, <1>3, <1>4, <1>5 DEF r

\* Taking the first member out of a queue.
LEMMA QueueTail ==
  ASSUME NEW T, NEW q \in Seq(T), q # <<>>, Distinct(q)
  PROVE  /\ Head(q) \in T /\ InQueue(q, Head(q))
         /\ Tail(q) \in Seq(T)
         /\ Distinct(Tail(q))
         /\ \A x : InQueue(Tail(q), x) <=> InQueue(q, x) /\ x # Head(q)
<1> DEFINE r == Tail(q)
<1>1. /\ Len(q) \in Nat \ {0} /\ DOMAIN q = 1 .. Len(q) /\ Head(q) = q[1]
      /\ r \in Seq(T) /\ DOMAIN r = 1 .. Len(q) - 1
      /\ \A i \in 1 .. Len(q) - 1 : r[i] = q[i + 1]
  OBVIOUS
<1> HIDE DEF r
<1>2. Head(q) \in T /\ InQueue(q, Head(q))
  BY <1>1 DEF InQueue
<1>3. Distinct(r)
  <2>1. SUFFICES ASSUME NEW i \in 1 .. Len(q) - 1, NEW j \in 1 .. Len(q) - 1, r[i] = r[j]
                 PROVE  i = j
    BY <1>1 DEF Distinct
  <2>2. i + 1 \in DOMAIN q /\ j + 1 \in DOMAIN q /\ q[i + 1] = q[j + 1]  BY <1>1, <2>1
  <2>3. QED  BY <2>2 DEF Distinct
<1>4. ASSUME NEW x, InQueue(r, x)  PROVE InQueue(q, x) /\ x # Head(q)
  BY <1>1, <1>4 DEF InQueue, Distinct
<1>5. ASSUME NEW x, InQueue(q, x), x # Head(q)  PROVE InQueue(r, x)
  <2>1. PICK i \in 1 .. Len(q) : q[i] = x  BY <1>1, <1>5 DEF InQueue
  <2>2. i - 1 \in 1 .. Len(q) - 1 /\ r[i - 1] = x  BY <2>1, <1>1, <1>5
  <2>3. QED  BY <2>2, <1>1 DEF InQueue
<1>6. QED  BY <1>1, <1>2, <1>3, <1>4, <1>5 DEF r

\* Moving the first member to the end keeps the members.
LEMMA QueueRotate ==
  ASSUME NEW T, NEW q \in Seq(T), q # <<>>, Distinct(q)
  PROVE  /\ Append(Tail(q), Head(q)) \in Seq(T)
         /\ Distinct(Append(Tail(q), Head(q)))
         /\ \A x : InQueue(Append(Tail(q), Head(q)), x) <=> InQueue(q, x)
         /\ Append(Tail(q), Head(q)) # <<>>
<1>1. /\ Tail(q) \in Seq(T) /\ Head(q) \in T /\ Distinct(Tail(q)) /\ InQueue(q, Head(q))
      /\ \A x : InQueue(Tail(q), x) <=> InQueue(q, x) /\ x # Head(q)
  BY QueueTail
<1> DEFINE h == Head(q)
           r == Tail(q)
<1>2. r \in Seq(T) /\ h \in T /\ ~InQueue(r, h) /\ Distinct(r)
  BY <1>1
<1>3. \A x : InQueue(q, x) <=> InQueue(r, x) \/ x = h
  BY <1>1
<1> HIDE DEF r, h
<1>4. /\ Append(r, h) \in Seq(T) /\ Distinct(Append(r, h)) /\ Append(r, h) # <<>>
      /\ \A x : InQueue(Append(r, h), x) <=> InQueue(r, x) \/ x = h
  BY <1>2, QueueAppend
<1>5. QED  BY <1>3, <1>4 DEF r, h

----------------------------------------------------------------------------
(* The bitmap.                                                             *)

\* A set of priorities that is not empty has a highest one, and this is what
\* the search of the bitmap returns.
LEMMA PrimapSearch ==
  ASSUME NEW M \in SUBSET Nat, M # {}
  PROVE  primap_search(M) \in M /\ \A q \in M : primap_search(M) <= q
<1> DEFINE R == OpToRel(<, Nat)
<1>1. IsWellFoundedOn(R, Nat)
  BY NatLessThanWellFounded
<1>2. \A x, y \in Nat : <<y, x>> \in R <=> y < x
  BY DEF OpToRel
<1> HIDE DEF R
<1>3. PICK p \in M : \A y \in M : ~(<<y, p>> \in R)
  BY <1>1, WFMin
<1>4. ASSUME NEW q \in M  PROVE p <= q
  <2>1. p \in Nat /\ q \in Nat  OBVIOUS
  <2>2. ~(q < p)  BY <1>2, <1>3, <2>1, Zenon
  <2>3. QED  BY <2>1, <2>2
<1>5. QED
  BY <1>4 DEF primap_search

----------------------------------------------------------------------------
(* Wait queues in the order of the priorities.                             *)

Sorted(q, pri) == \A i, j \in DOMAIN q : i < j => pri[q[i]] <= pri[q[j]]

\* Unlinking a task, whose priority may have changed, keeps the order.
LEMMA SortedDelete ==
  ASSUME NEW q \in Seq(TSK), NEW t, InQueue(q, t), Distinct(q), NEW pri, NEW new,
         Sorted(q, pri), \A u \in TSK \ {t} : new[u] = pri[u]
  PROVE  Sorted(queue_delete(q, t), new)
<1> DEFINE at == CHOOSE i \in DOMAIN q : q[i] = t
           r == queue_delete(q, t)
<1>1. at \in 1 .. Len(q) /\ q[at] = t /\ Len(q) \in Nat /\ DOMAIN q = 1 .. Len(q)
  BY DEF InQueue
<1>2. r = [i \in 1 .. Len(q) - 1 |-> IF i < at THEN q[i] ELSE q[i + 1]]
  BY DEF queue_delete
<1> HIDE DEF at, r
<1>3. SUFFICES ASSUME NEW i \in 1 .. Len(q) - 1, NEW j \in 1 .. Len(q) - 1, i < j
               PROVE  new[r[i]] <= new[r[j]]
  BY <1>1, <1>2 DEF Sorted, r
<1>4. PICK x \in 1 .. Len(q), y \in 1 .. Len(q) :
        r[i] = q[x] /\ r[j] = q[y] /\ x < y /\ x # at /\ y # at
  <2>1. r[i] = q[IF i < at THEN i ELSE i + 1] /\ r[j] = q[IF j < at THEN j ELSE j + 1]
    BY <1>2
  <2>2. /\ (IF i < at THEN i ELSE i + 1) \in 1 .. Len(q) /\ (IF j < at THEN j ELSE j + 1) \in 1 .. Len(q)
        /\ (IF i < at THEN i ELSE i + 1) < (IF j < at THEN j ELSE j + 1)
        /\ (IF i < at THEN i ELSE i + 1) # at /\ (IF j < at THEN j ELSE j + 1) # at
    BY <1>1, <1>3
  <2>3. QED  BY <2>1, <2>2
<1>5. q[x] \in TSK \ {t} /\ q[y] \in TSK \ {t}
  BY <1>1, <1>4 DEF Distinct
<1>6. pri[q[x]] <= pri[q[y]]
  BY <1>1, <1>4 DEF Sorted
<1>7. QED  BY <1>4, <1>5, <1>6

\* Without its first task a queue is still in order.
LEMMA SortedTail ==
  ASSUME NEW q \in Seq(TSK), q # <<>>, NEW pri, Sorted(q, pri)
  PROVE  Sorted(Tail(q), pri)
<1>1. /\ Len(q) \in Nat \ {0} /\ DOMAIN q = 1 .. Len(q) /\ DOMAIN Tail(q) = 1 .. Len(q) - 1
      /\ \A i \in 1 .. Len(q) - 1 : Tail(q)[i] = q[i + 1]
  OBVIOUS
<1>2. SUFFICES ASSUME NEW i \in 1 .. Len(q) - 1, NEW j \in 1 .. Len(q) - 1, i < j
               PROVE  pri[q[i + 1]] <= pri[q[j + 1]]
  BY <1>1 DEF Sorted
<1>3. i + 1 \in DOMAIN q /\ j + 1 \in DOMAIN q /\ i + 1 < j + 1
  BY <1>1, <1>2
<1>4. QED  BY <1>3 DEF Sorted

\* queue_insert_tpri finds the place that keeps the order.
LEMMA InsertTpri ==
  ASSUME NEW q \in Seq(TSK), NEW t \in TSK, ~InQueue(q, t), Distinct(q),
         NEW pri \in [TSK -> PRI], Sorted(q, pri)
  PROVE  LET r == queue_insert_tpri(q, t, pri) IN
         /\ r \in Seq(TSK) /\ Distinct(r) /\ Sorted(r, pri)
         /\ \A x : InQueue(r, x) <=> InQueue(q, x) \/ x = t
<1> DEFINE n == Len(q)
           lower == {i \in DOMAIN q : pri[t] < pri[q[i]]}
           at == IF lower = {} THEN n + 1 ELSE CHOOSE i \in lower : \A j \in lower : i <= j
           r == queue_insert_tpri(q, t, pri)
<1>1. n \in Nat /\ DOMAIN q = 1 .. n /\ (\A i \in 1 .. n : q[i] \in TSK) /\ PRI \subseteq Nat
  BY DEF PRI
<1>2. (\A i \in 1 .. n : pri[q[i]] \in Nat) /\ pri[t] \in Nat
  BY <1>1
<1>3. lower \in SUBSET Nat /\ lower \subseteq 1 .. n
  BY <1>1
<1>4. r = [i \in 1 .. n + 1 |-> IF i < at THEN q[i] ELSE IF i = at THEN t ELSE q[i - 1]]
  BY DEF queue_insert_tpri, InsertBefore
<1>5. lower # {} => at \in lower /\ \A j \in lower : at <= j
  <2>1. lower # {} => at = primap_search(lower)  BY DEF primap_search
  <2> HIDE DEF lower, at
  <2>2. QED  BY <1>3, <2>1, PrimapSearch
<1>6. /\ at \in 1 .. n + 1
      /\ \A i \in 1 .. n : i < at => pri[q[i]] <= pri[t]
      /\ \A i \in 1 .. n : at <= i => pri[t] <= pri[q[i]]
  <2> DEFINE a == at
  <2>1. CASE lower = {}
    <3>1. a = n + 1 /\ \A i \in 1 .. n : ~(pri[t] < pri[q[i]])  BY <1>1, <2>1
    <3> HIDE DEF a, n
    <3>2. QED  BY <1>1, <1>2, <3>1 DEF a
  <2>2. CASE lower # {}
    <3>1. a \in lower /\ \A j \in lower : a <= j  BY <1>5, <2>2
    <3>2. a \in 1 .. n /\ pri[t] < pri[q[a]]  BY <1>1, <3>1
    <3>3. \A i \in 1 .. n : pri[t] < pri[q[i]] => a <= i  BY <1>1, <3>1
    <3> HIDE DEF a, lower, n
    <3>4. \A i \in 1 .. n : i < a => pri[q[i]] <= pri[t]  BY <1>1, <1>2, <3>2, <3>3
    <3>5. ASSUME NEW i \in 1 .. n, a <= i  PROVE pri[t] <= pri[q[i]]
      <4>1. pri[q[a]] <= pri[q[i]]
        <5>1. CASE a = i  BY <1>2, <5>1
        <5>2. CASE a < i  BY <1>1, <3>2, <5>2 DEF Sorted
        <5>3. QED  BY <3>2, <3>5, <5>1, <5>2
      <4>2. QED  BY <1>2, <3>2, <4>1
    <3>6. QED  BY <3>2, <3>4, <3>5, <1>1 DEF a
  <2>3. QED  BY <2>1, <2>2
<1> HIDE DEF at, lower, r, n
<1>7. /\ DOMAIN r = 1 .. n + 1 /\ r[at] = t
      /\ \A i \in 1 .. n + 1 : i < at => r[i] = q[i] /\ i \in 1 .. n
      /\ \A i \in 1 .. n + 1 : i > at => r[i] = q[i - 1] /\ i - 1 \in 1 .. n
  BY <1>1, <1>4, <1>6
<1>8. r \in Seq(TSK)
  <2>1. n + 1 \in Nat  BY <1>1
  <2>2. \A i \in 1 .. n + 1 : r[i] \in TSK
    <3>1. SUFFICES ASSUME NEW i \in 1 .. n + 1  PROVE r[i] \in TSK
      OBVIOUS
    <3>2. i < at \/ i = at \/ i > at  BY <1>1, <1>6
    <3>3. QED  BY <1>1, <1>7, <3>2
  <2>3. QED  BY <1>4, <2>1, <2>2
<1>9. Distinct(r)
  <2>1. SUFFICES ASSUME NEW i \in 1 .. n + 1, NEW j \in 1 .. n + 1, r[i] = r[j]  PROVE i = j
    BY <1>7 DEF Distinct
  <2>2. \A x \in 1 .. n : q[x] # t  BY <1>1 DEF InQueue
  <2>3. \A x, y \in 1 .. n : q[x] = q[y] => x = y  BY <1>1 DEF Distinct
  <2>4. CASE i = at \/ j = at  BY <1>1, <1>6, <1>7, <2>1, <2>2, <2>4
  <2>5. CASE i < at /\ j < at  BY <1>7, <2>1, <2>3, <2>5
  <2>6. CASE i > at /\ j > at  BY <1>1, <1>7, <2>1, <2>3, <2>6
  <2>7. CASE i < at /\ j > at
    <3>1. q[i] = q[j - 1] /\ i \in 1 .. n /\ j - 1 \in 1 .. n  BY <1>7, <2>1, <2>7
    <3>2. i = j - 1  BY <2>3, <3>1
    <3>3. QED  BY <1>6, <2>7, <3>2, <1>1
  <2>8. CASE i > at /\ j < at
    <3>1. q[i - 1] = q[j] /\ j \in 1 .. n /\ i - 1 \in 1 .. n  BY <1>7, <2>1, <2>8
    <3>2. i - 1 = j  BY <2>3, <3>1
    <3>3. QED  BY <1>6, <2>8, <3>2, <1>1
  <2>9. QED  BY <1>1, <1>6, <2>4, <2>5, <2>6, <2>7, <2>8
<1>10. ASSUME NEW x  PROVE InQueue(r, x) <=> InQueue(q, x) \/ x = t
  <2>1. ASSUME InQueue(r, x)  PROVE InQueue(q, x) \/ x = t
    <3>1. PICK i \in 1 .. n + 1 : r[i] = x  BY <1>7, <2>1 DEF InQueue
    <3>2. i < at \/ i = at \/ i > at  BY <1>1, <1>6
    <3>3. QED  BY <1>1, <1>7, <3>1, <3>2 DEF InQueue
  <2>2. ASSUME InQueue(q, x)  PROVE InQueue(r, x)
    <3>1. PICK i \in 1 .. n : q[i] = x  BY <1>1, <2>2 DEF InQueue
    <3>2. CASE i < at
      <4>1. i \in 1 .. n + 1 /\ r[i] = x  BY <1>1, <1>7, <3>1, <3>2
      <4>2. QED  BY <1>7, <4>1 DEF InQueue
    <3>3. CASE at <= i
      <4>1. i + 1 \in 1 .. n + 1 /\ i + 1 > at /\ (i + 1) - 1 = i  BY <1>1, <1>6, <3>3
      <4>2. r[i + 1] = x  BY <1>7, <3>1, <4>1
      <4>3. QED  BY <1>7, <4>1, <4>2 DEF InQueue
    <3>4. QED  BY <1>1, <1>6, <3>2, <3>3
  <2>3. InQueue(r, t)  BY <1>6, <1>7 DEF InQueue
  <2>4. QED  BY <2>1, <2>2, <2>3
<1>11. Sorted(r, pri)
  <2>1. SUFFICES ASSUME NEW i \in 1 .. n + 1, NEW j \in 1 .. n + 1, i < j
                 PROVE  pri[r[i]] <= pri[r[j]]
    BY <1>7 DEF Sorted
  <2>2. \A x, y \in 1 .. n : x < y => pri[q[x]] <= pri[q[y]]  BY <1>1 DEF Sorted
  <2>3. CASE j < at
    <3>1. i < at  BY <1>1, <1>6, <2>1, <2>3
    <3>2. QED  BY <1>7, <2>1, <2>2, <2>3, <3>1
  <2>4. CASE i > at
    <3>1. j > at /\ i - 1 < j - 1  BY <1>1, <1>6, <2>1, <2>4
    <3>2. QED  BY <1>7, <2>2, <2>4, <3>1
  <2>5. CASE j = at
    <3>1. i < at  BY <2>1, <2>5
    <3>2. QED  BY <1>6, <1>7, <2>5, <3>1
  <2>6. CASE i = at
    <3>1. j > at /\ at <= j - 1 BY <1>1, <1>6, <2>1, <2>6
    <3>2. QED  BY <1>6, <1>7, <2>6, <3>1
  <2>7. CASE i < at /\ j > at
    <3>1. r[i] = q[i] /\ i \in 1 .. n /\ r[j] = q[j - 1] /\ j - 1 \in 1 .. n  BY <1>7, <2>7
    <3>2. i < j - 1 \/ i = j - 1  BY <1>1, <1>6, <2>7
    <3>3. CASE i < j - 1  BY <2>2, <3>1, <3>3
    <3>4. CASE i = j - 1  BY <1>2, <3>1, <3>4
    <3>5. QED  BY <3>2, <3>3, <3>4
  <2>8. QED  BY <1>1, <1>6, <2>3, <2>4, <2>5, <2>6, <2>7
<1>12. QED  BY <1>8, <1>9, <1>10, <1>11 DEF r

----------------------------------------------------------------------------
(* The scheduling invariant of a kernel state in which the tasks of S are  *)
(* to be in the ready queue: inside a service call this is not yet, or no  *)
(* more, the set of the tasks whose state is runnable.                     *)

SchedInv(k, S) ==
  /\ k \in KState /\ S \subseteq TSK
  /\ Queued(k, S)
  /\ k.dspflg => IsTop(k, k.schedtsk)
  /\ ~k.dspflg => k.schedtsk = k.runtsk /\ k.schedtsk \in S
  /\ ~k.failed

\* r differs from k in the queues, the bitmap, p_schedtsk and the failure
\* record at most.
OnlyQueues(k, r) ==
  /\ r.tskatr = k.tskatr /\ r.ipriority = k.ipriority /\ r.tstat = k.tstat
  /\ r.bpriority = k.bpriority /\ r.priority = k.priority
  /\ r.actque = k.actque /\ r.wupque = k.wupque /\ r.raster = k.raster
  /\ r.enater = k.enater /\ r.winfo = k.winfo /\ r.wobj = k.wobj
  /\ r.lastmtx = k.lastmtx /\ r.pending = k.pending /\ r.free_tcb = k.free_tcb
  /\ r.runtsk = k.runtsk /\ r.enadsp = k.enadsp /\ r.ipm = k.ipm
  /\ r.dspflg = k.dspflg /\ r.tmevt = k.tmevt /\ r.cfg = k.cfg
  /\ r.wobjatr = k.wobjatr /\ r.wait_queue = k.wait_queue
  /\ r.free_semcb = k.free_semcb /\ r.semcnt = k.semcnt /\ r.isemcnt = k.isemcnt
  /\ r.maxsem = k.maxsem /\ r.free_mtxcb = k.free_mtxcb
  /\ r.ceilpri = k.ceilpri /\ r.loctsk = k.loctsk

\* The members of the ready queue: a task of S is in the queue of its priority,
\* so the first task of a queue is in S and has the priority of the queue.
LEMMA HeadOfQueue ==
  ASSUME NEW k \in KState, NEW S, Queued(k, S), NEW p \in PRI, k.ready_queue[p] # <<>>
  PROVE  /\ Head(k.ready_queue[p]) \in TSK
         /\ Head(k.ready_queue[p]) \in S
         /\ k.priority[Head(k.ready_queue[p])] = p
         /\ InQueue(k.ready_queue[p], Head(k.ready_queue[p]))
<1>1. k.ready_queue[p] \in Seq(TSK) /\ Distinct(k.ready_queue[p])
  BY DEF KState, Queued
<1>2. Head(k.ready_queue[p]) \in TSK /\ InQueue(k.ready_queue[p], Head(k.ready_queue[p]))
  BY <1>1, QueueTail
<1>3. QED
  BY <1>2 DEF Queued

\* The task p_schedtsk names is in the ready queue, at the head of its queue,
\* and no queue of a higher priority has a task; NULL means that S is empty.
LEMMA TopTask ==
  ASSUME NEW k \in KState, NEW S, S \subseteq TSK, Queued(k, S), NEW x, IsTop(k, x)
  PROVE  /\ x # NULL => /\ x \in S /\ x \in TSK
                        /\ k.ready_queue[k.priority[x]] # <<>>
                        /\ Head(k.ready_queue[k.priority[x]]) = x
                        /\ \A q \in PRI : q < k.priority[x] => k.ready_queue[q] = <<>>
         /\ x = NULL => S = {}
<1>1. CASE x = NULL
  <2>1. ASSUME NEW t \in S  PROVE FALSE
    <3>1. k.priority[t] \in PRI /\ t \in TSK  BY DEF KState
    <3>2. InQueue(k.ready_queue[k.priority[t]], t)  BY <3>1 DEF Queued
    <3>3. k.ready_queue[k.priority[t]] = <<>>  BY <1>1, <3>1 DEF IsTop
    <3>4. QED  BY <3>2, <3>3 DEF InQueue
  <2>2. QED  BY <1>1, <2>1
<1>2. CASE x # NULL
  <2>1. PICK p \in PRI : /\ k.ready_queue[p] # <<>> /\ Head(k.ready_queue[p]) = x
                         /\ \A q \in PRI : q < p => k.ready_queue[q] = <<>>
    BY <1>2 DEF IsTop
  <2>2. x \in TSK /\ x \in S /\ k.priority[x] = p
    BY <2>1, HeadOfQueue
  <2>3. QED  BY <1>2, <2>1, <2>2
<1>3. QED  BY <1>1, <1>2

\* search_schedtsk finds the task that should run.
LEMMA SearchSchedtsk ==
  ASSUME NEW k \in KState, NEW S, Queued(k, S), k.ready_primap # {}
  PROVE  search_schedtsk(k) \in TSK /\ IsTop(k, search_schedtsk(k))
<1> DEFINE p == primap_search(k.ready_primap)
<1>1. k.ready_primap \subseteq PRI /\ PRI \subseteq Nat
  BY TnumTpriAssumption DEF KState, PRI
<1>2. p \in k.ready_primap /\ \A q \in k.ready_primap : p <= q
  BY <1>1, PrimapSearch
<1> HIDE DEF p
<1>3. p \in PRI /\ k.ready_queue[p] # <<>>
  BY <1>1, <1>2 DEF Queued
<1>4. ASSUME NEW q \in PRI, q < p  PROVE k.ready_queue[q] = <<>>
  BY <1>1, <1>2, <1>3, <1>4 DEF Queued
<1>5. Head(k.ready_queue[p]) \in TSK
  BY <1>3, HeadOfQueue
<1>6. IsTop(k, Head(k.ready_queue[p]))
  BY <1>3, <1>4, <1>5, NullAssumption DEF IsTop
<1>7. QED  BY <1>5, <1>6 DEF search_schedtsk, p

\* The queues of r are those of k with t linked, at whichever end, into the one
\* of its priority p; the other tasks of S keep their priorities.
Linked(k, r, S, t, p) ==
  /\ p \in PRI /\ r.priority[t] = p /\ \A u \in S : r.priority[u] = k.priority[u]
  /\ \A x \in PRI \ {p} : r.ready_queue[x] = k.ready_queue[x]
  /\ r.ready_primap = k.ready_primap \cup {p}
  /\ Distinct(r.ready_queue[p]) /\ r.ready_queue[p] # <<>>
  /\ \A x : InQueue(r.ready_queue[p], x) <=> InQueue(k.ready_queue[p], x) \/ x = t

LEMMA Link ==
  ASSUME NEW k \in KState, NEW S, S \subseteq TSK, Queued(k, S), NEW t \in TSK, t \notin S,
         NEW r \in KState, NEW p, Linked(k, r, S, t, p)
  PROVE  Queued(r, S \cup {t})
<1> USE DEF Linked
<1>1. \A x \in PRI : Distinct(r.ready_queue[x])
  BY DEF Queued
<1>2. ASSUME NEW x \in PRI, NEW u \in TSK
      PROVE  InQueue(r.ready_queue[x], u) <=> u \in S \cup {t} /\ r.priority[u] = x
  <2>1. InQueue(k.ready_queue[x], u) <=> u \in S /\ k.priority[u] = x
    BY DEF Queued
  <2>2. CASE x = p  BY <2>1, <2>2
  <2>3. CASE x # p  BY <2>1, <2>3
  <2>4. QED  BY <2>2, <2>3
<1>3. ASSUME NEW x \in PRI  PROVE x \in r.ready_primap <=> r.ready_queue[x] # <<>>
  BY DEF Queued
<1>4. QED  BY <1>1, <1>2, <1>3 DEF Queued

\* The queues of r are those of k with t unlinked from the one of its priority
\* p, and the bitmap follows.
Unlinked(k, r, S, t, p) ==
  /\ p = k.priority[t] /\ \A u \in S \ {t} : r.priority[u] = k.priority[u]
  /\ r.ready_queue[p] = queue_delete(k.ready_queue[p], t)
  /\ \A x \in PRI \ {p} : r.ready_queue[x] = k.ready_queue[x]
  /\ r.ready_primap = IF r.ready_queue[p] = <<>> THEN k.ready_primap \ {p} ELSE k.ready_primap

\* Queues that were empty stay empty, and a first task other than t stays first.
KeepsHeads(k, r, t) ==
  \A x \in PRI : /\ k.ready_queue[x] = <<>> => r.ready_queue[x] = <<>>
                 /\ k.ready_queue[x] # <<>> /\ Head(k.ready_queue[x]) # t
                    => /\ r.ready_queue[x] # <<>>
                       /\ Head(r.ready_queue[x]) = Head(k.ready_queue[x])

LEMMA Unlink ==
  ASSUME NEW k \in KState, NEW S, S \subseteq TSK, Queued(k, S), NEW t \in S,
         NEW r \in KState, NEW p, Unlinked(k, r, S, t, p)
  PROVE  k.ready_queue[p] # <<>> /\ Queued(r, S \ {t}) /\ KeepsHeads(k, r, t)
<1> USE DEF Unlinked
<1> DEFINE q == r.ready_queue[p]
<1> DEFINE old == k.ready_queue[p]
<1>1. /\ t \in TSK /\ p \in PRI /\ old \in Seq(TSK) /\ Distinct(old) /\ InQueue(old, t)
  BY DEF KState, Queued
<1>2. /\ q \in Seq(TSK) /\ Distinct(q)
      /\ \A x : InQueue(q, x) <=> InQueue(old, x) /\ x # t
      /\ old # <<>>
      /\ Head(old) # t => q # <<>> /\ Head(q) = Head(old)
  BY <1>1, QueueDelete
<1>3. \A x \in PRI : Distinct(r.ready_queue[x])
  BY <1>2 DEF Queued
<1>4. ASSUME NEW x \in PRI, NEW u \in TSK
      PROVE  InQueue(r.ready_queue[x], u) <=> u \in S \ {t} /\ r.priority[u] = x
  <2>1. InQueue(k.ready_queue[x], u) <=> u \in S /\ k.priority[u] = x
    BY DEF Queued
  <2>2. CASE x = p  BY <1>2, <2>1, <2>2
  <2>3. CASE x # p  BY <2>1, <2>3
  <2>4. QED  BY <2>2, <2>3
<1>5. ASSUME NEW x \in PRI  PROVE x \in r.ready_primap <=> r.ready_queue[x] # <<>>
  <2>1. x \in k.ready_primap <=> k.ready_queue[x] # <<>>
    BY DEF Queued
  <2>2. CASE x = p  BY <1>1, <1>2, <2>1, <2>2
  <2>3. CASE x # p  BY <2>1, <2>3
  <2>4. QED  BY <2>2, <2>3
<1>6. Queued(r, S \ {t})
  BY <1>3, <1>4, <1>5 DEF Queued
<1>7. KeepsHeads(k, r, t)
  BY <1>1, <1>2 DEF KeepsHeads
<1>8. QED
  BY <1>2, <1>6, <1>7

\* make_runnable puts a task that is in no queue into the queue of its priority.
LEMMA MakeRunnable ==
  ASSUME NEW k, NEW S, SchedInv(k, S), NEW t \in TSK, t \notin S
  PROVE  /\ SchedInv(make_runnable(k, t), S \cup {t})
         /\ OnlyQueues(k, make_runnable(k, t))
<1> DEFINE p == k.priority[t]
           q == k.ready_queue[p]
           r == make_runnable(k, t)
<1>1. k \in KState /\ p \in PRI /\ q \in Seq(TSK) /\ S \subseteq TSK
  BY DEF SchedInv, KState
<1>2. ~InQueue(q, t) /\ Distinct(q)
  BY <1>1 DEF SchedInv, Queued
<1>3. /\ Append(q, t) \in Seq(TSK) /\ Distinct(Append(q, t)) /\ Append(q, t) # <<>>
      /\ \A x : InQueue(Append(q, t), x) <=> InQueue(q, x) \/ x = t
      /\ Head(Append(q, t)) = IF q = <<>> THEN t ELSE Head(q)
  BY <1>1, <1>2, QueueAppend
<1>4. /\ r.ready_queue = [k.ready_queue EXCEPT ![p] = Append(q, t)]
      /\ r.ready_primap = k.ready_primap \cup {p}
      /\ r.schedtsk = IF k.dspflg /\ (k.schedtsk = NULL \/ p < k.priority[k.schedtsk])
                      THEN t ELSE k.schedtsk
      /\ r.failed = k.failed
      /\ OnlyQueues(k, r)
  BY <1>1 DEF make_runnable, KState, OnlyQueues
<1>5. r \in KState
  <2>1. [k.ready_queue EXCEPT ![p] = Append(q, t)] \in [PRI -> Seq(TSK)]
    BY <1>1, <1>3 DEF KState
  <2>2. QED  BY ZenonT(60), <1>1, <2>1 DEF make_runnable, KState
<1>6. r.priority = k.priority /\ r.dspflg = k.dspflg /\ r.runtsk = k.runtsk
  BY <1>4 DEF OnlyQueues
<1> HIDE DEF r
<1>7. /\ Queued(r, S \cup {t})
      /\ r.ready_queue[p] = Append(q, t)
      /\ \A x \in PRI \ {p} : r.ready_queue[x] = k.ready_queue[x]
  <2>1. Queued(k, S) /\ k.ready_queue \in [PRI -> Seq(TSK)]  BY <1>1 DEF SchedInv, KState
  <2>2. r.priority[t] = p /\ \A u \in S : r.priority[u] = k.priority[u]  BY <1>6
  <2>3. /\ r.ready_queue[p] = Append(q, t)
        /\ \A x \in PRI \ {p} : r.ready_queue[x] = k.ready_queue[x]
    BY <1>1, <1>4, <2>1
  <2>4. Linked(k, r, S, t, p)
    BY <1>1, <1>3, <1>4, <2>2, <2>3 DEF Linked
  <2>5. Queued(r, S \cup {t})  BY <1>1, <1>5, <2>1, <2>4, Link
  <2>6. QED  BY <2>3, <2>5
<1> HIDE DEF p, q
<1>8. ASSUME k.dspflg  PROVE IsTop(r, r.schedtsk)
  <2>1. IsTop(k, k.schedtsk)  BY <1>8 DEF SchedInv
  <2>2. CASE k.schedtsk = NULL
    <3>1. \A x \in PRI : k.ready_queue[x] = <<>>  BY <2>1, <2>2 DEF IsTop
    <3>2. r.schedtsk = t /\ t # NULL  BY <1>4, <1>8, <2>2, NullAssumption
    <3>3. Head(r.ready_queue[p]) = t  BY <1>1, <1>3, <1>7, <3>1 DEF q
    <3>4. \A x \in PRI : x < p => r.ready_queue[x] = <<>>  BY <1>1, <1>7, <3>1 DEF PRI
    <3>5. QED  BY <1>1, <1>3, <1>7, <3>2, <3>3, <3>4 DEF IsTop
  <2>3. CASE k.schedtsk # NULL
    <3> DEFINE s == k.schedtsk
               o == k.priority[s]
    <3>1. /\ s \in TSK /\ k.ready_queue[o] # <<>> /\ Head(k.ready_queue[o]) = s
          /\ \A x \in PRI : x < o => k.ready_queue[x] = <<>>
      BY <1>1, <2>1, <2>3, TopTask DEF SchedInv
    <3>2. o \in PRI /\ o \in Nat /\ p \in Nat /\ PRI \subseteq Nat
      BY <1>1, <3>1, TnumTpriAssumption DEF KState, PRI
    <3> HIDE DEF o
    <3>3. CASE p < o
      <4>1. r.schedtsk = t /\ t # NULL /\ q = <<>>
        BY <1>1, <1>4, <1>8, <3>1, <3>3, NullAssumption DEF q, o
      <4>2. \A x \in PRI : x < p => r.ready_queue[x] = <<>>
        BY <1>1, <1>7, <3>1, <3>2, <3>3
      <4>3. QED  BY <1>1, <1>3, <1>7, <4>1, <4>2 DEF IsTop
    <3>4. CASE ~(p < o)
      <4>1. r.schedtsk = s  BY <1>4, <2>3, <3>4 DEF o
      <4>2. r.ready_queue[o] # <<>> /\ Head(r.ready_queue[o]) = s
        BY <1>3, <1>7, <3>1, <3>2 DEF q
      <4>3. \A x \in PRI : x < o => r.ready_queue[x] = <<>>
        BY <1>7, <3>1, <3>2, <3>4
      <4>4. QED  BY <2>3, <3>2, <4>1, <4>2, <4>3 DEF IsTop
    <3>5. QED  BY <3>3, <3>4
  <2>4. QED  BY <2>2, <2>3
<1>9. ~r.failed /\ (~r.dspflg => r.schedtsk = r.runtsk /\ r.schedtsk \in S \cup {t})
  BY <1>4, <1>6 DEF SchedInv
<1>10. QED
  BY <1>1, <1>4, <1>5, <1>6, <1>7, <1>8, <1>9 DEF SchedInv, r

\* make_non_runnable takes a task out of the ready queue.  It must not be
\* p_schedtsk while dispatching is impossible: that is the assert() of the code.
LEMMA MakeNonRunnable ==
  ASSUME NEW k, NEW S, SchedInv(k, S), NEW t \in S, ~k.dspflg => t # k.schedtsk
  PROVE  /\ SchedInv(make_non_runnable(k, t), S \ {t})
         /\ OnlyQueues(k, make_non_runnable(k, t))
<1> DEFINE p == k.priority[t]
           old == k.ready_queue[p]
           q == queue_delete(old, t)
           map == IF q = <<>> THEN k.ready_primap \ {p} ELSE k.ready_primap
           d == [k EXCEPT !.ready_queue[p] = q,
                          !.ready_primap = IF q = <<>> THEN @ \ {p} ELSE @]
           r == make_non_runnable(k, t)
<1>1. /\ k \in KState /\ t \in TSK /\ p \in PRI /\ old \in Seq(TSK) /\ S \subseteq TSK
      /\ Distinct(old) /\ InQueue(old, t)
  BY DEF SchedInv, KState, Queued
<1>2. q \in Seq(TSK)
  BY <1>1, QueueDelete
<1>3. [k.ready_queue EXCEPT ![p] = q] \in [PRI -> Seq(TSK)] /\ map \subseteq PRI
  BY <1>1, <1>2 DEF KState
<1>4. /\ d \in KState
      /\ d.ready_queue = [k.ready_queue EXCEPT ![p] = q] /\ d.ready_primap = map
      /\ d.priority = k.priority
  BY ZenonT(60), <1>3, <1>1 DEF KState
<1> HIDE DEF d
<1>5. /\ k.ready_queue[p] # <<>>
      /\ Queued(d, S \ {t})
      /\ d.ready_queue[p] = q
      /\ \A x \in PRI : k.ready_queue[x] = <<>> => d.ready_queue[x] = <<>>
      /\ \A x \in PRI : k.ready_queue[x] # <<>> /\ Head(k.ready_queue[x]) # t
             => d.ready_queue[x] # <<>> /\ Head(d.ready_queue[x]) = Head(k.ready_queue[x])
  <2>1. Queued(k, S) /\ k.ready_queue \in [PRI -> Seq(TSK)]  BY <1>1 DEF SchedInv, KState
  <2>2. \A u \in S \ {t} : d.priority[u] = k.priority[u]  BY <1>4
  <2>3. p = k.priority[t] /\ q = queue_delete(k.ready_queue[p], t)  OBVIOUS
  <2>4. d.ready_queue[p] = q /\ \A x \in PRI \ {p} : d.ready_queue[x] = k.ready_queue[x]
    BY <1>1, <1>4, <2>1
  <2>5. Unlinked(k, d, S, t, p)
    BY <1>4, <2>2, <2>3, <2>4 DEF Unlinked
  <2>6. k \in KState /\ d \in KState /\ S \subseteq TSK  BY <1>1, <1>4
  <2> HIDE DEF p, q, old, map
  <2>7. k.ready_queue[p] # <<>> /\ Queued(d, S \ {t}) /\ KeepsHeads(k, d, t)
    BY <2>1, <2>5, <2>6, Unlink
  <2>8. QED  BY <2>4, <2>7 DEF KeepsHeads
<1> DEFINE s == CASE k.schedtsk # t -> k.schedtsk
                  [] k.schedtsk = t /\ q # <<>> -> Head(q)
                  [] k.schedtsk = t /\ q = <<>> ->
                       IF d.ready_primap = {} THEN NULL ELSE search_schedtsk(d)
<1>7. r = [d EXCEPT !.schedtsk = s, !.failed = k.failed \/ (k.schedtsk = t /\ ~k.dspflg)]
  <2>1. d.schedtsk = k.schedtsk /\ d.failed = k.failed  BY <1>1 DEF d, KState
  <2>2. QED  BY <2>1, <1>4 DEF make_non_runnable, d, KState
<1>8. s \in TSK \cup {NULL}
  <2>1. k.schedtsk \in TSK \cup {NULL}  BY <1>1 DEF KState
  <2>2. q # <<>> => Head(q) \in TSK  BY <1>2
  <2>3. d.ready_primap # {} => search_schedtsk(d) \in TSK  BY <1>4, <1>5, SearchSchedtsk
  <2>4. QED  BY <2>1, <2>2, <2>3
<1>9. k.dspflg => IsTop(d, s)
  <2> SUFFICES ASSUME k.dspflg  PROVE IsTop(d, s)
    OBVIOUS
  <2>1. IsTop(k, k.schedtsk)  BY DEF SchedInv
  <2>2. k.schedtsk # NULL
    BY <1>1, <1>5, <2>1 DEF IsTop
  <2> DEFINE c == k.schedtsk
             o == k.priority[c]
  <2>3. /\ c \in TSK /\ c \in S /\ k.ready_queue[o] # <<>> /\ Head(k.ready_queue[o]) = c
        /\ \A x \in PRI : x < o => k.ready_queue[x] = <<>>
    BY <1>1, <2>1, <2>2, TopTask DEF SchedInv
  <2>4. o \in PRI
    BY <1>1, <2>3 DEF KState
  <2>5. CASE c # t
    <3>1. s = c  BY <2>5
    <3>2. d.ready_queue[o] # <<>> /\ Head(d.ready_queue[o]) = c
      BY <1>5, <2>3, <2>4, <2>5
    <3>3. \A x \in PRI : x < o => d.ready_queue[x] = <<>>
      BY <1>5, <2>3, <2>4
    <3>4. QED  BY <2>2, <2>4, <3>1, <3>2, <3>3 DEF IsTop
  <2>6. CASE c = t /\ q # <<>>
    <3>1. s = Head(q) /\ Head(q) \in TSK /\ Head(q) # NULL
      BY <1>2, <2>6, NullAssumption
    <3>2. \A x \in PRI : x < p => d.ready_queue[x] = <<>>
      BY <1>5, <2>3, <2>4, <2>6
    <3>3. QED  BY <1>1, <1>5, <2>6, <3>1, <3>2 DEF IsTop
  <2>7. CASE c = t /\ q = <<>>
    <3>1. CASE d.ready_primap = {}
      <4>1. \A x \in PRI : d.ready_queue[x] = <<>>  BY <1>5, <3>1 DEF Queued
      <4>2. QED  BY <2>7, <3>1, <4>1 DEF IsTop
    <3>2. CASE d.ready_primap # {}
      BY <1>4, <1>5, <2>7, <3>2, SearchSchedtsk
    <3>3. QED  BY <3>1, <3>2
  <2>8. QED  BY <2>5, <2>6, <2>7
<1> HIDE DEF s, r
<1>10. /\ r \in KState /\ OnlyQueues(k, r)
       /\ r.ready_queue = d.ready_queue /\ r.ready_primap = d.ready_primap
       /\ r.priority = d.priority /\ r.schedtsk = s
       /\ r.failed = (k.failed \/ (k.schedtsk = t /\ ~k.dspflg))
       /\ r.dspflg = k.dspflg /\ r.runtsk = k.runtsk
  <2>1. (k.failed \/ (k.schedtsk = t /\ ~k.dspflg)) \in BOOLEAN  BY <1>1 DEF KState
  <2>2. OnlyQueues(k, d) /\ d.dspflg = k.dspflg /\ d.runtsk = k.runtsk
    BY <1>1 DEF d, KState, OnlyQueues
  <2>3. r \in KState
    BY ZenonT(60), <1>4, <1>7, <1>8, <2>1 DEF KState
  <2>4. /\ r.ready_queue = d.ready_queue /\ r.ready_primap = d.ready_primap
        /\ r.priority = d.priority /\ r.schedtsk = s
        /\ r.failed = (k.failed \/ (k.schedtsk = t /\ ~k.dspflg))
        /\ OnlyQueues(d, r) /\ r.dspflg = d.dspflg /\ r.runtsk = d.runtsk
    BY <1>4, <1>7 DEF KState, OnlyQueues
  <2>5. QED  BY <2>2, <2>3, <2>4 DEF OnlyQueues
<1>11. Queued(r, S \ {t}) /\ (r.dspflg => IsTop(r, r.schedtsk))
  BY <1>5, <1>9, <1>10 DEF Queued, IsTop
<1>12. ~r.failed /\ (~r.dspflg => r.schedtsk = r.runtsk /\ r.schedtsk \in S \ {t})
  BY <1>10 DEF SchedInv, s
<1>13. QED
  BY <1>1, <1>10, <1>11, <1>12 DEF SchedInv, r

\* set_dspflg: p_schedtsk, which may have been left behind, is searched anew.
LEMMA SetDspflg ==
  ASSUME NEW k, NEW S, SchedInv(k, S), S # {}
  PROVE  /\ SchedInv(set_dspflg(k), S)
         /\ OnlyQueues([k EXCEPT !.dspflg = TRUE], set_dspflg(k))
<1> DEFINE r == set_dspflg(k)
           s == search_schedtsk(k)
<1>1. k \in KState /\ S \subseteq TSK /\ Queued(k, S)
  BY DEF SchedInv
<1>2. k.ready_primap # {}
  <2>1. PICK t \in S : t \in TSK /\ k.priority[t] \in PRI
    BY <1>1 DEF KState
  <2>2. InQueue(k.ready_queue[k.priority[t]], t)  BY <1>1, <2>1 DEF Queued
  <2>3. k.ready_queue[k.priority[t]] # <<>>  BY <2>2 DEF InQueue
  <2>4. QED  BY <1>1, <2>1, <2>3 DEF Queued
<1>3. s \in TSK /\ IsTop(k, s)
  BY <1>1, <1>2, SearchSchedtsk
<1>4. r = [k EXCEPT !.dspflg = TRUE, !.schedtsk = s]
  BY DEF set_dspflg
<1> HIDE DEF s, r
<1>5. r \in KState
  BY ZenonT(60), <1>1, <1>3, <1>4 DEF KState
<1>6. /\ r.ready_queue = k.ready_queue /\ r.ready_primap = k.ready_primap
      /\ r.priority = k.priority /\ r.dspflg = TRUE /\ r.schedtsk = s /\ r.failed = k.failed
  BY <1>1, <1>4 DEF KState
<1>7. OnlyQueues([k EXCEPT !.dspflg = TRUE], r)
  BY <1>1, <1>4 DEF KState, OnlyQueues
<1>8. Queued(r, S) /\ IsTop(r, s)
  BY <1>1, <1>3, <1>6 DEF Queued, IsTop
<1>9. ~r.failed
  BY <1>6 DEF SchedInv
<1>10. QED
  BY <1>1, <1>5, <1>6, <1>7, <1>8, <1>9 DEF SchedInv, r

\* Requeue moves a runnable task to the queue of its new priority, at the front
\* or at the end, and p_schedtsk follows.
LEMMA RequeueTask ==
  ASSUME NEW k, NEW S, SchedInv(k, S), NEW t \in S, NEW pri \in PRI, NEW mtxmode \in BOOLEAN
  PROVE  LET c == [k EXCEPT !.priority[t] = pri]
             r == Requeue(c, t, k.priority[t], pri, mtxmode)
         IN  SchedInv(r, S) /\ OnlyQueues(c, r)
<1> DEFINE c == [k EXCEPT !.priority[t] = pri]
           old == k.priority[t]
           q == queue_delete(c.ready_queue[old], t)
           d == [c EXCEPT !.ready_queue[old] = q,
                          !.ready_primap = IF q = <<>> THEN @ \ {old} ELSE @]
           nq == IF mtxmode THEN <<t>> \o d.ready_queue[pri] ELSE Append(d.ready_queue[pri], t)
           e == [d EXCEPT !.ready_queue[pri] = IF mtxmode THEN <<t>> \o @ ELSE Append(@, t),
                          !.ready_primap = @ \cup {pri}]
           s == CASE ~e.dspflg -> e.schedtsk
                  [] e.dspflg /\ e.schedtsk = t ->
                       IF pri >= old THEN search_schedtsk(e) ELSE e.schedtsk
                  [] e.dspflg /\ e.schedtsk # t ->
                       IF pri <= e.priority[e.schedtsk]
                       THEN Head(e.ready_queue[pri]) ELSE e.schedtsk
           r == Requeue(c, t, old, pri, mtxmode)
<1>1. /\ k \in KState /\ S \subseteq TSK /\ t \in TSK /\ old \in PRI /\ Queued(k, S)
      /\ k.ready_queue \in [PRI -> Seq(TSK)] /\ k.priority \in [TSK -> PRI]
  BY DEF SchedInv, KState
<1>2. /\ c \in KState /\ c.ready_queue = k.ready_queue /\ c.ready_primap = k.ready_primap
      /\ c.priority = [k.priority EXCEPT ![t] = pri]
      /\ c.dspflg = k.dspflg /\ c.schedtsk = k.schedtsk /\ c.failed = k.failed
      /\ c.runtsk = k.runtsk
  BY <1>1 DEF KState
<1> HIDE DEF c
<1>3. q \in Seq(TSK)
  <2>1. InQueue(k.ready_queue[old], t) /\ Distinct(k.ready_queue[old])
    BY <1>1 DEF Queued
  <2>2. QED  BY <1>1, <1>2, <2>1, QueueDelete
<1> HIDE DEF q
<1>4. /\ d \in KState
      /\ d.ready_queue = [k.ready_queue EXCEPT ![old] = q]
      /\ d.ready_primap = IF q = <<>> THEN k.ready_primap \ {old} ELSE k.ready_primap
      /\ d.priority = c.priority /\ d.dspflg = c.dspflg /\ d.schedtsk = c.schedtsk
      /\ d.failed = c.failed /\ d.runtsk = c.runtsk
  <2>1. [c.ready_queue EXCEPT ![old] = q] \in [PRI -> Seq(TSK)]  BY <1>1, <1>2, <1>3
  <2>2. (IF q = <<>> THEN c.ready_primap \ {old} ELSE c.ready_primap) \in SUBSET PRI
    BY <1>2 DEF KState
  <2>3. QED  BY ZenonT(60), <1>2, <2>1, <2>2 DEF KState
<1>5. OnlyQueues(c, d)
  BY <1>2 DEF OnlyQueues, KState
<1> HIDE DEF d
<1>6. Queued(d, S \ {t}) /\ KeepsHeads(k, d, t) /\ k.ready_queue[old] # <<>>
  <2>1. /\ d.ready_queue[old] = queue_delete(k.ready_queue[old], t)
        /\ \A x \in PRI \ {old} : d.ready_queue[x] = k.ready_queue[x]
    BY <1>1, <1>2, <1>4 DEF q
  <2>2. d.ready_primap = IF d.ready_queue[old] = <<>>
                         THEN k.ready_primap \ {old} ELSE k.ready_primap
    BY <1>1, <1>4
  <2>3. \A u \in S \ {t} : d.priority[u] = k.priority[u]
    BY <1>1, <1>2, <1>4
  <2>4. Unlinked(k, d, S, t, old)
    BY <2>1, <2>2, <2>3 DEF Unlinked
  <2>5. k \in KState /\ d \in KState /\ S \subseteq TSK /\ Queued(k, S)  BY <1>1, <1>4
  <2> HIDE DEF old
  <2>6. QED  BY <2>4, <2>5, Unlink
<1>7. /\ nq \in Seq(TSK) /\ Distinct(nq) /\ nq # <<>>
      /\ \A x : InQueue(nq, x) <=> InQueue(d.ready_queue[pri], x) \/ x = t
      /\ d.ready_queue[pri] = <<>> => Head(nq) = t
  <2> DEFINE dq == d.ready_queue[pri]
  <2>1. dq \in Seq(TSK) /\ Distinct(dq) /\ ~InQueue(dq, t)
    <3>1. d \in KState  BY <1>4
    <3>2. dq \in Seq(TSK)  BY <3>1 DEF KState
    <3>3. QED  BY <1>1, <1>6, <3>2 DEF Queued
  <2> HIDE DEF dq
  <2>2. /\ <<t>> \o dq \in Seq(TSK) /\ Distinct(<<t>> \o dq) /\ <<t>> \o dq # <<>>
        /\ \A x : InQueue(<<t>> \o dq, x) <=> InQueue(dq, x) \/ x = t
        /\ Head(<<t>> \o dq) = t
    BY <1>1, <2>1, QueuePrepend
  <2>3. /\ Append(dq, t) \in Seq(TSK) /\ Distinct(Append(dq, t)) /\ Append(dq, t) # <<>>
        /\ \A x : InQueue(Append(dq, t), x) <=> InQueue(dq, x) \/ x = t
        /\ dq = <<>> => Head(Append(dq, t)) = t
    BY <1>1, <2>1, QueueAppend
  <2>4. nq = IF mtxmode THEN <<t>> \o dq ELSE Append(dq, t)  BY DEF dq
  <2> HIDE DEF nq
  <2>5. CASE mtxmode   BY <2>2, <2>4, <2>5 DEF dq
  <2>6. CASE ~mtxmode  BY <2>3, <2>4, <2>6 DEF dq
  <2>7. QED  BY <2>5, <2>6
<1>8. /\ e.ready_queue = [d.ready_queue EXCEPT ![pri] = nq]
      /\ e.ready_primap = d.ready_primap \cup {pri}
      /\ e.priority = d.priority /\ e.dspflg = d.dspflg /\ e.schedtsk = d.schedtsk
      /\ e.failed = d.failed /\ e.runtsk = d.runtsk
      /\ OnlyQueues(d, e)
  BY <1>4 DEF KState, OnlyQueues
<1>9. e \in KState
  <2>1. [d.ready_queue EXCEPT ![pri] = nq] \in [PRI -> Seq(TSK)]
    BY <1>4, <1>7 DEF KState
  <2>2. QED  BY ZenonT(60), <1>4, <2>1 DEF KState
<1> HIDE DEF e, nq
<1>10. /\ e.ready_queue[pri] = nq
       /\ \A x \in PRI \ {pri} : e.ready_queue[x] = d.ready_queue[x]
  <2>1. d.ready_queue \in [PRI -> Seq(TSK)]  BY <1>4 DEF KState
  <2>2. QED  BY <1>8, <2>1
<1>11. Queued(e, S)
  <2>1. e.priority[t] = pri /\ \A u \in S \ {t} : e.priority[u] = d.priority[u]
    BY <1>1, <1>2, <1>4, <1>8
  <2>2. Linked(d, e, S \ {t}, t, pri)
    BY <1>7, <1>8, <1>10, <2>1 DEF Linked
  <2>3. S \ {t} \subseteq TSK /\ t \notin S \ {t} /\ (S \ {t}) \cup {t} = S  BY <1>1
  <2>4. Queued(e, (S \ {t}) \cup {t})
    BY <1>1, <1>4, <1>6, <1>9, <2>2, <2>3, Link
  <2>5. QED  BY <2>3, <2>4
<1>12. search_schedtsk(e) \in TSK /\ IsTop(e, search_schedtsk(e))
  <2>1. e.ready_primap # {}  BY <1>8
  <2>2. QED  BY <1>9, <1>11, <2>1, SearchSchedtsk
<1>13. Head(nq) \in TSK
  BY <1>7
<1>14. s \in TSK \cup {NULL}
  <2>1. e.schedtsk \in TSK \cup {NULL}  BY <1>9 DEF KState
  <2>2. QED  BY <1>10, <1>12, <1>13, <2>1
<1>15. e.dspflg => IsTop(e, s)
  <2> SUFFICES ASSUME e.dspflg  PROVE IsTop(e, s)
    OBVIOUS
  <2> DEFINE x == k.schedtsk
             o == k.priority[x]
  <2>1. e.schedtsk = x /\ k.dspflg  BY <1>2, <1>4, <1>8
  <2>2. IsTop(k, x)  BY <2>1 DEF SchedInv
  <2>3. /\ x # NULL => /\ x \in S /\ x \in TSK
                       /\ k.ready_queue[o] # <<>> /\ Head(k.ready_queue[o]) = x
                       /\ \A y \in PRI : y < o => k.ready_queue[y] = <<>>
        /\ x = NULL => S = {}
    BY <1>1, <2>2, TopTask
  <2>4. /\ x # NULL /\ x \in S /\ x \in TSK
        /\ k.ready_queue[o] # <<>> /\ Head(k.ready_queue[o]) = x
        /\ \A y \in PRI : y < o => k.ready_queue[y] = <<>>
    BY <2>3
  <2>5. o \in PRI /\ PRI \subseteq Nat /\ o \in Nat /\ pri \in Nat /\ old \in Nat
    BY <1>1, <2>4, TnumTpriAssumption DEF PRI
  <2> HIDE DEF x, o
  \* queues above both o and pri stay empty
  <2>6. \A y \in PRI : y < o /\ y < pri => e.ready_queue[y] = <<>>
    BY <1>6, <1>10, <2>4, <2>5 DEF KeepsHeads
  <2>7. CASE x = t /\ pri >= old
    BY <1>12, <2>1, <2>7
  <2>8. CASE x = t /\ pri < old
    <3>1. s = t /\ o = old  BY <2>1, <2>5, <2>8 DEF o
    <3>2. d.ready_queue[pri] = <<>>  BY <1>6, <2>4, <2>8, <3>1 DEF KeepsHeads
    <3>3. Head(e.ready_queue[pri]) = t /\ e.ready_queue[pri] # <<>>  BY <1>7, <1>10, <3>2
    <3>4. \A y \in PRI : y < pri => e.ready_queue[y] = <<>>
      BY <2>5, <2>6, <2>8, <3>1
    <3>5. QED  BY <2>4, <2>8, <3>1, <3>3, <3>4 DEF IsTop
  <2>9. CASE x # t
    <3>1. e.priority[x] = o  BY <1>1, <1>2, <1>4, <1>8, <2>4, <2>9 DEF o
    <3>2. CASE pri <= o
      <4>1. s = Head(e.ready_queue[pri]) /\ s \in TSK /\ e.ready_queue[pri] # <<>>
        BY <1>7, <1>10, <1>13, <2>1, <2>9, <3>1, <3>2
      <4>2. \A y \in PRI : y < pri => e.ready_queue[y] = <<>>
        BY <2>5, <2>6, <3>2
      <4> HIDE DEF s
      <4>3. QED  BY <4>1, <4>2, NullAssumption DEF IsTop
    <3>3. CASE ~(pri <= o)
      <4>1. s = x  BY <2>1, <2>9, <3>1, <3>3
      <4>2. e.ready_queue[o] # <<>> /\ Head(e.ready_queue[o]) = x
        BY <1>6, <1>10, <2>4, <2>5, <2>9, <3>3 DEF KeepsHeads
      <4>3. \A y \in PRI : y < o => e.ready_queue[y] = <<>>
        BY <2>5, <2>6, <3>3
      <4> HIDE DEF s
      <4>4. QED  BY <2>4, <2>5, <4>1, <4>2, <4>3 DEF IsTop
    <3>4. QED  BY <3>2, <3>3
  <2>10. QED  BY <2>5, <2>7, <2>8, <2>9
<1>16. r = [e EXCEPT !.schedtsk = s]
  BY DEF Requeue, d, e, q, nq
<1>17. ~e.dspflg => s = e.schedtsk
  OBVIOUS
<1> HIDE DEF s, r
<1>18. r \in KState
  BY ZenonT(60), <1>9, <1>14, <1>16 DEF KState
<1>19. /\ r.ready_queue = e.ready_queue /\ r.ready_primap = e.ready_primap
       /\ r.priority = e.priority /\ r.dspflg = e.dspflg /\ r.schedtsk = s
       /\ r.failed = e.failed /\ r.runtsk = e.runtsk /\ OnlyQueues(e, r)
  BY <1>9, <1>16 DEF KState, OnlyQueues
<1>20. Queued(r, S) /\ (r.dspflg => IsTop(r, r.schedtsk))
  BY <1>11, <1>15, <1>19 DEF Queued, IsTop
<1>21. ~r.failed /\ (~r.dspflg => r.schedtsk = r.runtsk /\ r.schedtsk \in S)
  BY <1>2, <1>4, <1>8, <1>17, <1>19 DEF SchedInv
<1>22. OnlyQueues(c, r)
  BY <1>5, <1>8, <1>19 DEF OnlyQueues
<1>23. SchedInv(r, S)
  BY <1>1, <1>18, <1>20, <1>21 DEF SchedInv
<1>24. QED
  BY <1>22, <1>23 DEF c, r

\* rotate_ready_queue.
LEMMA RotateReadyQueue ==
  ASSUME NEW k, NEW S, SchedInv(k, S), NEW p \in PRI
  PROVE  SchedInv(rotate_ready_queue(k, p), S) /\ OnlyQueues(k, rotate_ready_queue(k, p))
<1> DEFINE q == k.ready_queue[p]
           n == Append(Tail(q), Head(q))
           s == IF k.dspflg /\ k.schedtsk = Head(q) THEN Head(n) ELSE k.schedtsk
           r == rotate_ready_queue(k, p)
<1>1. /\ k \in KState /\ S \subseteq TSK /\ Queued(k, S)
      /\ k.ready_queue \in [PRI -> Seq(TSK)]
  BY DEF SchedInv, KState
<1>2. CASE Len(q) < 2
  <2>1. r = k  BY <1>2 DEF rotate_ready_queue
  <2>2. QED  BY <2>1 DEF OnlyQueues
<1>3. CASE ~(Len(q) < 2)
  <2>1. q \in Seq(TSK) /\ Distinct(q) /\ q # <<>>
    BY <1>1, <1>3 DEF Queued
  <2>2. /\ n \in Seq(TSK) /\ Distinct(n) /\ n # <<>>
        /\ \A x : InQueue(n, x) <=> InQueue(q, x)
    BY <2>1, QueueRotate
  <2>3. r = [k EXCEPT !.ready_queue[p] = n, !.schedtsk = s]
    BY <1>3 DEF rotate_ready_queue
  <2>4. s \in TSK \cup {NULL} /\ Head(n) \in TSK
    <3> HIDE DEF n
    <3>1. Head(n) \in TSK  BY <2>2
    <3>2. k.schedtsk \in TSK \cup {NULL}  BY <1>1 DEF KState
    <3>3. QED  BY <3>1, <3>2
  <2> HIDE DEF r, n, s
  <2>5. r \in KState
    <3>1. [k.ready_queue EXCEPT ![p] = n] \in [PRI -> Seq(TSK)]  BY <1>1, <2>2
    <3>2. QED  BY ZenonT(60), <1>1, <2>3, <2>4, <3>1 DEF KState
  <2>6. /\ r.ready_queue = [k.ready_queue EXCEPT ![p] = n]
        /\ r.ready_primap = k.ready_primap /\ r.priority = k.priority
        /\ r.dspflg = k.dspflg /\ r.schedtsk = s /\ r.failed = k.failed
        /\ r.runtsk = k.runtsk /\ OnlyQueues(k, r)
    BY <1>1, <2>3 DEF KState, OnlyQueues
  <2>7. /\ r.ready_queue[p] = n
        /\ \A x \in PRI \ {p} : r.ready_queue[x] = k.ready_queue[x]
    BY <1>1, <2>6
  <2>8. Queued(r, S)
    <3>1. \A x \in PRI : Distinct(r.ready_queue[x])
      BY <1>1, <2>2, <2>7 DEF Queued
    <3>2. ASSUME NEW x \in PRI, NEW u \in TSK
          PROVE  InQueue(r.ready_queue[x], u) <=> u \in S /\ r.priority[u] = x
      <4>1. InQueue(k.ready_queue[x], u) <=> u \in S /\ k.priority[u] = x
        BY <1>1 DEF Queued
      <4>2. CASE x = p  BY <2>2, <2>6, <2>7, <4>1, <4>2
      <4>3. CASE x # p  BY <2>6, <2>7, <4>1, <4>3
      <4>4. QED  BY <4>2, <4>3
    <3>3. ASSUME NEW x \in PRI  PROVE x \in r.ready_primap <=> r.ready_queue[x] # <<>>
      <4>1. x \in k.ready_primap <=> k.ready_queue[x] # <<>>  BY <1>1 DEF Queued
      <4>2. CASE x = p  BY <2>1, <2>2, <2>6, <2>7, <4>1, <4>2
      <4>3. CASE x # p  BY <2>6, <2>7, <4>1, <4>3
      <4>4. QED  BY <4>2, <4>3
    <3>4. QED  BY <3>1, <3>2, <3>3 DEF Queued
  <2>9. ASSUME k.dspflg  PROVE IsTop(r, s)
    <3> DEFINE x == k.schedtsk
               o == k.priority[x]
    <3>1. IsTop(k, x)  BY <2>9 DEF SchedInv
    <3>2. x # NULL  BY <2>1, <3>1 DEF IsTop
    <3>3. /\ x \in TSK /\ k.ready_queue[o] # <<>> /\ Head(k.ready_queue[o]) = x
          /\ \A y \in PRI : y < o => k.ready_queue[y] = <<>>
      BY <1>1, <3>1, <3>2, TopTask
    <3>4. o \in PRI  BY <1>1, <3>3 DEF KState
    <3>5. \A y \in PRI : y < o => r.ready_queue[y] = <<>>
      BY <2>1, <2>7, <3>3
    <3> HIDE DEF o
    <3>6. CASE o = p
      <4>1. s = Head(n) /\ s \in TSK  BY <2>4, <2>9, <3>3, <3>6 DEF s
      <4>2. QED  BY <2>2, <2>7, <3>4, <3>5, <3>6, <4>1, NullAssumption DEF IsTop
    <3>7. CASE o # p
      <4>1. Head(q) # x
        <5>1. k.priority[Head(q)] = p  BY <1>1, <2>1, HeadOfQueue
        <5>2. QED  BY <3>7, <5>1 DEF o
      <4>2. s = x  BY <4>1 DEF s
      <4>3. QED  BY <2>7, <3>2, <3>3, <3>4, <3>5, <3>7, <4>2 DEF IsTop
    <3>8. QED  BY <3>6, <3>7
  <2>10. ~r.failed /\ (~r.dspflg => r.schedtsk = r.runtsk /\ r.schedtsk \in S)
    BY <2>6 DEF SchedInv, s
  <2>11. QED
    BY <1>1, <2>5, <2>6, <2>8, <2>9, <2>10 DEF SchedInv, r
<1>4. QED  BY <1>2, <1>3

\* A change of other fields, and of the priorities of tasks that are not in the
\* ready queue, keeps the scheduling invariant.
SameSched(k, r, S) ==
  /\ r.ready_queue = k.ready_queue /\ r.ready_primap = k.ready_primap
  /\ r.schedtsk = k.schedtsk /\ r.runtsk = k.runtsk /\ r.dspflg = k.dspflg
  /\ r.failed = k.failed /\ \A u \in S : r.priority[u] = k.priority[u]

LEMMA OtherFields ==
  ASSUME NEW k, NEW S, SchedInv(k, S), NEW r \in KState, SameSched(k, r, S)
  PROVE  SchedInv(r, S)
<1>1. Queued(r, S)
  <2>1. Queued(k, S) /\ S \subseteq TSK  BY DEF SchedInv
  <2>2. ASSUME NEW x \in PRI, NEW u \in TSK
        PROVE  InQueue(r.ready_queue[x], u) <=> u \in S /\ r.priority[u] = x
    BY <2>1 DEF Queued, SameSched
  <2>3. QED  BY <2>1, <2>2 DEF Queued, SameSched
<1>2. r.dspflg => IsTop(r, r.schedtsk)
  BY DEF SchedInv, SameSched, IsTop
<1>3. QED
  BY <1>1, <1>2 DEF SchedInv, SameSched

----------------------------------------------------------------------------
(* The inductive invariant of the kernel data.  Inside a service call it   *)
(* holds but for some tasks: those being terminated, which are still in    *)
(* the state they were in but in no queue any more.                        *)

Ready(k) == {t \in TSK : TSTAT_RUNNABLE(k, t)}

\* The tasks that should be in the wait queue of o.
Waits(k, o) == {t \in TSK : TSTAT_WAIT_WOBJ(k, t) /\ k.wobj[t] = o}

\* The wait queue of o holds the tasks of S, each once, and in the order of their
\* priorities where the object asks for it.
QueueOK(k, o, S) ==
  /\ Distinct(k.wait_queue[o])
  /\ \A t \in TSK : InQueue(k.wait_queue[o], t) <=> t \in S
  /\ k.wobjatr[o] = "TA_NOEXS" => k.wait_queue[o] = <<>>
  /\ k.wobjatr[o] \in {"TA_TPRI", "TA_CEILING"} => Sorted(k.wait_queue[o], k.priority)

QueuesOK(k, X) == \A o \in OBJ : QueueOK(k, o, Waits(k, o) \ X)

\* The factor of a wait and the object waited for belong together.
WaitOK(k, t) ==
  /\ k.tstat[t].wai \in {"none", "SLP", "DLY", "SEM", "MTX"}
  /\ k.tstat[t].wai = "SEM" => k.wobj[t] \in SEM
  /\ k.tstat[t].wai = "MTX" => k.wobj[t] \in MTX

\* What holds of each task.
TaskOK(k, t) ==
  /\ WaitOK(k, t)
  /\ t \in k.tmevt <=> TSTAT_WAITING(k, t) /\ k.winfo[t] = "tmevtb"
  /\ TSTAT_WAITING(k, t) <=> k.winfo[t] \in {"null", "tmevtb"}
  /\ k.tskatr[t] = "TA_NOEXS" => TSTAT_DORMANT(k, t)
  /\ TSTAT_DORMANT(k, t) =>
       ~k.actque[t] /\ ~k.wupque[t] /\ k.pending[t] = IDLE /\ k.lastmtx[t] = <<>>
  /\ k.wupque[t] => k.tstat[t].wai # "SLP"

\* A free list holds the blocks of the objects of S that do not exist, each once.
FreeList(list, S, atr) ==
  /\ Distinct(list)
  /\ \A o \in S : InQueue(list, o) <=> atr[o] = "TA_NOEXS"

\* What holds of the free lists and of the flags that make dispatching possible.
SystemOK(k) ==
  /\ FreeList(k.free_tcb, TSK, k.tskatr)
  /\ FreeList(k.free_semcb, SEM, k.wobjatr)
  /\ FreeList(k.free_mtxcb, MTX, k.wobjatr)
  /\ k.dspflg <=> k.enadsp /\ ~k.ipm

\* The invariant without the tasks of X, and between two service calls.
GoodBut(k, X) ==
  /\ SchedInv(k, Ready(k) \ X)
  /\ \A t \in TSK \ X : TaskOK(k, t)
  /\ SystemOK(k)
  /\ QueuesOK(k, X)

Good(k) ==
  /\ SchedInv(k, Ready(k))
  /\ \A t \in TSK : TaskOK(k, t)
  /\ SystemOK(k)
  /\ QueuesOK(k, {})

LEMMA GoodAll ==
  ASSUME NEW k
  PROVE  Good(k) <=> GoodBut(k, {})
<1>1. Ready(k) \ {} = Ready(k)  OBVIOUS
<1>2. QED  BY <1>1 DEF Good, GoodBut

----------------------------------------------------------------------------
(* How the invariant is kept by a change that concerns one task.           *)

SameState(k, r, u) ==
  /\ r.tskatr[u] = k.tskatr[u] /\ r.tstat[u] = k.tstat[u] /\ r.winfo[u] = k.winfo[u]
  /\ r.actque[u] = k.actque[u] /\ r.wupque[u] = k.wupque[u] /\ r.pending[u] = k.pending[u]
  /\ r.wobj[u] = k.wobj[u] /\ r.lastmtx[u] = k.lastmtx[u]
  /\ u \in r.tmevt <=> u \in k.tmevt

SameTask(k, r, u) == SameState(k, r, u) /\ r.priority[u] = k.priority[u]

SameSystem(k, r) ==
  /\ r.free_tcb = k.free_tcb /\ r.tskatr = k.tskatr
  /\ r.dspflg = k.dspflg /\ r.enadsp = k.enadsp /\ r.ipm = k.ipm
  /\ r.wobjatr = k.wobjatr /\ r.free_semcb = k.free_semcb /\ r.free_mtxcb = k.free_mtxcb

\* u waits for an object in r as it does in k, or in neither.
SameWait(k, r, u) ==
  /\ TSTAT_WAIT_WOBJ(r, u) <=> TSTAT_WAIT_WOBJ(k, u)
  /\ TSTAT_WAIT_WOBJ(r, u) => r.wobj[u] = k.wobj[u] /\ r.priority[u] = k.priority[u]

\* A queue stays as it must be when it and the priorities in it stay.
LEMMA QueueKept ==
  ASSUME NEW k \in KState, NEW o \in OBJ, NEW S, QueueOK(k, o, S), NEW r,
         r.wait_queue[o] = k.wait_queue[o], r.wobjatr[o] = k.wobjatr[o],
         \A u \in S \cap TSK : r.priority[u] = k.priority[u],
         NEW T, \A u \in TSK : u \in T <=> u \in S
  PROVE  QueueOK(r, o, T)
<1> DEFINE q == k.wait_queue[o]
<1>1. q \in Seq(TSK)  BY DEF KState
<1>2. ASSUME NEW i \in DOMAIN q  PROVE r.priority[q[i]] = k.priority[q[i]]
  <2>1. q[i] \in TSK /\ InQueue(q, q[i])  BY <1>1 DEF InQueue
  <2>2. QED  BY <2>1 DEF QueueOK
<1>3. Sorted(q, k.priority) => Sorted(q, r.priority)
  BY <1>2 DEF Sorted
<1>4. QED  BY <1>3 DEF QueueOK

\* The wait queues stay; the tasks of X that are not in Y any more do not wait.
LEMMA QueuesKept ==
  ASSUME NEW k \in KState, NEW X, QueuesOK(k, X), NEW r, r.wait_queue = k.wait_queue,
         r.wobjatr = k.wobjatr, NEW Y, Y \subseteq X,
         \A u \in TSK \ X : SameWait(k, r, u), \A u \in X \ Y : ~TSTAT_WAIT_WOBJ(r, u)
  PROVE  QueuesOK(r, Y)
<1>1. SUFFICES ASSUME NEW o \in OBJ  PROVE QueueOK(r, o, Waits(r, o) \ Y)
  BY DEF QueuesOK
<1>2. QueueOK(k, o, Waits(k, o) \ X)
  BY DEF QueuesOK
<1>3. \A t \in TSK : t \in Waits(r, o) \ Y <=> t \in Waits(k, o) \ X
  BY DEF Waits, SameWait
<1>4. \A u \in (Waits(k, o) \ X) \cap TSK : r.priority[u] = k.priority[u]
  BY DEF Waits, SameWait
<1>5. QED  BY <1>2, <1>3, <1>4, QueueKept

\* A task whose data stay is as it must be if it was.
LEMMA SameTaskOK ==
  ASSUME NEW k, NEW r, NEW u, TaskOK(k, u), SameState(k, r, u)
  PROVE  TaskOK(r, u)
BY DEF TaskOK, WaitOK, SameState, TSTAT_WAITING, TSTAT_DORMANT

\* A change of t alone, after which t is as it must be; the tasks of X may be in
\* any state.
LEMMA OneTaskBut ==
  ASSUME NEW k, NEW X, GoodBut(k, X), NEW r \in KState, SchedInv(r, Ready(r) \ X), NEW t \in TSK,
         \A u \in TSK \ (X \cup {t}) : SameTask(k, r, u), t \notin X => TaskOK(r, t),
         SameSystem(k, r), QueuesOK(r, X)
  PROVE  GoodBut(r, X)
<1>1. ASSUME NEW u \in TSK \ (X \cup {t})  PROVE TaskOK(r, u)
  <2>1. TaskOK(k, u) /\ SameState(k, r, u)  BY DEF GoodBut, SameTask
  <2>2. QED  BY <2>1, SameTaskOK
<1>2. SystemOK(r)
  BY DEF GoodBut, SystemOK, SameSystem
<1>3. QED
  BY <1>1, <1>2 DEF GoodBut

LEMMA OneTask ==
  ASSUME NEW k, Good(k), NEW r \in KState, SchedInv(r, Ready(r)), NEW t \in TSK,
         \A u \in TSK \ {t} : SameTask(k, r, u), TaskOK(r, t), SameSystem(k, r),
         r.wait_queue = k.wait_queue, SameWait(k, r, t)
  PROVE  Good(r)
<1>1. GoodBut(k, {}) /\ SchedInv(r, Ready(r) \ {})
  <2>1. Ready(r) \ {} = Ready(r)  OBVIOUS
  <2>2. QED  BY <2>1, GoodAll
<1>2. \A u \in TSK \ ({} \cup {t}) : SameTask(k, r, u)  OBVIOUS
<1>3. QueuesOK(r, {})
  <2>1. \A u \in TSK \ {} : SameWait(k, r, u)
    BY DEF SameTask, SameState, SameWait, TSTAT_WAIT_WOBJ
  <2>2. k \in KState /\ QueuesOK(k, {}) /\ r.wobjatr = k.wobjatr
    BY DEF Good, SchedInv, SameSystem
  <2>3. QED  BY <2>1, <2>2, QueuesKept
<1>4. GoodBut(r, {})  BY <1>1, <1>2, <1>3, OneTaskBut
<1>5. QED  BY <1>4, GoodAll

\* A change of the ready queue alone leaves the wait queues as they must be.
LEMMA OnlyQueuesKept ==
  ASSUME NEW k \in KState, NEW X, QueuesOK(k, X), NEW r, OnlyQueues(k, r)
  PROVE  QueuesOK(r, X)
<1>1. \A u \in TSK \ X : SameWait(k, r, u)
  BY DEF OnlyQueues, SameWait, TSTAT_WAIT_WOBJ
<1>2. QED  BY <1>1, QueuesKept DEF OnlyQueues

\* A change that leaves the scheduling alone keeps the scheduling invariant.
LEMMA StaysReady ==
  ASSUME NEW k, Good(k), NEW r \in KState, SameSched(k, r, Ready(k)), Ready(r) = Ready(k)
  PROVE  SchedInv(r, Ready(r))
BY OtherFields DEF Good

\* A task that was not runnable becomes so.
LEMMA BecomesReady ==
  ASSUME NEW k, NEW X, SchedInv(k, Ready(k) \ X), NEW t \in TSK, t \notin Ready(k), t \notin X,
         NEW d \in KState, SameSched(k, d, Ready(k) \ X), Ready(d) = Ready(k) \cup {t}
  PROVE  /\ make_runnable(d, t) \in KState
         /\ SchedInv(make_runnable(d, t), Ready(make_runnable(d, t)) \ X)
         /\ OnlyQueues(d, make_runnable(d, t))
<1>1. SchedInv(d, Ready(k) \ X)
  BY OtherFields
<1>2. /\ SchedInv(make_runnable(d, t), (Ready(k) \ X) \cup {t})
      /\ OnlyQueues(d, make_runnable(d, t))
  BY <1>1, MakeRunnable
<1>3. Ready(make_runnable(d, t)) = Ready(d)
  BY <1>2 DEF OnlyQueues, Ready, TSTAT_RUNNABLE
<1>4. (Ready(k) \ X) \cup {t} = Ready(make_runnable(d, t)) \ X
  BY <1>3
<1>5. QED
  BY <1>2, <1>4 DEF SchedInv

\* A task that was runnable is so no more.
LEMMA LeavesReady ==
  ASSUME NEW k, Good(k), NEW t \in Ready(k), ~k.dspflg => t # k.schedtsk, NEW d \in KState,
         SameSched(k, d, Ready(k)), Ready(d) = Ready(k) \ {t}
  PROVE  /\ make_non_runnable(d, t) \in KState
         /\ SchedInv(make_non_runnable(d, t), Ready(make_non_runnable(d, t)))
         /\ OnlyQueues(d, make_non_runnable(d, t))
<1>1. SchedInv(d, Ready(k)) /\ (~d.dspflg => t # d.schedtsk)
  BY OtherFields DEF Good, SameSched
<1>2. /\ SchedInv(make_non_runnable(d, t), Ready(k) \ {t})
      /\ OnlyQueues(d, make_non_runnable(d, t))
  BY <1>1, MakeNonRunnable
<1>3. Ready(make_non_runnable(d, t)) = Ready(d)
  BY <1>2 DEF OnlyQueues, Ready, TSTAT_RUNNABLE
<1>4. QED
  BY <1>2, <1>3 DEF SchedInv

----------------------------------------------------------------------------
(* Wait queues: a task leaves, enters or changes its place.                *)

\* Taking the first entry is unlinking the first task.
LEMMA TailIsDelete ==
  ASSUME NEW T, NEW q \in Seq(T), q # <<>>, Distinct(q)
  PROVE  Tail(q) = queue_delete(q, Head(q))
<1> DEFINE at == CHOOSE i \in DOMAIN q : q[i] = Head(q)
<1>1. Len(q) \in Nat \ {0} /\ DOMAIN q = 1 .. Len(q) /\ q[1] = Head(q) /\ 1 \in DOMAIN q
  OBVIOUS
<1>2. at \in DOMAIN q /\ q[at] = q[1]  BY <1>1
<1>3. at = 1  BY <1>1, <1>2 DEF Distinct
<1> HIDE DEF at
<1>4. queue_delete(q, Head(q)) = [i \in 1 .. Len(q) - 1 |-> IF i < at THEN q[i] ELSE q[i + 1]]
  BY DEF queue_delete, at
<1>5. Tail(q) = [i \in 1 .. Len(q) - 1 |-> q[i + 1]]
  <2>1. /\ Tail(q) \in Seq(T) /\ DOMAIN Tail(q) = 1 .. Len(q) - 1
        /\ \A i \in 1 .. Len(q) - 1 : Tail(q)[i] = q[i + 1]
    BY <1>1
  <2> DEFINE r == Tail(q)
             n == Len(q) - 1
  <2>2. r \in [1 .. n -> T]
    <3>1. r \in [1 .. Len(r) -> T]  BY <2>1, LenProperties
    <3>2. Len(r) = n  BY <1>1
    <3>3. QED  BY <3>1, <3>2
  <2>3. \A i \in 1 .. n : r[i] = q[i + 1]  BY <2>1
  <2> HIDE DEF r, n
  <2>4. r = [i \in 1 .. n |-> q[i + 1]]  BY <2>2, <2>3
  <2>5. QED  BY <2>4 DEF r, n
<1>6. QED  BY <1>1, <1>3, <1>4, <1>5

\* t is taken out of the queue, whatever its priority is then.
LEMMA QueueLeft ==
  ASSUME NEW k \in KState, NEW o \in OBJ, NEW S, QueueOK(k, o, S), NEW t \in TSK, t \in S,
         NEW r, r.wait_queue[o] = queue_delete(k.wait_queue[o], t), r.wobjatr[o] = k.wobjatr[o],
         \A u \in TSK \ {t} : r.priority[u] = k.priority[u],
         NEW T, \A u \in TSK : u \in T <=> u \in S /\ u # t
  PROVE  QueueOK(r, o, T)
<1> DEFINE q == k.wait_queue[o]
<1>1. q \in Seq(TSK) /\ InQueue(q, t) /\ Distinct(q)
  BY DEF KState, QueueOK
<1>2. /\ queue_delete(q, t) \in Seq(TSK) /\ Distinct(queue_delete(q, t)) /\ q # <<>>
      /\ \A x : InQueue(queue_delete(q, t), x) <=> InQueue(q, x) /\ x # t
  BY <1>1, QueueDelete
<1>3. Sorted(q, k.priority) => Sorted(queue_delete(q, t), r.priority)
  <2> DEFINE old == k.priority
             new == r.priority
  <2>1. \A u \in TSK \ {t} : new[u] = old[u]  OBVIOUS
  <2> HIDE DEF old, new
  <2>2. Sorted(q, old) => Sorted(queue_delete(q, t), new)  BY <1>1, <2>1, SortedDelete
  <2>3. QED  BY <2>2 DEF old, new
<1>4. QED  BY <1>2, <1>3 DEF QueueOK

\* t is put into the queue, at the end or behind the tasks of its priority.
LEMMA QueueEntered ==
  ASSUME NEW k \in KState, NEW o \in OBJ, NEW S, QueueOK(k, o, S), NEW t \in TSK, t \notin S,
         NEW r, r.wobjatr[o] = k.wobjatr[o], k.wobjatr[o] # "TA_NOEXS",
         r.wait_queue[o] = IF k.wobjatr[o] \in {"TA_TPRI", "TA_CEILING"}
                           THEN queue_insert_tpri(k.wait_queue[o], t, r.priority)
                           ELSE Append(k.wait_queue[o], t),
         r.priority \in [TSK -> PRI], \A u \in TSK \ {t} : r.priority[u] = k.priority[u],
         NEW T, \A u \in TSK : u \in T <=> u \in S \/ u = t
  PROVE  QueueOK(r, o, T) /\ r.wait_queue[o] \in Seq(TSK)
<1> DEFINE q == k.wait_queue[o]
<1>1. q \in Seq(TSK) /\ ~InQueue(q, t) /\ Distinct(q)
  BY DEF KState, QueueOK
<1>2. Sorted(q, k.priority) => Sorted(q, r.priority)
  <2>1. ASSUME NEW i \in DOMAIN q  PROVE r.priority[q[i]] = k.priority[q[i]]
    <3>1. q[i] \in TSK /\ q[i] # t  BY <1>1 DEF InQueue
    <3>2. QED  BY <3>1
  <2>2. QED  BY <2>1 DEF Sorted
<1>3. CASE k.wobjatr[o] \in {"TA_TPRI", "TA_CEILING"}
  <2> DEFINE p == r.priority
             i == queue_insert_tpri(q, t, p)
  <2>1. p \in [TSK -> PRI] /\ Sorted(q, p)  BY <1>2, <1>3 DEF QueueOK
  <2> HIDE DEF p
  <2>2. i \in Seq(TSK) /\ Distinct(i) /\ Sorted(i, p) /\ \A x : InQueue(i, x) <=> InQueue(q, x) \/ x = t
    BY <1>1, <2>1, InsertTpri
  <2>3. r.wait_queue[o] = i  BY <1>3 DEF p
  <2> HIDE DEF i
  <2>4. QED  BY <2>2, <2>3 DEF QueueOK, p
<1>4. CASE k.wobjatr[o] \notin {"TA_TPRI", "TA_CEILING"}
  <2>1. /\ Append(q, t) \in Seq(TSK) /\ Distinct(Append(q, t))
        /\ \A x : InQueue(Append(q, t), x) <=> InQueue(q, x) \/ x = t
    BY <1>1, QueueAppend
  <2>2. QED  BY <1>4, <2>1 DEF QueueOK
<1>5. QED  BY <1>3, <1>4

\* The queues of the other objects stay, and with them who waits there.
LEMMA OtherQueues ==
  ASSUME NEW k \in KState, NEW X, QueuesOK(k, X), NEW o \in OBJ, NEW r, NEW Y,
         QueueOK(r, o, Waits(r, o) \ Y),
         \A x \in OBJ \ {o} : /\ r.wait_queue[x] = k.wait_queue[x] /\ r.wobjatr[x] = k.wobjatr[x]
                              /\ \A u \in TSK : u \in Waits(r, x) \ Y <=> u \in Waits(k, x) \ X
                              /\ \A u \in Waits(k, x) \ X : r.priority[u] = k.priority[u]
  PROVE  QueuesOK(r, Y)
<1>1. SUFFICES ASSUME NEW x \in OBJ \ {o}  PROVE QueueOK(r, x, Waits(r, x) \ Y)
  BY DEF QueuesOK
<1>2. QueueOK(k, x, Waits(k, x) \ X)  BY DEF QueuesOK
<1>3. \A u \in (Waits(k, x) \ X) \cap TSK : r.priority[u] = k.priority[u]  OBVIOUS
<1>4. QED  BY <1>2, <1>3, QueueKept

\* The object that a task waits for.
LEMMA WaitObject ==
  ASSUME NEW k, NEW t, WaitOK(k, t), TSTAT_WAIT_WOBJ(k, t)
  PROVE  k.wobj[t] \in OBJ /\ k.wobj[t] \in SEM \cup MTX /\ TSTAT_WAIT_WOBJCB(k, t)
BY DEF WaitOK, TSTAT_WAIT_WOBJ, TSTAT_WAIT_WOBJCB, FACTOR, OBJ

\* A task leaves the queue it waits in, before its state changes.
LEMMA LeaveQueue ==
  ASSUME NEW k \in KState, NEW X, QueuesOK(k, X), NEW t \in TSK, t \notin X, WaitOK(k, t)
  PROVE  LET r == wait_dequeue_wobj(k, t) IN
         /\ r \in KState /\ QueuesOK(r, X \cup {t})
         /\ \E wq \in [OBJ -> Seq(TSK)] : r = [k EXCEPT !.wait_queue = wq]
<1> DEFINE r == wait_dequeue_wobj(k, t)
<1>1. CASE TSTAT_WAIT_WOBJ(k, t)
  <2> DEFINE o == k.wobj[t]
             q == k.wait_queue[o]
             wq == [k.wait_queue EXCEPT ![o] = queue_delete(q, t)]
  <2>1. o \in OBJ  BY <1>1, WaitObject
  <2> HIDE DEF o
  <2>2. q \in Seq(TSK) /\ k.wait_queue \in [OBJ -> Seq(TSK)]  BY <2>1 DEF KState
  <2>3. QueueOK(k, o, Waits(k, o) \ X) /\ t \in Waits(k, o) \ X
    BY <1>1, <2>1 DEF QueuesOK, Waits, o
  <2>4. InQueue(q, t) /\ Distinct(q)  BY <2>3 DEF QueueOK
  <2>5. queue_delete(q, t) \in Seq(TSK)  BY <2>2, <2>4, QueueDelete
  <2>6. wq \in [OBJ -> Seq(TSK)] /\ wq[o] = queue_delete(q, t) /\ \A x \in OBJ \ {o} : wq[x] = k.wait_queue[x]
    BY <2>1, <2>2, <2>5
  <2>7. r = [k EXCEPT !.wait_queue = wq]
    BY <1>1 DEF wait_dequeue_wobj, o
  <2> HIDE DEF wq, r
  <2>8. r \in KState  BY ZenonT(60), <2>6, <2>7 DEF KState
  <2>9. /\ r.wait_queue = wq /\ r.wobjatr = k.wobjatr /\ r.priority = k.priority
        /\ r.tstat = k.tstat /\ r.wobj = k.wobj
    BY <2>7 DEF KState
  <2>10. QueueOK(r, o, Waits(r, o) \ (X \cup {t}))
    <3>1. \A u \in TSK : u \in Waits(r, o) \ (X \cup {t}) <=> u \in Waits(k, o) \ X /\ u # t
      BY <2>9 DEF Waits, TSTAT_WAIT_WOBJ
    <3>2. r.wait_queue[o] = queue_delete(q, t) /\ r.wobjatr[o] = k.wobjatr[o]
      BY <2>6, <2>9
    <3>3. \A u \in TSK \ {t} : r.priority[u] = k.priority[u]  BY <2>9
    <3> HIDE DEF q
    <3>4. QED  BY <2>1, <2>3, <3>1, <3>2, <3>3, QueueLeft DEF q
  <2>11. ASSUME NEW x \in OBJ \ {o}
         PROVE  /\ r.wait_queue[x] = k.wait_queue[x] /\ r.wobjatr[x] = k.wobjatr[x]
                /\ \A u \in TSK : u \in Waits(r, x) \ (X \cup {t}) <=> u \in Waits(k, x) \ X
                /\ \A u \in Waits(k, x) \ X : r.priority[u] = k.priority[u]
    <3>1. t \notin Waits(k, x)  BY DEF Waits, o
    <3>2. \A u \in TSK : u \in Waits(r, x) <=> u \in Waits(k, x)
      BY <2>9 DEF Waits, TSTAT_WAIT_WOBJ
    <3>3. QED  BY <2>6, <2>9, <3>1, <3>2
  <2>12. QueuesOK(r, X \cup {t})  BY <2>1, <2>10, <2>11, OtherQueues
  <2>13. QED  BY <2>6, <2>7, <2>8, <2>12 DEF r
<1>2. CASE ~TSTAT_WAIT_WOBJ(k, t)
  <2>1. r = k  BY <1>2 DEF wait_dequeue_wobj
  <2>2. k.wait_queue \in [OBJ -> Seq(TSK)] /\ k = [k EXCEPT !.wait_queue = k.wait_queue]
    BY DEF KState
  <2>3. QueuesOK(k, X \cup {t})
    <3>1. ASSUME NEW o \in OBJ  PROVE QueueOK(k, o, Waits(k, o) \ (X \cup {t}))
      <4>1. Waits(k, o) \ (X \cup {t}) = Waits(k, o) \ X
        BY <1>2 DEF Waits
      <4>2. QED  BY <4>1 DEF QueuesOK
    <3>2. QED  BY <3>1 DEF QueuesOK
  <2>4. QED  BY <2>1, <2>2, <2>3
<1>3. QED  BY <1>1, <1>2

\* The first task in a queue leaves it as any task does.
LEMMA HeadLeaves ==
  ASSUME NEW k \in KState, NEW X, QueuesOK(k, X), NEW o \in OBJ, k.wait_queue[o] # <<>>
  PROVE  LET t == Head(k.wait_queue[o]) IN
         /\ t \in TSK /\ t \notin X /\ TSTAT_WAIT_WOBJ(k, t) /\ k.wobj[t] = o
         /\ [k EXCEPT !.wait_queue[o] = Tail(@)] = wait_dequeue_wobj(k, t)
<1> DEFINE q == k.wait_queue[o]
           t == Head(q)
<1>1. q \in Seq(TSK) /\ q # <<>> /\ QueueOK(k, o, Waits(k, o) \ X)
  BY DEF KState, QueuesOK
<1>2. Distinct(q)  BY <1>1 DEF QueueOK
<1> HIDE DEF q
<1>3. t \in TSK /\ InQueue(q, t)
  BY <1>1, <1>2, QueueTail
<1>4. t \in Waits(k, o) \ X  BY <1>1, <1>3 DEF QueueOK, q
<1>5. TSTAT_WAIT_WOBJ(k, t) /\ k.wobj[t] = o /\ t \notin X  BY <1>4 DEF Waits
<1>6. Tail(q) = queue_delete(q, t)  BY <1>1, <1>2, TailIsDelete
<1>7. QED  BY <1>3, <1>5, <1>6 DEF wait_dequeue_wobj, q

----------------------------------------------------------------------------
(* The internal functions keep Good.                                       *)

\* The states a task can be in exclude each other.
LEMMA TaskStates ==
  ASSUME NEW k \in KState, NEW t \in TSK
  PROVE  /\ k.tstat[t] \in TSTAT
         /\ TSTAT_DORMANT(k, t) => ~TSTAT_RUNNABLE(k, t) /\ ~TSTAT_WAITING(k, t) /\ ~TSTAT_SUSPENDED(k, t)
         /\ TSTAT_RUNNABLE(k, t) => ~TSTAT_WAITING(k, t) /\ ~TSTAT_SUSPENDED(k, t)
         /\ ~TSTAT_DORMANT(k, t) => TSTAT_RUNNABLE(k, t) \/ TSTAT_WAITING(k, t) \/ TSTAT_SUSPENDED(k, t)
<1>1. k.tstat[t] \in TSTAT
  BY DEF KState
<1> DEFINE s == k.tstat[t]
<1> HIDE DEF s
<1>2. s \in [run : BOOLEAN, sus : BOOLEAN, wai : FACTOR \cup {"none"}]
      /\ (s.run => ~s.sus /\ s.wai = "none")
  BY <1>1 DEF TSTAT, s
<1>3. s = [run |-> s.run, sus |-> s.sus, wai |-> s.wai] /\ s.run \in BOOLEAN /\ s.sus \in BOOLEAN
  BY <1>2
<1>4. ~s.run /\ ~s.sus /\ s.wai = "none" => s = TS_DORMANT
  BY <1>3 DEF TS_DORMANT
<1>5. s = TS_DORMANT => ~s.run /\ ~s.sus /\ s.wai = "none"
  BY DEF TS_DORMANT
<1>6. QED
  BY <1>1, <1>2, <1>4, <1>5
     DEF s, TSTAT_DORMANT, TSTAT_RUNNABLE, TSTAT_WAITING, TSTAT_SUSPENDED

LEMMA StateConstants ==
  /\ TS_RUNNABLE \in TSTAT /\ TS_RUNNABLE.run /\ TS_RUNNABLE.wai = "none" /\ TS_RUNNABLE # TS_DORMANT
  /\ TS_SUSPENDED \in TSTAT /\ ~TS_SUSPENDED.run /\ TS_SUSPENDED.wai = "none" /\ TS_SUSPENDED # TS_DORMANT
  /\ TS_DORMANT \in TSTAT /\ ~TS_DORMANT.run /\ TS_DORMANT.wai = "none"
  /\ \A f \in FACTOR : TS_WAITING(f) \in TSTAT /\ ~TS_WAITING(f).run /\ TS_WAITING(f).wai = f
  /\ "none" \notin FACTOR
BY DEF TSTAT, FACTOR, TS_RUNNABLE, TS_SUSPENDED, TS_DORMANT, TS_WAITING

\* change_priority moves a runnable task to another ready queue, and a waiting one to
\* its new place in the queue it waits in.
LEMMA ChangePriority ==
  ASSUME NEW k, Good(k), NEW t \in TSK, NEW pri \in PRI, NEW mtxmode \in BOOLEAN
  PROVE  Good(change_priority(k, t, pri, mtxmode))
<1> DEFINE c == [k EXCEPT !.priority[t] = pri]
           r == Requeue(c, t, k.priority[t], pri, mtxmode)
<1>1. k \in KState /\ TaskOK(k, t) /\ QueuesOK(k, {})
  BY DEF Good, SchedInv
<1>2. c \in KState
  BY <1>1 DEF KState
<1>3. /\ c.tstat = k.tstat /\ \A u \in TSK : SameState(k, c, u)
      /\ SameSystem(k, c) /\ c.wait_queue = k.wait_queue /\ c.wobj = k.wobj
      /\ c.priority = [k.priority EXCEPT ![t] = pri]
  BY <1>1 DEF KState, SameState, SameSystem
<1>4. k.priority \in [TSK -> PRI] /\ \A u \in TSK \ {t} : SameTask(k, c, u)
  BY <1>1, <1>3 DEF SameTask, KState
<1>5. CASE TSTAT_RUNNABLE(k, t)
  <2>1. SchedInv(r, Ready(k)) /\ OnlyQueues(c, r)
    BY <1>5, RequeueTask DEF Good, Ready
  <2>2. r \in KState /\ Ready(r) = Ready(k)
    BY <1>3, <2>1 DEF SchedInv, OnlyQueues, Ready, TSTAT_RUNNABLE
  <2>3. /\ \A u \in TSK \ {t} : SameTask(k, r, u)
        /\ SameState(k, r, t)
    BY <1>3, <1>4, <2>1, SMTT(40) DEF OnlyQueues, SameTask, SameState
  <2>4. SameSystem(k, r) /\ r.wait_queue = k.wait_queue
    BY <1>3, <2>1 DEF OnlyQueues, SameSystem
  <2>5. TaskOK(r, t)
    BY <1>1, <2>3, SameTaskOK
  <2>6. SameWait(k, r, t)
    BY <1>1, <1>5, <2>3, TaskStates DEF SameWait, SameState, TSTAT_WAIT_WOBJ, TSTAT_WAITING, FACTOR
  <2>7. Good(r)
    BY <2>1, <2>2, <2>3, <2>4, <2>5, <2>6, OneTask
  <2>8. QED  BY <1>5, <2>7 DEF change_priority
<1>6. ASSUME NEW d \in KState, NEW wq, d = [c EXCEPT !.wait_queue = wq], ~TSTAT_RUNNABLE(k, t),
             QueuesOK(d, {})
      PROVE  Good(d)
  <2>1. /\ d.tstat = c.tstat /\ SameSystem(c, d) /\ d.priority = c.priority
        /\ \A u \in TSK : SameState(c, d, u)
    BY <1>2, <1>6 DEF KState, SameSystem, SameState
  <2>2. Ready(d) = Ready(k)  BY <1>3, <2>1 DEF Ready, TSTAT_RUNNABLE
  <2>3. SameSched(k, d, Ready(k))
    BY <1>1, <1>6 DEF KState, SameSched, Ready
  <2>4. SchedInv(d, Ready(d))
    BY <1>6, <2>2, <2>3, StaysReady
  <2>5. \A u \in TSK : TaskOK(d, u)
    <3>1. SUFFICES ASSUME NEW u \in TSK  PROVE TaskOK(d, u)  OBVIOUS
    <3>2. TaskOK(k, u) /\ SameState(k, d, u)  BY <1>3, <2>1 DEF Good, SameState
    <3>3. QED  BY <3>2, SameTaskOK
  <2>6. SystemOK(d)  BY <1>3, <2>1 DEF Good, SystemOK, SameSystem
  <2>7. QED  BY <1>6, <2>4, <2>5, <2>6 DEF Good
<1>7. CASE ~TSTAT_RUNNABLE(k, t) /\ ~TSTAT_WAIT_WOBJCB(k, t)
  <2>1. ~TSTAT_WAIT_WOBJ(k, t)  BY <1>1, <1>7, WaitObject DEF TaskOK
  <2>2. \A u \in TSK \ {} : SameWait(k, c, u)
    BY <1>3, <1>4, <2>1 DEF SameWait, SameTask, SameState, TSTAT_WAIT_WOBJ
  <2>3. QueuesOK(c, {})
    BY <1>1, <1>3, <2>2, QueuesKept DEF SameSystem
  <2>4. c = [c EXCEPT !.wait_queue = c.wait_queue]  BY <1>2 DEF KState
  <2>5. Good(c)  BY <1>2, <1>6, <1>7, <2>3, <2>4
  <2>6. QED  BY <1>7, <2>5 DEF change_priority
<1>8. CASE ~TSTAT_RUNNABLE(k, t) /\ TSTAT_WAIT_WOBJCB(k, t)
  <2> DEFINE o == k.wobj[t]
             q == k.wait_queue[o]
             pr == c.priority
             new == queue_insert_tpri(queue_delete(q, t), t, pr)
             ord == k.wobjatr[o] \in {"TA_TPRI", "TA_CEILING"}
             wq == IF ord THEN [k.wait_queue EXCEPT ![o] = new] ELSE k.wait_queue
             d == [c EXCEPT !.wait_queue = wq]
  <2>1. TSTAT_WAIT_WOBJ(k, t) /\ o \in OBJ
    BY <1>1, <1>8, WaitObject DEF TaskOK, TSTAT_WAIT_WOBJ, TSTAT_WAIT_WOBJCB
  <2>2. wobj_change_priority(c, t) = d
    <3>1. c.wobjatr = k.wobjatr  BY <1>3 DEF SameSystem
    <3>2. c = [c EXCEPT !.wait_queue = k.wait_queue]  BY <1>2, <1>3 DEF KState
    <3>3. c.wobj[t] = o /\ c.wait_queue = k.wait_queue  BY <1>3
    <3> HIDE DEF c, o
    <3>4. CASE ord  BY <3>1, <3>3, <3>4 DEF wobj_change_priority
    <3>5. CASE ~ord  BY <3>1, <3>2, <3>3, <3>5 DEF wobj_change_priority
    <3>6. QED  BY <3>4, <3>5
  <2> DEFINE S == Waits(k, o) \ {}
  <2>3. QueueOK(k, o, S) /\ t \in S /\ k.wait_queue \in [OBJ -> Seq(TSK)] /\ q \in Seq(TSK)
    BY <1>1, <2>1 DEF QueuesOK, Waits, KState
  <2>4. InQueue(q, t) /\ Distinct(q) /\ k.wobjatr[o] # "TA_NOEXS"
    BY <2>3 DEF QueueOK, InQueue
  <2>5. queue_delete(q, t) \in Seq(TSK)  BY <2>3, <2>4, QueueDelete
  <2> HIDE DEF o
  <2> DEFINE mq == [k.wait_queue EXCEPT ![o] = queue_delete(q, t)]
             m == [c EXCEPT !.wait_queue = mq]
  <2>6. mq \in [OBJ -> Seq(TSK)] /\ mq[o] = queue_delete(q, t)
    BY <2>1, <2>3, <2>5
  <2>7. m \in KState /\ m.wait_queue = mq /\ m.wobjatr = k.wobjatr /\ m.priority = pr
    <3> HIDE DEF mq, c
    <3>1. m \in KState /\ m.wait_queue = mq /\ m.wobjatr = c.wobjatr /\ m.priority = pr
      BY ZenonT(60), <1>2, <2>6 DEF KState
    <3>2. QED  BY <1>3, <3>1 DEF SameSystem
  <2>8. pr \in [TSK -> PRI] /\ \A u \in TSK \ {t} : pr[u] = k.priority[u]
    BY <1>2, <1>3, <1>4 DEF KState
  <2> HIDE DEF pr, mq, m, q, S
  <2>9. QueueOK(m, o, S \ {t})
    <3>1. \A u \in TSK : u \in S \ {t} <=> u \in S /\ u # t  OBVIOUS
    <3>2. m.wait_queue[o] = queue_delete(k.wait_queue[o], t)  BY <2>6, <2>7 DEF q
    <3>3. m.wobjatr[o] = k.wobjatr[o] /\ \A u \in TSK \ {t} : m.priority[u] = k.priority[u]
      BY <2>7, <2>8
    <3>4. QED  BY <1>1, <2>1, <2>3, <3>1, <3>2, <3>3, QueueLeft
  <2>10. ASSUME ord, NEW e, e.wait_queue[o] = new, e.wobjatr[o] = k.wobjatr[o], e.priority = pr
         PROVE  QueueOK(e, o, S) /\ new \in Seq(TSK)
    <3>1. \A u \in TSK : u \in S <=> u \in S \ {t} \/ u = t  BY <2>3
    <3>2. e.wait_queue[o] = IF m.wobjatr[o] \in {"TA_TPRI", "TA_CEILING"}
                            THEN queue_insert_tpri(m.wait_queue[o], t, e.priority)
                            ELSE Append(m.wait_queue[o], t)
      BY <2>6, <2>7, <2>10
    <3>3. /\ e.wobjatr[o] = m.wobjatr[o] /\ m.wobjatr[o] # "TA_NOEXS" /\ e.priority \in [TSK -> PRI]
          /\ \A u \in TSK \ {t} : e.priority[u] = m.priority[u] /\ t \notin S \ {t}
      BY <2>4, <2>7, <2>8, <2>10
    <3> HIDE DEF new
    <3>4. QueueOK(e, o, S) /\ e.wait_queue[o] \in Seq(TSK)
      BY <2>1, <2>7, <2>9, <3>1, <3>2, <3>3, QueueEntered
    <3>5. QED  BY <2>10, <3>4
  <2>11. wq \in [OBJ -> Seq(TSK)] /\ (ord => wq[o] = new) /\ (~ord => wq = k.wait_queue)
         /\ \A x \in OBJ \ {o} : wq[x] = k.wait_queue[x]
    <3>1. CASE ord
      <4> DEFINE e == [wait_queue |-> [x \in OBJ |-> new], wobjatr |-> k.wobjatr, priority |-> pr]
      <4>1. e.wait_queue[o] = new /\ e.wobjatr[o] = k.wobjatr[o] /\ e.priority = pr  BY <2>1
      <4> HIDE DEF e, new
      <4>2. new \in Seq(TSK)  BY <2>10, <3>1, <4>1
      <4>3. QED  BY <2>1, <2>3, <3>1, <4>2
    <3>2. CASE ~ord  BY <2>3, <3>2
    <3>3. QED  BY <3>1, <3>2
  <2> HIDE DEF wq, new, ord
  <2>12. d \in KState /\ d.wait_queue = wq /\ d.wobjatr = k.wobjatr /\ d.priority = pr
         /\ d.tstat = k.tstat /\ d.wobj = k.wobj
    <3> HIDE DEF c
    <3>1. d \in KState /\ d.wait_queue = wq /\ d.wobjatr = c.wobjatr /\ d.priority = c.priority
          /\ d.tstat = c.tstat /\ d.wobj = c.wobj
      BY ZenonT(60), <1>2, <2>11 DEF KState
    <3>2. QED  BY <1>3, <3>1 DEF SameSystem, pr
  <2> HIDE DEF d
  <2>13. \A x \in OBJ : Waits(d, x) = Waits(k, x)
    BY <2>12 DEF Waits, TSTAT_WAIT_WOBJ
  <2>14. QueueOK(d, o, Waits(d, o) \ {})
    <3>1. Waits(d, o) \ {} = S  BY <2>1, <2>13 DEF S
    <3>2. CASE ord
      BY <2>10, <2>11, <2>12, <3>1, <3>2
    <3>3. CASE ~ord
      BY <2>3, <2>11, <2>12, <3>1, <3>3 DEF QueueOK, ord
    <3>4. QED  BY <3>2, <3>3
  <2>15. ASSUME NEW x \in OBJ \ {o}
         PROVE  /\ d.wait_queue[x] = k.wait_queue[x] /\ d.wobjatr[x] = k.wobjatr[x]
                /\ \A u \in TSK : u \in Waits(d, x) \ {} <=> u \in Waits(k, x) \ {}
                /\ \A u \in Waits(k, x) \ {} : d.priority[u] = k.priority[u]
    <3>1. \A u \in Waits(k, x) : u \in TSK \ {t}  BY DEF Waits, o
    <3>2. QED  BY <2>8, <2>11, <2>12, <2>13, <3>1
  <2>16. QueuesOK(d, {})
    BY <1>1, <2>1, <2>14, <2>15, OtherQueues
  <2>17. Good(d)
    BY <1>6, <1>8, <2>12, <2>16 DEF d
  <2>18. QED  BY <1>8, <2>2, <2>17 DEF change_priority
<1>9. QED  BY <1>5, <1>7, <1>8

LEMMA RotateKeepsGood ==
  ASSUME NEW k, Good(k), NEW p \in PRI
  PROVE  Good(rotate_ready_queue(k, p))
<1> DEFINE r == rotate_ready_queue(k, p)
<1>1. SchedInv(r, Ready(k)) /\ OnlyQueues(k, r)
  BY RotateReadyQueue DEF Good
<1> HIDE DEF r
<1>2. Ready(r) = Ready(k)  BY <1>1 DEF OnlyQueues, Ready, TSTAT_RUNNABLE
<1>3. \A t \in TSK : TaskOK(r, t)
  BY <1>1, SameTaskOK DEF Good, OnlyQueues, SameState
<1>4. SystemOK(r)
  BY <1>1 DEF Good, OnlyQueues, SystemOK
<1>5. QueuesOK(r, {})
  BY <1>1, OnlyQueuesKept DEF Good, SchedInv
<1>6. QED  BY <1>1, <1>2, <1>3, <1>4, <1>5 DEF Good, r

\* The task that is to run gets the processor.
LEMMA Dispatch ==
  ASSUME NEW k, Good(k)
  PROVE  Good(dispatch(k)) /\ dispatch(k).runtsk = dispatch(k).schedtsk
<1> DEFINE s == k.schedtsk
           r == dispatch(k)
<1>1. k \in KState /\ s \in TSK \cup {NULL}
  BY DEF Good, SchedInv, KState
<1>2. s # NULL => s \in Ready(k)
  <2>1. CASE k.dspflg
    <3>1. Ready(k) \subseteq TSK /\ Queued(k, Ready(k)) /\ IsTop(k, s)
      BY <2>1 DEF Good, SchedInv
    <3>2. QED  BY <1>1, <3>1, TopTask
  <2>2. CASE ~k.dspflg
    BY <2>2 DEF Good, SchedInv
  <2>3. QED  BY <2>1, <2>2
<1>3. /\ r.runtsk = s /\ r.schedtsk = s
      /\ r.winfo = IF s # NULL THEN [k.winfo EXCEPT ![s] = "none"] ELSE k.winfo
      /\ r.tskatr = k.tskatr /\ r.tstat = k.tstat /\ r.actque = k.actque
      /\ r.wupque = k.wupque /\ r.pending = k.pending /\ r.tmevt = k.tmevt
      /\ SameSystem(k, r)
      /\ r.ready_queue = k.ready_queue /\ r.ready_primap = k.ready_primap
      /\ r.wait_queue = k.wait_queue /\ r.wobj = k.wobj /\ r.lastmtx = k.lastmtx
      /\ r.priority = k.priority /\ r.dspflg = k.dspflg /\ r.failed = k.failed
  BY <1>1 DEF dispatch, KState, SameSystem
<1>4. r \in KState
  <2>1. (IF s # NULL THEN [k.winfo EXCEPT ![s] = "none"] ELSE k.winfo) \in [TSK -> WINFO]
    BY <1>1 DEF KState, WINFO
  <2>2. QED  BY <1>1, <2>1, ZenonT(60) DEF dispatch, KState
<1>5. k.winfo \in [TSK -> WINFO]
  BY <1>1 DEF KState
<1> HIDE DEF r
<1>6. ASSUME NEW t \in TSK  PROVE TaskOK(r, t)
  <2>1. TaskOK(k, t) /\ (t = s => k.tstat[t].run)
    BY <1>2, NullAssumption DEF Good, Ready, TSTAT_RUNNABLE
  <2>2. k.tstat[t] \in TSTAT  BY <1>1 DEF KState
  <2>3. t = s => ~TSTAT_WAITING(k, t)
    BY <2>1, <2>2 DEF TSTAT, TSTAT_WAITING
  <2>4. r.winfo[t] = IF t = s THEN "none" ELSE k.winfo[t]
    BY <1>3, <1>5, NullAssumption
  <2>5. QED
    BY <1>3, <2>1, <2>3, <2>4 DEF TaskOK, WaitOK, TSTAT_WAITING, TSTAT_DORMANT
<1>7. SystemOK(r)
  BY <1>3 DEF Good, SystemOK, SameSystem
<1>8. SchedInv(r, Ready(r))
  <2>1. Ready(r) = Ready(k)  BY <1>3 DEF Ready, TSTAT_RUNNABLE
  <2>2. SchedInv(k, Ready(k))  BY DEF Good
  <2>3. Queued(r, Ready(k))
    BY <1>3, <2>2 DEF SchedInv, Queued
  <2>4. r.dspflg => IsTop(r, r.schedtsk)
    BY <1>3, <2>2 DEF SchedInv, IsTop
  <2>5. QED
    BY <1>3, <1>4, <2>1, <2>2, <2>3, <2>4 DEF SchedInv
<1>9. QueuesOK(r, {})
  <2>1. \A u \in TSK \ {} : SameWait(k, r, u)  BY <1>3 DEF SameWait, TSTAT_WAIT_WOBJ
  <2>2. QueuesOK(k, {}) /\ r.wobjatr = k.wobjatr  BY <1>3 DEF Good, SameSystem
  <2>3. QED  BY <1>1, <1>3, <2>1, <2>2, QueuesKept
<1>10. QED
  BY <1>3, <1>6, <1>7, <1>8, <1>9 DEF Good, r

----------------------------------------------------------------------------
(* How waits end and begin.                                                *)

\* d is k with t taken out of what it waited for, and the code of the end of the
\* wait stored; its priority and the mutexes it has may be others.
Woken(k, X, d, t) ==
  /\ \A u \in TSK \ (X \cup {t}) : SameTask(k, d, u)
  /\ SameSystem(k, d) /\ SameSched(k, d, Ready(k) \ X) /\ d.tstat = k.tstat
  /\ d.winfo[t] \in WERCD /\ t \notin d.tmevt
  /\ QueuesOK(d, X \cup {t})

\* d is k with the state of t, which is not runnable in k, set to runnable.
Readied(k, X, d, t) ==
  /\ \A u \in TSK \ (X \cup {t}) : SameTask(k, d, u)
  /\ SameSystem(k, d) /\ SameSched(k, d, Ready(k) \ X)
  /\ d.tstat = [k.tstat EXCEPT ![t] = TS_RUNNABLE]
  /\ d.winfo[t] \notin {"null", "tmevtb"} /\ t \notin d.tmevt
  /\ QueuesOK(d, X)

LEMMA MakeReadyBut ==
  ASSUME NEW k, NEW X, GoodBut(k, X), NEW t \in TSK, t \notin X, ~TSTAT_RUNNABLE(k, t),
         k.tskatr[t] # "TA_NOEXS", NEW d \in KState, Readied(k, X, d, t)
  PROVE  GoodBut(make_runnable(d, t), X)
<1> DEFINE r == make_runnable(d, t)
<1>1. k.tstat \in [TSK -> TSTAT] /\ t \notin Ready(k) /\ SchedInv(k, Ready(k) \ X)
  BY DEF GoodBut, SchedInv, KState, Ready
<1>2. Ready(d) = Ready(k) \cup {t}
  BY <1>1, StateConstants DEF Readied, Ready, TSTAT_RUNNABLE
<1>3. SameSched(k, d, Ready(k) \ X)
  BY DEF Readied
<1>4. r \in KState /\ SchedInv(r, Ready(r) \ X) /\ OnlyQueues(d, r)
  BY <1>1, <1>2, <1>3, BecomesReady
<1> HIDE DEF r
<1>5. \A u \in TSK \ (X \cup {t}) : SameTask(k, r, u)
  BY <1>4 DEF Readied, SameTask, SameState, OnlyQueues
<1>6. SameSystem(k, r)
  BY <1>4 DEF Readied, SameSystem, OnlyQueues
<1>7. TaskOK(r, t)
  <2>1. /\ r.tstat[t] = TS_RUNNABLE /\ r.tskatr[t] # "TA_NOEXS"
        /\ r.winfo[t] \notin {"null", "tmevtb"} /\ t \notin r.tmevt
    BY <1>1, <1>4 DEF OnlyQueues, Readied, SameSystem
  <2>2. QED
    BY <2>1, StateConstants DEF TaskOK, WaitOK, TSTAT_WAITING, TSTAT_DORMANT
<1>8. QueuesOK(r, X)
  BY <1>4, OnlyQueuesKept DEF Readied
<1>9. QED
  BY <1>4, <1>5, <1>6, <1>7, <1>8, OneTaskBut DEF r

LEMMA MakeReady ==
  ASSUME NEW k, Good(k), NEW t \in TSK, ~TSTAT_RUNNABLE(k, t), k.tskatr[t] # "TA_NOEXS",
         NEW d \in KState, Readied(k, {}, d, t)
  PROVE  Good(make_runnable(d, t))
BY MakeReadyBut, GoodAll

\* A task that waits becomes runnable or, if it was suspended as well, suspended.
LEMMA WakeBut ==
  ASSUME NEW k, NEW X, GoodBut(k, X), NEW t \in TSK, t \notin X, TSTAT_WAITING(k, t),
         NEW d \in KState, Woken(k, X, d, t)
  PROVE  GoodBut(make_non_wait(d, t), X)
<1> DEFINE w == [d EXCEPT !.failed = @ \/ ~TSTAT_WAITING(d, t)]
           a == [w EXCEPT !.tstat[t] = TS_SUSPENDED]
           b == [w EXCEPT !.tstat[t] = TS_RUNNABLE]
<1>1. k \in KState /\ TaskOK(k, t) /\ ~k.failed /\ SchedInv(k, Ready(k) \ X)
  BY DEF GoodBut, SchedInv
<1>2. /\ TSTAT_WAITING(d, t) /\ t \notin Ready(k) /\ ~TSTAT_DORMANT(k, t)
      /\ k.tskatr[t] # "TA_NOEXS"
  BY <1>1, TaskStates DEF Woken, TSTAT_WAITING, Ready, TaskOK
<1>3. w \in KState /\ w.failed = k.failed
  <2>1. (d.failed \/ ~TSTAT_WAITING(d, t)) = d.failed /\ d.failed \in BOOLEAN
    BY <1>2 DEF KState
  <2>2. QED  BY ZenonT(60), <1>1, <2>1 DEF KState, Woken, SameSched
<1>4. \A u \in TSK \ (X \cup {t}) : SameTask(k, w, u)
  BY DEF Woken, SameTask, SameState, KState
<1>5. /\ SameSystem(k, w) /\ w.tstat = k.tstat
      /\ w.winfo[t] \in WERCD /\ t \notin w.tmevt
  BY DEF Woken, SameSystem, KState
<1>6. SameSched(k, w, Ready(k) \ X)
  BY <1>3 DEF Woken, SameSched, KState
<1>7. w.tskatr[t] # "TA_NOEXS"
  BY <1>2, <1>5 DEF SameSystem
<1>8. w.winfo[t] \notin {"null", "tmevtb"}
  BY <1>5 DEF WERCD
<1>9. QueuesOK(w, X \cup {t})
  <2>1. w.wait_queue = d.wait_queue /\ w.wobjatr = d.wobjatr /\ w.tstat = d.tstat
        /\ w.wobj = d.wobj /\ w.priority = d.priority
    BY DEF KState
  <2>2. \A u \in TSK \ (X \cup {t}) : SameWait(d, w, u)
    BY <2>1 DEF SameWait, TSTAT_WAIT_WOBJ
  <2>3. QED  BY <2>1, <2>2, QueuesKept DEF Woken
<1>10. k.tstat \in [TSK -> TSTAT]  BY <1>1 DEF KState
<1> HIDE DEF w
<1>11. ASSUME NEW x, NEW s \in {TS_SUSPENDED, TS_RUNNABLE}, x = [w EXCEPT !.tstat[t] = s]
       PROVE  /\ x \in KState /\ x.tstat = [k.tstat EXCEPT ![t] = s]
              /\ SameSystem(k, x) /\ SameSched(k, x, Ready(k) \ X) /\ QueuesOK(x, X)
              /\ \A u \in TSK \ (X \cup {t}) : SameTask(k, x, u)
              /\ x.winfo[t] = w.winfo[t] /\ t \notin x.tmevt /\ x.tskatr[t] # "TA_NOEXS"
  <2>1. x \in KState
    <3>1. s \in TSTAT  BY StateConstants
    <3>2. QED  BY <1>3, <1>11, <3>1, ZenonT(60) DEF KState
  <2>2. /\ x.tstat = [k.tstat EXCEPT ![t] = s]
        /\ SameSystem(w, x) /\ x.winfo = w.winfo /\ x.tmevt = w.tmevt
        /\ x.actque = w.actque /\ x.wupque = w.wupque /\ x.pending = w.pending
        /\ x.wait_queue = w.wait_queue /\ x.wobj = w.wobj /\ x.lastmtx = w.lastmtx
        /\ x.priority = w.priority
    BY <1>3, <1>5, <1>11 DEF KState, SameSystem
  <2>3. SameSched(k, x, Ready(k) \ X)
    BY <1>3, <1>6, <1>11 DEF KState, SameSched
  <2>4. \A u \in TSK \ (X \cup {t}) : SameTask(k, x, u)
    BY <1>4, <1>10, <2>2 DEF SameTask, SameState, SameSystem
  <2>5. SameSystem(k, x)
    BY <1>5, <2>2 DEF SameSystem
  <2>6. \A u \in TSK \ (X \cup {t}) : SameWait(w, x, u)
    BY <1>5, <1>10, <2>2 DEF SameWait, TSTAT_WAIT_WOBJ
  <2>7. \A u \in (X \cup {t}) \ X : ~TSTAT_WAIT_WOBJ(x, u)
    BY <1>10, <2>2, StateConstants DEF TSTAT_WAIT_WOBJ
  <2>8. X \subseteq X \cup {t} /\ x.wobjatr = w.wobjatr  BY <2>2 DEF SameSystem
  <2>9. QueuesOK(x, X)
    BY <1>3, <1>9, <2>2, <2>6, <2>7, <2>8, QueuesKept
  <2>10. QED  BY <1>5, <1>7, <2>1, <2>2, <2>3, <2>4, <2>5, <2>9 DEF SameSystem
<1>12. ASSUME TSTAT_SUSPENDED(d, t)  PROVE GoodBut(a, X)
  <2>1. /\ a \in KState /\ a.tstat = [k.tstat EXCEPT ![t] = TS_SUSPENDED]
        /\ SameSystem(k, a) /\ SameSched(k, a, Ready(k) \ X) /\ QueuesOK(a, X)
        /\ \A u \in TSK \ (X \cup {t}) : SameTask(k, a, u)
        /\ a.winfo[t] = w.winfo[t] /\ t \notin a.tmevt /\ a.tskatr[t] # "TA_NOEXS"
    BY <1>11
  <2> HIDE DEF a
  <2>2. Ready(a) = Ready(k)
    BY <1>2, <1>10, <2>1, StateConstants DEF Ready, TSTAT_RUNNABLE
  <2>3. TaskOK(a, t)
    <3>1. a.tstat[t] = TS_SUSPENDED  BY <1>10, <2>1
    <3>2. QED  BY <1>8, <2>1, <3>1, StateConstants
          DEF TaskOK, WaitOK, TSTAT_WAITING, TSTAT_DORMANT
  <2>4. SchedInv(a, Ready(a) \ X)
    BY <1>1, <2>1, <2>2, OtherFields
  <2>5. QED  BY <2>1, <2>3, <2>4, OneTaskBut
<1>13. GoodBut(make_runnable(b, t), X)
  <2>1. /\ b \in KState /\ b.tstat = [k.tstat EXCEPT ![t] = TS_RUNNABLE]
        /\ SameSystem(k, b) /\ SameSched(k, b, Ready(k) \ X) /\ QueuesOK(b, X)
        /\ \A u \in TSK \ (X \cup {t}) : SameTask(k, b, u)
        /\ b.winfo[t] = w.winfo[t] /\ t \notin b.tmevt /\ b.tskatr[t] # "TA_NOEXS"
    BY <1>11
  <2> HIDE DEF b
  <2>2. Readied(k, X, b, t)
    BY <1>8, <2>1 DEF Readied
  <2>3. ~TSTAT_RUNNABLE(k, t)  BY <1>2 DEF Ready
  <2>4. QED  BY <1>2, <2>1, <2>2, <2>3, MakeReadyBut
<1>14. QED
  BY <1>12, <1>13 DEF make_non_wait, w

LEMMA Wake ==
  ASSUME NEW k, Good(k), NEW t \in TSK, TSTAT_WAITING(k, t), NEW d \in KState, Woken(k, {}, d, t)
  PROVE  Good(make_non_wait(d, t))
BY WakeBut, GoodAll

\* What the end of a wait leaves alone.
SameObjects(d, r) ==
  /\ r.wobjatr = d.wobjatr /\ r.wait_queue = d.wait_queue /\ r.lastmtx = d.lastmtx
  /\ r.loctsk = d.loctsk /\ r.ceilpri = d.ceilpri /\ r.bpriority = d.bpriority
  /\ r.priority = d.priority /\ r.wobj = d.wobj /\ r.winfo = d.winfo /\ r.tmevt = d.tmevt
  /\ r.cfg = d.cfg /\ r.actque = d.actque /\ r.runtsk = d.runtsk /\ SameSystem(d, r)

LEMMA MakeNonWait ==
  ASSUME NEW d \in KState, NEW t \in TSK
  PROVE  LET r == make_non_wait(d, t) IN
         SameObjects(d, r) /\ \E s \in TSTAT : s.wai = "none" /\ r.tstat = [d.tstat EXCEPT ![t] = s]
<1> DEFINE w == [d EXCEPT !.failed = @ \/ ~TSTAT_WAITING(d, t)]
           a == [w EXCEPT !.tstat[t] = TS_SUSPENDED]
           b == [w EXCEPT !.tstat[t] = TS_RUNNABLE]
           r == make_runnable(b, t)
<1>1. SameObjects(d, a) /\ a.tstat = [d.tstat EXCEPT ![t] = TS_SUSPENDED]
  BY DEF SameObjects, SameSystem, KState
<1>2. SameObjects(d, r) /\ r.tstat = [d.tstat EXCEPT ![t] = TS_RUNNABLE]
  BY DEF SameObjects, SameSystem, KState, make_runnable
<1>3. QED  BY <1>1, <1>2, StateConstants DEF make_non_wait

\* The time event of a wait goes, with the code of the end stored.
LEMMA DequeueTmevt ==
  ASSUME NEW k \in KState, NEW t \in TSK, TSTAT_WAITING(k, t), TaskOK(k, t),
         NEW e \in WERCD
  PROVE  LET d == SetWercd(wait_dequeue_tmevtb(k, t), t, e) IN
         /\ d \in KState
         /\ d = [k EXCEPT !.tmevt = k.tmevt \ {t}, !.winfo = [k.winfo EXCEPT ![t] = e],
                          !.wobj = [k.wobj EXCEPT ![t] = NULL]]
<1> DEFINE wi == [k.winfo EXCEPT ![t] = e]
           wo == [k.wobj EXCEPT ![t] = NULL]
           d == SetWercd(wait_dequeue_tmevtb(k, t), t, e)
<1>1. wi \in [TSK -> WINFO] /\ wo \in [TSK -> OBJ \cup {NULL}]
  BY DEF KState, WINFO
<1>2. k.winfo[t] \in {"null", "tmevtb"} /\ (k.winfo[t] = "null" => t \notin k.tmevt)
  BY DEF TaskOK
<1>3. d = [k EXCEPT !.tmevt = k.tmevt \ {t}, !.winfo = wi, !.wobj = wo]
  <2>1. CASE k.winfo[t] = "null"
    <3>1. k.tmevt \ {t} = k.tmevt  BY <1>2, <2>1
    <3>2. wait_dequeue_tmevtb(k, t) = k  BY <2>1 DEF wait_dequeue_tmevtb
    <3>3. d = [k EXCEPT !.winfo = wi, !.wobj = wo]  BY <3>2 DEF SetWercd
    <3>4. QED  BY ZenonT(60), <3>1, <3>3 DEF KState
  <2>2. CASE k.winfo[t] = "tmevtb"
    <3>1. (k.failed \/ k.winfo[t] # "tmevtb") = k.failed  BY <2>2 DEF KState
    <3>2. wait_dequeue_tmevtb(k, t) = [k EXCEPT !.tmevt = @ \ {t}]
      BY ZenonT(60), <2>2, <3>1 DEF wait_dequeue_tmevtb, KState
    <3> DEFINE x == [k EXCEPT !.tmevt = @ \ {t}]
    <3>3. x.winfo = k.winfo /\ x.wobj = k.wobj  BY DEF KState
    <3>4. d = [x EXCEPT !.winfo = wi, !.wobj = wo]
      <4>1. d = [x EXCEPT !.winfo[t] = e, !.wobj[t] = NULL]  BY <3>2 DEF SetWercd
      <4> HIDE DEF x, d
      <4>2. QED  BY <3>3, <4>1
    <3>5. QED  BY <3>4 
  <2>3. QED  BY <1>2, <2>1, <2>2
<1>4. d \in KState
  <2> HIDE DEF wi, wo, d
  <2>1. QED  BY ZenonT(60), <1>1, <1>3 DEF KState
<1>5. QED  BY <1>3, <1>4

\* Nothing changes that the invariant is about.
LEMMA AllSame ==
  ASSUME NEW k, NEW X, GoodBut(k, X), NEW r \in KState, SameSystem(k, r),
         \A u \in TSK \ X : SameTask(k, r, u), SameSched(k, r, Ready(k) \ X),
         Ready(r) = Ready(k), r.wait_queue = k.wait_queue
  PROVE  GoodBut(r, X)
<1>1. k \in KState /\ SchedInv(k, Ready(k) \ X) /\ QueuesOK(k, X)
  BY DEF GoodBut, SchedInv
<1>2. SchedInv(r, Ready(r) \ X)
  BY <1>1, OtherFields
<1>3. \A u \in TSK \ X : TaskOK(r, u)
  BY SameTaskOK DEF GoodBut, SameTask
<1>4. SystemOK(r)
  BY DEF GoodBut, SystemOK, SameSystem
<1>5. QueuesOK(r, X)
  <2>1. \A u \in TSK \ X : SameWait(k, r, u)
    BY DEF SameTask, SameState, SameWait, TSTAT_WAIT_WOBJ
  <2>2. QED  BY <1>1, <2>1, QueuesKept DEF SameSystem
<1>6. QED  BY <1>2, <1>3, <1>4, <1>5 DEF GoodBut

\* What the end of a wait of t does to the data before t is made runnable.
EndedWait(k, t, e) == SetWercd(wait_dequeue_tmevtb(wait_dequeue_wobj(k, t), t), t, e)

\* d is k but for the queue, the time event, the code and the object of the wait of t.
WaitOver(k, d, t) ==
  /\ d = [k EXCEPT !.wait_queue = d.wait_queue, !.tmevt = k.tmevt \ {t}, !.winfo = d.winfo,
                   !.wobj = d.wobj]
  /\ \A u \in TSK \ {t} : d.winfo[u] = k.winfo[u] /\ d.wobj[u] = k.wobj[u]

LEMMA EndWait ==
  ASSUME NEW k, NEW X, GoodBut(k, X), NEW t \in TSK, t \notin X, TSTAT_WAITING(k, t),
         NEW e \in WERCD
  PROVE  LET d == EndedWait(k, t, e) IN
         /\ d \in KState /\ Woken(k, X, d, t) /\ WaitOver(k, d, t)
         /\ d.wait_queue = wait_dequeue_wobj(k, t).wait_queue
<1> DEFINE w == wait_dequeue_wobj(k, t)
           d == SetWercd(wait_dequeue_tmevtb(w, t), t, e)
<1>1. k \in KState /\ TaskOK(k, t) /\ QueuesOK(k, X)
  BY DEF GoodBut, SchedInv
<1>2. w \in KState /\ QueuesOK(w, X \cup {t})
  BY <1>1, LeaveQueue DEF TaskOK
<1>3. PICK wq \in [OBJ -> Seq(TSK)] : w = [k EXCEPT !.wait_queue = wq]
  BY <1>1, LeaveQueue DEF TaskOK
<1> HIDE DEF w
<1>4. SameState(k, w, t) /\ w.tstat = k.tstat
  BY <1>1, <1>3 DEF SameState, KState
<1>5. TaskOK(w, t) /\ TSTAT_WAITING(w, t)
  BY <1>1, <1>4, SameTaskOK DEF TSTAT_WAITING
<1>6. d \in KState
  BY <1>2, <1>5, DequeueTmevt
<1> DEFINE wi == [w.winfo EXCEPT ![t] = e]
           wo == [w.wobj EXCEPT ![t] = NULL]
<1>7. d = [w EXCEPT !.tmevt = w.tmevt \ {t}, !.winfo = wi, !.wobj = wo]
  BY <1>2, <1>5, DequeueTmevt
<1> HIDE DEF d
<1>8. w.winfo = k.winfo /\ w.wobj = k.wobj /\ k.winfo \in [TSK -> WINFO]
      /\ k.wobj \in [TSK -> OBJ \cup {NULL}]
  BY <1>1, <1>3 DEF KState
<1>9. d = [k EXCEPT !.wait_queue = wq, !.tmevt = k.tmevt \ {t}, !.winfo = wi, !.wobj = wo]
  <2>1. w.tmevt = k.tmevt  BY <1>1, <1>3 DEF KState
  <2>2. QED  BY <1>3, <1>7, <2>1
<1>10. /\ \A u \in TSK \ {t} : wi[u] = k.winfo[u] /\ wo[u] = k.wobj[u]
       /\ wi[t] = e
  BY <1>8
<1> HIDE DEF wi, wo
<1>11. /\ d.tstat = k.tstat /\ d.tmevt = k.tmevt \ {t} /\ d.winfo = wi /\ d.wobj = wo
       /\ d.tskatr = k.tskatr /\ d.actque = k.actque /\ d.wupque = k.wupque
       /\ d.pending = k.pending /\ d.lastmtx = k.lastmtx /\ d.priority = k.priority
       /\ SameSystem(k, d) /\ SameSched(k, d, Ready(k) \ X) /\ d.wait_queue = wq
  BY <1>1, <1>9 DEF KState, SameSystem, SameSched
<1>12. \A u \in TSK \ (X \cup {t}) : SameTask(k, d, u)
  BY <1>10, <1>11 DEF SameTask, SameState
<1>13. QueuesOK(d, X \cup {t})
  <2>1. /\ d.wait_queue = w.wait_queue /\ d.wobjatr = w.wobjatr /\ d.tstat = w.tstat
        /\ d.priority = w.priority
    BY <1>2, <1>7 DEF KState
  <2>2. \A u \in TSK \ (X \cup {t}) : SameWait(w, d, u)
    BY <1>8, <1>10, <1>11, <2>1 DEF SameWait, TSTAT_WAIT_WOBJ
  <2>3. QED  BY <1>2, <2>1, <2>2, QueuesKept
<1>14. Woken(k, X, d, t)
  BY <1>10, <1>11, <1>12, <1>13 DEF Woken
<1>15. WaitOver(k, d, t)
  BY <1>9, <1>10, <1>11 DEF WaitOver
<1>16. d.wait_queue = w.wait_queue
  BY <1>1, <1>3, <1>11 DEF KState
<1>17. QED  BY <1>6, <1>14, <1>15, <1>16 DEF d, w, EndedWait

\* The task is given the mutex as well.
LEMMA GrantWoken ==
  ASSUME NEW k, NEW X, GoodBut(k, X), NEW t \in TSK, t \notin X, TSTAT_WAITING(k, t),
         NEW d \in KState, Woken(k, X, d, t), NEW m \in MTX, NEW p \in PRI
  PROVE  LET a == [d EXCEPT !.loctsk[m] = t, !.lastmtx[t] = <<m>> \o @, !.priority[t] = p] IN
         a \in KState /\ Woken(k, X, a, t)
<1> DEFINE lo == [d.loctsk EXCEPT ![m] = t]
           lm == [d.lastmtx EXCEPT ![t] = <<m>> \o d.lastmtx[t]]
           pr == [d.priority EXCEPT ![t] = p]
           a == [d EXCEPT !.loctsk = lo, !.lastmtx = lm, !.priority = pr]
<1>1. /\ lo \in [MTX -> TSK \cup {NULL}] /\ lm \in [TSK -> Seq(MTX)] /\ pr \in [TSK -> PRI]
      /\ \A u \in TSK \ {t} : lm[u] = d.lastmtx[u] /\ pr[u] = d.priority[u]
  <2>1. d.lastmtx \in [TSK -> Seq(MTX)] /\ d.loctsk \in [MTX -> TSK \cup {NULL}]
        /\ d.priority \in [TSK -> PRI]
    BY DEF KState
  <2>2. d.lastmtx[t] \in Seq(MTX)  BY <2>1
  <2>3. <<m>> \o d.lastmtx[t] \in Seq(MTX)  BY <2>2
  <2>4. QED  BY <2>1, <2>3
<1> HIDE DEF lo, lm, pr
<1>2. a \in KState  BY ZenonT(60), <1>1 DEF KState
<1>3. /\ a.tstat = d.tstat /\ a.tmevt = d.tmevt /\ a.winfo = d.winfo /\ a.wobj = d.wobj
      /\ a.tskatr = d.tskatr /\ a.actque = d.actque /\ a.wupque = d.wupque
      /\ a.pending = d.pending /\ a.lastmtx = lm /\ a.priority = pr
      /\ a.wait_queue = d.wait_queue /\ a.wobjatr = d.wobjatr /\ SameSystem(d, a)
      /\ a.ready_queue = d.ready_queue /\ a.ready_primap = d.ready_primap
      /\ a.schedtsk = d.schedtsk /\ a.runtsk = d.runtsk /\ a.dspflg = d.dspflg
      /\ a.failed = d.failed
  BY DEF KState, SameSystem
<1> HIDE DEF a
<1>4. \A u \in TSK \ (X \cup {t}) : SameTask(k, a, u)
  BY <1>1, <1>3, SMTT(40) DEF Woken, SameTask, SameState
<1>5. t \notin Ready(k) /\ Ready(k) \subseteq TSK
  BY TaskStates DEF GoodBut, SchedInv, Ready
<1>6. SameSched(k, a, Ready(k) \ X)
  BY <1>1, <1>3, <1>5 DEF Woken, SameSched
<1>7. QueuesOK(a, X \cup {t})
  <2>1. \A u \in TSK \ (X \cup {t}) : SameWait(d, a, u)
    BY <1>1, <1>3 DEF SameWait, TSTAT_WAIT_WOBJ
  <2>2. QED  BY <1>3, <2>1, QueuesKept DEF Woken
<1>8. Woken(k, X, a, t)
  BY <1>3, <1>4, <1>6, <1>7 DEF Woken, SameSystem
<1>9. QED  BY <1>2, <1>8 DEF a, lo, lm, pr

----------------------------------------------------------------------------
(* The end of the wait of the first task in a queue, of all of them, and   *)
(* the release of one mutex and of all those of a task.                    *)

\* What a wait that ends does not touch in the other tasks and in the system.
Aside(k, r) ==
  /\ SameSystem(k, r) /\ r.tmevt \subseteq k.tmevt /\ r.cfg = k.cfg
  /\ r.runtsk = k.runtsk /\ r.ceilpri = k.ceilpri /\ r.bpriority = k.bpriority

SameOwners(k, r) ==
  /\ r.lastmtx = k.lastmtx /\ r.loctsk = k.loctsk /\ r.priority = k.priority

\* A task that waits in r waits in k, and for the same.
FewerWaits(k, r) ==
  \A u \in TSK : \/ r.tstat[u].wai = "none"
                 \/ r.tstat[u].wai = k.tstat[u].wai /\ r.wobj[u] = k.wobj[u]

LEMMA OverFields ==
  ASSUME NEW k \in KState, NEW t, NEW d, WaitOver(k, d, t)
  PROVE  /\ Aside(k, d) /\ SameOwners(k, d)
         /\ d.tstat = k.tstat /\ d.actque = k.actque /\ d.tmevt = k.tmevt \ {t}
<1> DEFINE wq == d.wait_queue
           wi == d.winfo
           wo == d.wobj
<1>1. d = [k EXCEPT !.wait_queue = wq, !.tmevt = k.tmevt \ {t}, !.winfo = wi, !.wobj = wo]
  BY DEF WaitOver
<1> HIDE DEF wq, wi, wo
<1>2. QED  BY <1>1 DEF Aside, SameOwners, SameSystem, KState

LEMMA AsideOver ==
  ASSUME NEW k \in KState, NEW t \in TSK, NEW d, WaitOver(k, d, t), d \in KState
  PROVE  LET r == make_non_wait(d, t) IN
         /\ Aside(k, r) /\ SameOwners(k, r) /\ FewerWaits(k, r)
         /\ r.wait_queue = d.wait_queue
<1> DEFINE r == make_non_wait(d, t)
<1>1. Aside(k, d) /\ SameOwners(k, d) /\ d.tstat = k.tstat
  BY OverFields
<1>2. SameObjects(d, r) /\ \E s \in TSTAT : s.wai = "none" /\ r.tstat = [d.tstat EXCEPT ![t] = s]
  BY MakeNonWait
<1> HIDE DEF r
<1>3. Aside(k, r) /\ SameOwners(k, r) /\ r.wait_queue = d.wait_queue
  BY <1>1, <1>2 DEF Aside, SameOwners, SameObjects, SameSystem
<1>4. FewerWaits(k, r)
  <2>1. \A u \in TSK \ {t} : r.tstat[u] = k.tstat[u] /\ r.wobj[u] = k.wobj[u]
    BY <1>1, <1>2 DEF WaitOver, SameObjects, KState
  <2>2. r.tstat[t].wai = "none"  BY <1>1, <1>2 DEF KState
  <2>3. QED  BY <2>1, <2>2 DEF FewerWaits
<1>5. QED  BY <1>3, <1>4 DEF r

\* The wait of t ends, by whatever way, with the code e.
LEMMA WaitEnds ==
  ASSUME NEW k, Good(k), NEW t \in TSK, TSTAT_WAITING(k, t), NEW e \in WERCD
  PROVE  Good(make_non_wait(EndedWait(k, t, e), t))
<1>1. GoodBut(k, {})  BY GoodAll
<1>2. EndedWait(k, t, e) \in KState /\ Woken(k, {}, EndedWait(k, t, e), t)
  BY <1>1, EndWait
<1>3. QED  BY <1>2, Wake

LEMMA MutexReleaseBut ==
  ASSUME NEW k, NEW X, GoodBut(k, X), NEW m \in MTX
  PROVE  LET r == mutex_release(k, m) IN
         /\ GoodBut(r, X) /\ Aside(k, r) /\ FewerWaits(k, r)
         /\ \A x \in X : r.lastmtx[x] = k.lastmtx[x]
<1> DEFINE r == mutex_release(k, m)
<1>1. k \in KState /\ QueuesOK(k, X) /\ m \in OBJ
  BY DEF GoodBut, SchedInv, OBJ
<1>2. CASE k.wait_queue[m] = <<>>
  <2>1. r = [k EXCEPT !.loctsk[m] = NULL]  BY <1>2 DEF mutex_release
  <2> HIDE DEF r
  <2>2. r \in KState  BY <1>1, <2>1, ZenonT(60) DEF KState
  <2>3. /\ Aside(k, r) /\ FewerWaits(k, r) /\ SameSched(k, r, Ready(k) \ X) /\ r.wait_queue = k.wait_queue
        /\ r.tstat = k.tstat /\ r.lastmtx = k.lastmtx /\ SameSystem(k, r)
        /\ \A u \in TSK \ X : SameTask(k, r, u)
    BY <1>1, <2>1 DEF KState, Aside, FewerWaits, SameSystem, SameSched, SameTask, SameState
  <2>4. Ready(r) = Ready(k)  BY <2>3 DEF Ready, TSTAT_RUNNABLE
  <2>5. GoodBut(r, X)  BY <2>2, <2>3, <2>4, AllSame
  <2>6. QED  BY <2>3, <2>5 DEF r
<1>3. CASE k.wait_queue[m] # <<>>
  <2> DEFINE t == Head(k.wait_queue[m])
             d == EndedWait(k, t, "E_OK")
             p == IF MTX_CEILING(k, m) /\ k.ceilpri[m] < k.priority[t]
                  THEN k.ceilpri[m] ELSE k.priority[t]
             a == [d EXCEPT !.loctsk[m] = t, !.lastmtx[t] = <<m>> \o @, !.priority[t] = p]
  <2>1. /\ t \in TSK /\ t \notin X /\ TSTAT_WAIT_WOBJ(k, t)
        /\ [k EXCEPT !.wait_queue[m] = Tail(@)] = wait_dequeue_wobj(k, t)
    BY <1>1, <1>3, HeadLeaves
  <2>2. TSTAT_WAITING(k, t)
    BY <2>1 DEF TSTAT_WAIT_WOBJ, TSTAT_WAITING, FACTOR
  <2> HIDE DEF t
  <2>3. d \in KState /\ Woken(k, X, d, t) /\ WaitOver(k, d, t)
    BY <2>1, <2>2, EndWait DEF WERCD
  <2>4. SameOwners(k, d) /\ d.tstat = k.tstat /\ Aside(k, d)
    BY <1>1, <2>3, OverFields
  <2>5. r = make_non_wait(a, t)
    BY <1>3, <2>1, <2>4 DEF mutex_release, EndedWait, SameOwners, t
  <2> HIDE DEF d
  <2>6. p \in PRI  BY <1>1, <2>1 DEF KState
  <2> HIDE DEF p
  <2>7. a \in KState /\ Woken(k, X, a, t)
    BY <2>1, <2>2, <2>3, <2>6, GrantWoken
  <2>8. /\ a.lastmtx = [k.lastmtx EXCEPT ![t] = <<m>> \o k.lastmtx[t]] /\ Aside(k, a)
        /\ a.tstat = k.tstat /\ a.wobj = d.wobj
    <3>1. /\ a.lastmtx = [d.lastmtx EXCEPT ![t] = <<m>> \o d.lastmtx[t]] /\ Aside(d, a)
          /\ a.tstat = d.tstat /\ a.wobj = d.wobj
      BY <2>3 DEF KState, Aside, SameSystem
    <3>2. QED  BY <2>4, <3>1 DEF Aside, SameOwners, SameSystem
  <2> HIDE DEF a, r
  <2>9. GoodBut(r, X)
    BY <2>1, <2>2, <2>5, <2>7, WakeBut
  <2>10. /\ SameObjects(a, r)
         /\ \E s \in TSTAT : s.wai = "none" /\ r.tstat = [a.tstat EXCEPT ![t] = s]
    BY <2>1, <2>5, <2>7, MakeNonWait
  <2>11. Aside(k, r)  BY <2>8, <2>10 DEF SameObjects, Aside, SameSystem
  <2>12. \A x \in X : r.lastmtx[x] = k.lastmtx[x]
    <3>1. k.lastmtx \in [TSK -> Seq(MTX)]  BY <1>1 DEF KState
    <3>2. QED  BY <2>1, <2>8, <2>10, <3>1 DEF SameObjects
  <2>13. FewerWaits(k, r)
    <3>1. \A u \in TSK \ {t} : r.tstat[u] = k.tstat[u] /\ r.wobj[u] = k.wobj[u]
      BY <1>1, <2>3, <2>8, <2>10 DEF WaitOver, SameObjects, KState
    <3>2. r.tstat[t].wai = "none"  BY <1>1, <2>1, <2>8, <2>10 DEF KState
    <3>3. QED  BY <3>1, <3>2 DEF FewerWaits
  <2>14. QED  BY <2>9, <2>11, <2>12, <2>13 DEF r
<1>4. QED  BY <1>2, <1>3

\* What each number inherits from the one before holds of all of them (Bad is the set
\* of those for which it does not).
LEMMA NoneBad ==
  ASSUME NEW Bad \in SUBSET Nat, \A n \in Bad : n - 1 \in Bad
  PROVE  Bad = {}
<1>1. SUFFICES ASSUME Bad # {} PROVE FALSE  OBVIOUS
<1> DEFINE n == primap_search(Bad)
<1>2. n \in Bad /\ \A q \in Bad : n <= q  BY <1>1, PrimapSearch
<1> HIDE DEF n
<1>3. n - 1 \in Bad  BY <1>2
<1>4. n <= n - 1 /\ n \in Nat  BY <1>2, <1>3
<1>5. QED  BY <1>4

\* init_wait_queue as the table of its intermediate states.
InitStep(x, o, t) == LET d == [x EXCEPT !.wait_queue[o] = Tail(@)]
                     IN  make_non_wait(SetWercd(wait_dequeue_tmevtb(d, t), t, "E_DLT"), t)

LEMMA InitTable ==
  ASSUME NEW k, NEW o, NEW q, q = k.wait_queue[o], Len(q) \in Nat
  PROVE  \E g : /\ g[0] = k
                /\ \A n \in 1 .. Len(q) : g[n] = InitStep(g[n - 1], o, q[n])
                /\ init_wait_queue(k, o) = g[Len(q)]
<1> DEFINE Step(g, n) == IF n = 0 THEN k ELSE InitStep(g[n - 1], o, q[n])
           Fits(g, N) == g = [n \in 0 .. N |-> Step(g, n)]
           Bad == {N \in Nat : ~ \E g : Fits(g, N)}
           after == CHOOSE g : Fits(g, Len(q))
<1>1. \E g : Fits(g, 0)
  <2>1. Fits([n \in 0 .. 0 |-> k], 0)  OBVIOUS
  <2>2. QED  BY <2>1
<1>2. ASSUME NEW N \in Nat, NEW g, Fits(g, N) PROVE \E f : Fits(f, N + 1)
  <2> DEFINE f == [n \in 0 .. N + 1 |-> Step(g, n)]
  <2>1. ASSUME NEW n \in 0 .. N PROVE f[n] = g[n]
    <3>1. n \in 0 .. N + 1  OBVIOUS
    <3>2. f[n] = Step(g, n)  BY <3>1
    <3>3. g[n] = Step(g, n)  BY <1>2
    <3>4. QED  BY <3>2, <3>3
  <2>2. ASSUME NEW n \in 0 .. N + 1 PROVE f[n] = Step(f, n)
    <3>1. f[n] = Step(g, n)  OBVIOUS
    <3>2. CASE n = 0
      <4> HIDE DEF f
      <4>1. QED  BY <3>1, <3>2
    <3>3. CASE n # 0
      <4>1. n - 1 \in 0 .. N  BY <3>3
      <4>2. f[n - 1] = g[n - 1]  BY <2>1, <4>1
      <4> HIDE DEF f
      <4>3. Step(g, n) = Step(f, n)  BY <4>2
      <4>4. QED  BY <3>1, <4>3
    <3>4. QED  BY <3>2, <3>3
  <2>3. f = [n \in 0 .. N + 1 |-> Step(f, n)]
    <3>1. f = [n \in 0 .. N + 1 |-> f[n]]  OBVIOUS
    <3> HIDE DEF f, Step
    <3>2. QED  BY <2>2, <3>1
  <2> HIDE DEF f
  <2>4. QED  BY <2>3
<1>3. Bad = {}
  <2>1. \A N \in Bad : N - 1 \in Bad
    <3> SUFFICES ASSUME NEW N \in Bad PROVE N - 1 \in Bad  OBVIOUS
    <3> HIDE DEF Fits
    <3>1. N # 0  BY <1>1
    <3>2. N - 1 \in Nat /\ (N - 1) + 1 = N  BY <3>1
    <3>3. QED  BY <1>2, <3>2
  <2>2. Bad \in SUBSET Nat  OBVIOUS
  <2> HIDE DEF Bad
  <2>3. QED  BY <2>1, <2>2, NoneBad
<1>4. Fits(after, Len(q))
  <2> HIDE DEF Fits
  <2>1. QED  BY <1>3
<1>5. init_wait_queue(k, o) = after[Len(q)]
  BY DEF init_wait_queue, InitStep
<1> HIDE DEF after
<1>6. after[0] = k  BY <1>4
<1>7. ASSUME NEW n \in 1 .. Len(q)  PROVE after[n] = InitStep(after[n - 1], o, q[n])
  <2>1. n \in 0 .. Len(q) /\ n # 0  OBVIOUS
  <2>2. QED  BY <1>4, <2>1
<1>8. QED  BY <1>5, <1>6, <1>7

\* All the tasks in a queue are released with E_DLT.
LEMMA InitWaitQueue ==
  ASSUME NEW k, Good(k), NEW o \in OBJ
  PROVE  LET r == init_wait_queue(k, o) IN
         /\ Good(r) /\ Aside(k, r) /\ SameOwners(k, r) /\ FewerWaits(k, r)
         /\ r.wait_queue = [k.wait_queue EXCEPT ![o] = <<>>]
<1> DEFINE q == k.wait_queue[o]
           L == Len(q)
<1>1. k \in KState /\ q \in Seq(TSK) /\ L \in Nat
  BY SMTT(40) DEF Good, SchedInv, KState
<1>2. PICK g : /\ g[0] = k
               /\ \A n \in 1 .. L : g[n] = InitStep(g[n - 1], o, q[n])
               /\ init_wait_queue(k, o) = g[L]
  BY <1>1, InitTable
<1> DEFINE Upto(n) == [k.wait_queue EXCEPT ![o] = SubSeq(q, n + 1, L)]
           P(n) == /\ Good(g[n]) /\ Aside(k, g[n]) /\ SameOwners(k, g[n]) /\ FewerWaits(k, g[n])
                   /\ g[n].wait_queue = Upto(n)
           Bad == {n \in 0 .. L : ~P(n)}
<1>3. k.wait_queue \in [OBJ -> Seq(TSK)]  BY <1>1 DEF KState
<1> HIDE DEF q
<1>4. P(0)
  <2>1. Upto(0) = k.wait_queue
    <3>1. SubSeq(q, 0 + 1, L) = k.wait_queue[o]  BY <1>1 DEF q
    <3> HIDE DEF L
    <3>2. QED  BY <1>3, <3>1
  <2>2. Aside(k, k) /\ SameOwners(k, k) /\ FewerWaits(k, k)
    BY DEF Aside, SameOwners, FewerWaits, SameSystem
  <2>3. QED  BY <1>2, <2>1, <2>2
<1>5. ASSUME NEW n \in 1 .. L, P(n - 1)  PROVE P(n)
  <2> DEFINE h == g[n - 1]
             t == q[n]
             d == EndedWait(h, t, "E_DLT")
  <2>1. /\ Good(h) /\ Aside(k, h) /\ SameOwners(k, h) /\ FewerWaits(k, h)
        /\ h.wait_queue = Upto(n - 1) /\ GoodBut(h, {}) /\ h \in KState
    BY <1>5, GoodAll DEF Good, SchedInv
  <2>2. g[n] = InitStep(h, o, t)  BY <1>2
  <2> HIDE DEF h
  <2>3. h.wait_queue[o] = SubSeq(q, n, L)  BY <1>3, <2>1
  <2>4. /\ SubSeq(q, n, L) # <<>> /\ Head(SubSeq(q, n, L)) = t
        /\ Tail(SubSeq(q, n, L)) = SubSeq(q, n + 1, L)
    <3>1. /\ Head(SubSeq(q, n, L)) = q[n] /\ Tail(SubSeq(q, n, L)) = SubSeq(q, n + 1, L)
      BY <1>1, HeadTailOfSubSeq
    <3> DEFINE s == SubSeq(q, n, L)
    <3>2. Len(s) # 0  BY <1>1
    <3> HIDE DEF s
    <3>3. s # <<>>  BY <3>2
    <3>4. QED  BY <3>1, <3>3 DEF s
  <2> HIDE DEF t
  <2>5. /\ t \in TSK /\ TSTAT_WAIT_WOBJ(h, t)
        /\ [h EXCEPT !.wait_queue[o] = Tail(@)] = wait_dequeue_wobj(h, t)
    <3>1. h.wait_queue[o] # <<>> /\ t = Head(h.wait_queue[o]) /\ QueuesOK(h, {})
      BY <2>1, <2>3, <2>4 DEF GoodBut
    <3>2. QED  BY <2>1, <3>1, HeadLeaves
  <2>6. TSTAT_WAITING(h, t)
    BY <2>5 DEF TSTAT_WAIT_WOBJ, TSTAT_WAITING, FACTOR
  <2>7. g[n] = make_non_wait(d, t)
    BY <2>2, <2>5 DEF InitStep, EndedWait
  <2>8. d \in KState /\ WaitOver(h, d, t) /\ d.wait_queue = wait_dequeue_wobj(h, t).wait_queue
    BY <2>1, <2>5, <2>6, EndWait DEF WERCD
  <2>9. Good(make_non_wait(d, t))
    BY <2>1, <2>5, <2>6, WaitEnds DEF WERCD
  <2> HIDE DEF d
  <2>10. /\ Aside(h, g[n]) /\ SameOwners(h, g[n]) /\ FewerWaits(h, g[n])
         /\ g[n].wait_queue = d.wait_queue
    BY <2>1, <2>5, <2>7, <2>8, AsideOver
  <2>11. Aside(k, g[n]) /\ SameOwners(k, g[n]) /\ FewerWaits(k, g[n])
    BY <2>1, <2>10 DEF Aside, SameOwners, FewerWaits, SameSystem
  <2>12. g[n].wait_queue = Upto(n)
    <3>1. wait_dequeue_wobj(h, t).wait_queue = [h.wait_queue EXCEPT ![o] = Tail(h.wait_queue[o])]
      <4>1. [h EXCEPT !.wait_queue[o] = Tail(@)].wait_queue
              = [h.wait_queue EXCEPT ![o] = Tail(h.wait_queue[o])]
        BY <2>1 DEF KState
      <4>2. QED  BY <2>5, <4>1
    <3>2. [h.wait_queue EXCEPT ![o] = SubSeq(q, n + 1, L)] = Upto(n)
      BY <1>3, <2>1
    <3> HIDE DEF Upto, L
    <3>3. QED  BY <2>3, <2>4, <2>8, <2>10, <3>1, <3>2
  <2>13. QED  BY <2>7, <2>9, <2>11, <2>12
<1>6. Bad = {}
  <2> HIDE DEF P, L
  <2>1. \A n \in Bad : n - 1 \in Bad
    <3> SUFFICES ASSUME NEW n \in Bad PROVE n - 1 \in Bad  OBVIOUS
    <3>1. n # 0 /\ n \in 0 .. L  BY <1>4
    <3>2. n \in 1 .. L /\ n - 1 \in 0 .. L  BY <1>1, <3>1
    <3>3. QED  BY <1>5, <3>2
  <2>2. Bad \in SUBSET Nat  BY <1>1
  <2> HIDE DEF Bad
  <2>3. QED  BY <2>1, <2>2, NoneBad
<1>7. P(L)
  <2> HIDE DEF P
  <2>1. L \in 0 .. L  BY <1>1
  <2>2. QED  BY <1>6, <2>1
<1>8. SubSeq(q, L + 1, L) = <<>>  BY <1>1
<1>9. QED  BY <1>2, <1>7, <1>8

\* mutex_release_all as the table of its intermediate states.
ReleaseStep(x, t, m) == mutex_release([x EXCEPT !.lastmtx[t] = Tail(@)], m)

LEMMA ReleaseTable ==
  ASSUME NEW k, NEW t, NEW q, q = k.lastmtx[t], Len(q) \in Nat
  PROVE  \E g : /\ g[0] = k
                /\ \A n \in 1 .. Len(q) : g[n] = ReleaseStep(g[n - 1], t, q[n])
                /\ mutex_release_all(k, t) = g[Len(q)]
<1> DEFINE Step(g, n) == IF n = 0 THEN k ELSE ReleaseStep(g[n - 1], t, q[n])
           Fits(g, N) == g = [n \in 0 .. N |-> Step(g, n)]
           Bad == {N \in Nat : ~ \E g : Fits(g, N)}
           after == CHOOSE g : Fits(g, Len(q))
<1>1. \E g : Fits(g, 0)
  <2>1. Fits([n \in 0 .. 0 |-> k], 0)  OBVIOUS
  <2>2. QED  BY <2>1
<1>2. ASSUME NEW N \in Nat, NEW g, Fits(g, N) PROVE \E f : Fits(f, N + 1)
  <2> DEFINE f == [n \in 0 .. N + 1 |-> Step(g, n)]
  <2>1. ASSUME NEW n \in 0 .. N PROVE f[n] = g[n]
    <3>1. n \in 0 .. N + 1  OBVIOUS
    <3>2. f[n] = Step(g, n)  BY <3>1
    <3>3. g[n] = Step(g, n)  BY <1>2
    <3>4. QED  BY <3>2, <3>3
  <2>2. ASSUME NEW n \in 0 .. N + 1 PROVE f[n] = Step(f, n)
    <3>1. f[n] = Step(g, n)  OBVIOUS
    <3>2. CASE n = 0
      <4> HIDE DEF f
      <4>1. QED  BY <3>1, <3>2
    <3>3. CASE n # 0
      <4>1. n - 1 \in 0 .. N  BY <3>3
      <4>2. f[n - 1] = g[n - 1]  BY <2>1, <4>1
      <4> HIDE DEF f
      <4>3. Step(g, n) = Step(f, n)  BY <4>2
      <4>4. QED  BY <3>1, <4>3
    <3>4. QED  BY <3>2, <3>3
  <2>3. f = [n \in 0 .. N + 1 |-> Step(f, n)]
    <3>1. f = [n \in 0 .. N + 1 |-> f[n]]  OBVIOUS
    <3> HIDE DEF f, Step
    <3>2. QED  BY <2>2, <3>1
  <2> HIDE DEF f
  <2>4. QED  BY <2>3
<1>3. Bad = {}
  <2>1. \A N \in Bad : N - 1 \in Bad
    <3> SUFFICES ASSUME NEW N \in Bad PROVE N - 1 \in Bad  OBVIOUS
    <3> HIDE DEF Fits
    <3>1. N # 0  BY <1>1
    <3>2. N - 1 \in Nat /\ (N - 1) + 1 = N  BY <3>1
    <3>3. QED  BY <1>2, <3>2
  <2>2. Bad \in SUBSET Nat  OBVIOUS
  <2> HIDE DEF Bad
  <2>3. QED  BY <2>1, <2>2, NoneBad
<1>4. Fits(after, Len(q))
  <2> HIDE DEF Fits
  <2>1. QED  BY <1>3
<1>5. mutex_release_all(k, t) = after[Len(q)]
  BY DEF mutex_release_all, ReleaseStep
<1> HIDE DEF after
<1>6. after[0] = k  BY <1>4
<1>7. ASSUME NEW n \in 1 .. Len(q)  PROVE after[n] = ReleaseStep(after[n - 1], t, q[n])
  <2>1. n \in 0 .. Len(q) /\ n # 0  OBVIOUS
  <2>2. QED  BY <1>4, <2>1
<1>8. QED  BY <1>5, <1>6, <1>7

\* A task that is being terminated gives up the last mutex it locked.
LEMMA ReleaseStepBut ==
  ASSUME NEW k, NEW t \in TSK, GoodBut(k, {t}), k.lastmtx[t] # <<>>, NEW m, m = Head(k.lastmtx[t])
  PROVE  LET x == [k EXCEPT !.lastmtx[t] = Tail(@)]
             r == ReleaseStep(k, t, m)
         IN  /\ m \in MTX /\ GoodBut(x, {t}) /\ r = mutex_release(x, m)
             /\ GoodBut(r, {t}) /\ Aside(k, r) /\ FewerWaits(k, r)
             /\ r.lastmtx[t] = Tail(k.lastmtx[t])
<1> DEFINE x == [k EXCEPT !.lastmtx[t] = Tail(@)]
           lm == [k.lastmtx EXCEPT ![t] = Tail(k.lastmtx[t])]
           r == ReleaseStep(k, t, m)
<1>1. k \in KState  BY DEF GoodBut, SchedInv
<1>2. k.lastmtx \in [TSK -> Seq(MTX)]  BY <1>1 DEF KState
<1>3. k.lastmtx[t] \in Seq(MTX)  BY <1>2
<1>4. m \in MTX /\ Tail(k.lastmtx[t]) \in Seq(MTX)  BY <1>3
<1>5. x = [k EXCEPT !.lastmtx = lm]  OBVIOUS
<1>6. /\ lm \in [TSK -> Seq(MTX)] /\ lm[t] = Tail(k.lastmtx[t])
      /\ \A u \in TSK \ {t} : lm[u] = k.lastmtx[u]
  BY <1>2, <1>4
<1>7. r = mutex_release(x, m)  BY DEF ReleaseStep
<1> HIDE DEF lm, x, r
<1>8. x \in KState  BY ZenonT(60), <1>1, <1>5, <1>6 DEF KState
<1>9. /\ Aside(k, x) /\ x.tstat = k.tstat /\ x.wobj = k.wobj /\ x.lastmtx = lm
      /\ SameSystem(k, x) /\ SameSched(k, x, Ready(k) \ {t}) /\ x.wait_queue = k.wait_queue
      /\ x.priority = k.priority /\ x.winfo = k.winfo /\ x.tmevt = k.tmevt
      /\ x.actque = k.actque /\ x.wupque = k.wupque /\ x.pending = k.pending
      /\ x.tskatr = k.tskatr
  BY <1>1, <1>5 DEF KState, Aside, SameSystem, SameSched
<1>10. GoodBut(x, {t})
  <2>1. \A u \in TSK \ {t} : SameTask(k, x, u)
    BY <1>6, <1>9 DEF SameTask, SameState
  <2>2. Ready(x) = Ready(k)  BY <1>9 DEF Ready, TSTAT_RUNNABLE
  <2>3. QED  BY <1>8, <1>9, <2>1, <2>2, AllSame
<1>11. GoodBut(r, {t}) /\ Aside(x, r) /\ FewerWaits(x, r) /\ r.lastmtx[t] = x.lastmtx[t]
  BY <1>4, <1>7, <1>10, MutexReleaseBut
<1>12. Aside(k, r) /\ FewerWaits(k, r)
  BY <1>9, <1>11 DEF Aside, FewerWaits, SameSystem
<1>13. QED  BY <1>4, <1>6, <1>7, <1>9, <1>10, <1>11, <1>12 DEF x, r

\* The n-th of the mutexes that are left when the first n - 1 are gone.
LEMMA NextOfList ==
  ASSUME NEW q \in Seq(MTX), NEW n \in 1 .. Len(q)
  PROVE  LET s == SubSeq(q, n, Len(q)) IN
         s # <<>> /\ Head(s) = q[n] /\ Tail(s) = SubSeq(q, n + 1, Len(q))
<1> DEFINE s == SubSeq(q, n, Len(q))
<1>1. Head(s) = q[n] /\ Tail(s) = SubSeq(q, n + 1, Len(q))  BY HeadTailOfSubSeq
<1>2. Len(s) # 0  OBVIOUS
<1> HIDE DEF s
<1>3. s # <<>>  BY <1>2
<1>4. QED  BY <1>1, <1>3 DEF s

\* All the mutexes of a task that is being terminated go to the tasks that wait for them.
LEMMA MutexReleaseAll ==
  ASSUME NEW k, NEW t \in TSK, GoodBut(k, {t})
  PROVE  LET r == mutex_release_all(k, t) IN
         /\ GoodBut(r, {t}) /\ Aside(k, r) /\ FewerWaits(k, r) /\ r.lastmtx[t] = <<>>
<1> DEFINE q == k.lastmtx[t]
           L == Len(q)
<1>1. k \in KState /\ q \in Seq(MTX) /\ L \in Nat
  <2>1. k \in KState  BY DEF GoodBut, SchedInv
  <2>2. k.lastmtx \in [TSK -> Seq(MTX)]  BY <2>1 DEF KState
  <2>3. q \in Seq(MTX)  BY <2>2
  <2>4. QED  BY <2>1, <2>3
<1>2. PICK g : /\ g[0] = k
               /\ \A n \in 1 .. L : g[n] = ReleaseStep(g[n - 1], t, q[n])
               /\ mutex_release_all(k, t) = g[L]
  BY <1>1, ReleaseTable
<1> DEFINE P(n) == /\ GoodBut(g[n], {t}) /\ Aside(k, g[n]) /\ FewerWaits(k, g[n])
                   /\ g[n].lastmtx[t] = SubSeq(q, n + 1, L)
           Bad == {n \in 0 .. L : ~P(n)}
<1> HIDE DEF q
<1>3. P(0)
  <2>1. SubSeq(q, 0 + 1, L) = k.lastmtx[t]  BY <1>1 DEF q
  <2>2. Aside(k, k) /\ FewerWaits(k, k)
    BY DEF Aside, FewerWaits, SameSystem
  <2>3. QED  BY <1>2, <2>1, <2>2
<1>4. ASSUME NEW n \in 1 .. L, P(n - 1)  PROVE P(n)
  <2> DEFINE h == g[n - 1]
             m == q[n]
  <2>1. /\ GoodBut(h, {t}) /\ Aside(k, h) /\ FewerWaits(k, h)
        /\ h.lastmtx[t] = SubSeq(q, n, L)
    BY <1>4
  <2>2. g[n] = ReleaseStep(h, t, m)  BY <1>2
  <2>3. /\ SubSeq(q, n, L) # <<>> /\ Head(SubSeq(q, n, L)) = m
        /\ Tail(SubSeq(q, n, L)) = SubSeq(q, n + 1, L)
    BY <1>1, NextOfList
  <2> HIDE DEF h, m, L
  <2>4. /\ GoodBut(g[n], {t}) /\ Aside(h, g[n]) /\ FewerWaits(h, g[n])
        /\ g[n].lastmtx[t] = SubSeq(q, n + 1, L)
    <3>1. h.lastmtx[t] # <<>> /\ m = Head(h.lastmtx[t])  BY <2>1, <2>3
    <3>2. GoodBut(h, {t})  BY <2>1
    <3>3. /\ GoodBut(ReleaseStep(h, t, m), {t}) /\ Aside(h, ReleaseStep(h, t, m))
          /\ FewerWaits(h, ReleaseStep(h, t, m))
          /\ ReleaseStep(h, t, m).lastmtx[t] = Tail(h.lastmtx[t])
      BY <3>1, <3>2, ReleaseStepBut
    <3>4. QED  BY <2>1, <2>2, <2>3, <3>3
  <2>5. Aside(k, g[n]) /\ FewerWaits(k, g[n])
    BY <2>1, <2>4 DEF Aside, FewerWaits, SameSystem
  <2>6. QED  BY <2>4, <2>5
<1>5. Bad = {}
  <2> HIDE DEF P, L
  <2>1. \A n \in Bad : n - 1 \in Bad
    <3> SUFFICES ASSUME NEW n \in Bad PROVE n - 1 \in Bad  OBVIOUS
    <3>1. n # 0 /\ n \in 0 .. L  BY <1>3
    <3>2. n \in 1 .. L /\ n - 1 \in 0 .. L  BY <1>1, <3>1
    <3>3. QED  BY <1>4, <3>2
  <2>2. Bad \in SUBSET Nat  BY <1>1
  <2> HIDE DEF Bad
  <2>3. QED  BY <2>1, <2>2, NoneBad
<1>6. P(L)
  <2> HIDE DEF P
  <2>1. L \in 0 .. L  BY <1>1
  <2>2. QED  BY <1>5, <2>1
<1>7. SubSeq(q, L + 1, L) = <<>>  BY <1>1
<1>8. QED  BY <1>2, <1>6, <1>7

\* make_wait: the running task leaves the ready queue; its state and the time limit
\* of its wait are recorded, and nothing else changes.
LEMMA WaitFields ==
  ASSUME NEW k, Good(k), k.dspflg, k.runtsk \in Ready(k), NEW factor \in FACTOR,
         NEW tmo \in BOOLEAN
  PROVE  LET t == k.runtsk
             r == make_wait(k, factor, tmo)
         IN  /\ r \in KState /\ SchedInv(r, Ready(r)) /\ SameSystem(k, r)
             /\ r.tstat = [k.tstat EXCEPT ![t] = TS_WAITING(factor)]
             /\ r.winfo = [k.winfo EXCEPT ![t] = IF tmo THEN "tmevtb" ELSE "null"]
             /\ r.tmevt = IF tmo THEN k.tmevt \cup {t} ELSE k.tmevt
             /\ r.actque = k.actque /\ r.wupque = k.wupque /\ r.pending = k.pending
             /\ r.lastmtx = k.lastmtx /\ r.priority = k.priority /\ r.wobj = k.wobj
             /\ r.wait_queue = k.wait_queue /\ r.runtsk = k.runtsk /\ r.tskatr = k.tskatr
<1> DEFINE t == k.runtsk
           d == [k EXCEPT !.tstat[t] = TS_WAITING(factor)]
           w == make_non_runnable(d, t)
           r == make_wait(k, factor, tmo)
           ev == IF tmo THEN w.tmevt \cup {t} ELSE w.tmevt
           wi == IF tmo THEN "tmevtb" ELSE "null"
<1>1. k \in KState /\ t \in TSK /\ k.tstat \in [TSK -> TSTAT]
  BY DEF Good, SchedInv, KState, Ready
<1>2. d \in KState
  BY <1>1, StateConstants DEF KState
<1>3. /\ d.tstat = [k.tstat EXCEPT ![t] = TS_WAITING(factor)]
      /\ SameSystem(k, d) /\ SameSched(k, d, Ready(k))
      /\ d.winfo = k.winfo /\ d.tmevt = k.tmevt
      /\ d.actque = k.actque /\ d.wupque = k.wupque /\ d.pending = k.pending
      /\ d.lastmtx = k.lastmtx /\ d.priority = k.priority /\ d.wobj = k.wobj
      /\ d.wait_queue = k.wait_queue /\ d.runtsk = k.runtsk /\ d.tskatr = k.tskatr
  BY <1>1 DEF KState, SameSystem, SameSched
<1> HIDE DEF d
<1>4. Ready(d) = Ready(k) \ {t}
  BY <1>1, <1>3, StateConstants DEF Ready, TSTAT_RUNNABLE
<1>5. w \in KState /\ SchedInv(w, Ready(w)) /\ OnlyQueues(d, w)
  <2> HIDE DEF t
  <2>1. t \in Ready(k)  BY DEF t
  <2>2. QED  BY <1>2, <1>3, <1>4, <2>1, LeavesReady
<1> HIDE DEF w
<1>6. r = [w EXCEPT !.winfo[t] = wi, !.tmevt = ev]
  BY DEF make_wait, w, d
<1> HIDE DEF r
<1>7. r \in KState
  <2>1. wi \in WINFO  BY DEF WINFO
  <2>2. ev \in SUBSET TSK  BY ZenonT(60), <1>1, <1>5 DEF KState
  <2> HIDE DEF wi, ev
  <2>3. w.winfo \in [TSK -> WINFO]  BY <1>5 DEF KState
  <2>4. [w.winfo EXCEPT ![t] = wi] \in [TSK -> WINFO]  BY <1>1, <2>1, <2>3
  <2>5. QED  BY ZenonT(60), <1>5, <1>6, <2>2, <2>4 DEF KState
<1>8. /\ r.tstat = w.tstat /\ r.winfo = [w.winfo EXCEPT ![t] = wi]
      /\ r.tmevt = ev
      /\ SameSystem(w, r) /\ SameSched(w, r, Ready(w))
      /\ r.actque = w.actque /\ r.wupque = w.wupque /\ r.pending = w.pending
      /\ r.lastmtx = w.lastmtx /\ r.priority = w.priority /\ r.wobj = w.wobj
      /\ r.wait_queue = w.wait_queue /\ r.runtsk = w.runtsk /\ r.tskatr = w.tskatr
  BY <1>1, <1>5, <1>6 DEF KState, SameSystem, SameSched
<1>9. SchedInv(r, Ready(r))
  <2>1. Ready(r) = Ready(w)  BY <1>8 DEF Ready, TSTAT_RUNNABLE
  <2>2. QED  BY <1>5, <1>7, <1>8, <2>1, OtherFields
<1>10. SameSystem(k, r)
  BY <1>3, <1>5, <1>8 DEF SameSystem, OnlyQueues
<1>11. QED
  BY <1>3, <1>5, <1>7, <1>8, <1>9, <1>10 DEF OnlyQueues, r, t

\* A task that has begun to wait is as it must be, if the object fits the factor.
LEMMA WaitBegun ==
  ASSUME NEW k \in KState, NEW t \in TSK, TaskOK(k, t), TSTAT_RUNNABLE(k, t), NEW r,
         NEW factor \in {"SLP", "DLY", "SEM", "MTX"}, NEW tmo \in BOOLEAN,
         factor = "SLP" => ~k.wupque[t],
         r.tstat[t] = TS_WAITING(factor), r.winfo[t] = IF tmo THEN "tmevtb" ELSE "null",
         t \in r.tmevt <=> tmo \/ t \in k.tmevt, r.wupque = k.wupque, r.tskatr = k.tskatr,
         factor = "SEM" => r.wobj[t] \in SEM, factor = "MTX" => r.wobj[t] \in MTX
  PROVE  TaskOK(r, t)
<1>1. k.tskatr[t] # "TA_NOEXS" /\ t \notin k.tmevt
  BY TaskStates DEF TaskOK
<1>2. /\ TS_WAITING(factor).wai = factor /\ factor # "none" /\ TS_WAITING(factor) # TS_DORMANT
  BY StateConstants DEF FACTOR
<1>3. WaitOK(r, t)
  BY <1>2 DEF WaitOK
<1>4. QED
  BY <1>1, <1>2, <1>3 DEF TaskOK, TSTAT_WAITING, TSTAT_DORMANT

\* The task gives the processor up: slp_tsk and dly_tsk.
LEMMA Wait ==
  ASSUME NEW k, Good(k), k.dspflg, k.runtsk \in Ready(k), NEW factor \in {"SLP", "DLY"},
         NEW tmo \in BOOLEAN, factor = "SLP" => ~k.wupque[k.runtsk]
  PROVE  Good(make_wait(k, factor, tmo))
<1> DEFINE t == k.runtsk
           r == make_wait(k, factor, tmo)
<1>1. /\ k \in KState /\ t \in TSK /\ TaskOK(k, t) /\ TSTAT_RUNNABLE(k, t)
      /\ k.tstat \in [TSK -> TSTAT] /\ k.winfo \in [TSK -> WINFO]
  BY DEF Good, SchedInv, Ready, KState
<1>2. factor \in FACTOR  BY DEF FACTOR
<1>3. /\ r \in KState /\ SchedInv(r, Ready(r)) /\ SameSystem(k, r)
      /\ r.tstat = [k.tstat EXCEPT ![t] = TS_WAITING(factor)]
      /\ r.winfo = [k.winfo EXCEPT ![t] = IF tmo THEN "tmevtb" ELSE "null"]
      /\ r.tmevt = IF tmo THEN k.tmevt \cup {t} ELSE k.tmevt
      /\ r.actque = k.actque /\ r.wupque = k.wupque /\ r.pending = k.pending
      /\ r.lastmtx = k.lastmtx /\ r.priority = k.priority /\ r.wobj = k.wobj
      /\ r.wait_queue = k.wait_queue /\ r.runtsk = k.runtsk /\ r.tskatr = k.tskatr
  BY <1>2, WaitFields
<1> HIDE DEF r, t
<1>4. \A u \in TSK \ {t} : SameTask(k, r, u)
  BY <1>1, <1>3 DEF SameTask, SameState
<1>5. /\ r.tstat[t] = TS_WAITING(factor) /\ r.winfo[t] = IF tmo THEN "tmevtb" ELSE "null"
      /\ (t \in r.tmevt <=> tmo \/ t \in k.tmevt)
  BY <1>1, <1>3
<1>6. TaskOK(r, t)
  BY <1>1, <1>3, <1>5, WaitBegun DEF t
<1>7. SameWait(k, r, t)
  <2>1. r.tstat[t].wai = factor /\ k.tstat[t].wai = "none"
    BY <1>1, <1>2, <1>5, StateConstants, TaskStates DEF TSTAT_WAITING
  <2>2. QED  BY <2>1 DEF SameWait, TSTAT_WAIT_WOBJ, FACTOR
<1>8. QED
  BY <1>1, <1>3, <1>4, <1>6, <1>7, OneTask DEF r

\* The task waits for a semaphore or a mutex: wai_sem and loc_mtx.
LEMMA WaitForObject ==
  ASSUME NEW k, Good(k), k.dspflg, k.runtsk \in Ready(k), NEW tmo \in BOOLEAN,
         NEW o \in OBJ, k.wobjatr[o] # "TA_NOEXS",
         NEW factor, (factor = "SEM" /\ o \in SEM) \/ (factor = "MTX" /\ o \in MTX)
  PROVE  Good(wobj_make_wait(k, o, factor, tmo))
<1> DEFINE t == k.runtsk
           w == make_wait(k, factor, tmo)
           q == IF k.wobjatr[o] \in {"TA_TPRI", "TA_CEILING"}
                THEN queue_insert_tpri(k.wait_queue[o], t, k.priority)
                ELSE Append(k.wait_queue[o], t)
           wq == [k.wait_queue EXCEPT ![o] = q]
           wo == [k.wobj EXCEPT ![t] = o]
           r == wobj_make_wait(k, o, factor, tmo)
<1>1. /\ k \in KState /\ t \in TSK /\ TaskOK(k, t) /\ TSTAT_RUNNABLE(k, t)
      /\ k.tstat \in [TSK -> TSTAT] /\ k.winfo \in [TSK -> WINFO]
      /\ k.wobj \in [TSK -> OBJ \cup {NULL}] /\ k.wait_queue \in [OBJ -> Seq(TSK)]
      /\ k.priority \in [TSK -> PRI]
  BY DEF Good, SchedInv, Ready, KState
<1>2. factor \in FACTOR /\ factor \in {"SEM", "MTX"}  BY DEF FACTOR
<1>3. /\ w \in KState /\ SchedInv(w, Ready(w)) /\ SameSystem(k, w)
      /\ w.tstat = [k.tstat EXCEPT ![t] = TS_WAITING(factor)]
      /\ w.winfo = [k.winfo EXCEPT ![t] = IF tmo THEN "tmevtb" ELSE "null"]
      /\ w.tmevt = IF tmo THEN k.tmevt \cup {t} ELSE k.tmevt
      /\ w.actque = k.actque /\ w.wupque = k.wupque /\ w.pending = k.pending
      /\ w.lastmtx = k.lastmtx /\ w.priority = k.priority /\ w.wobj = k.wobj
      /\ w.wait_queue = k.wait_queue /\ w.runtsk = k.runtsk /\ w.tskatr = k.tskatr
  BY <1>2, WaitFields
<1>4. r = [w EXCEPT !.wait_queue = wq, !.wobj = wo]
  <2> DEFINE x == [w EXCEPT !.wait_queue = wq]
  <2>1. wobj_queue_insert(w, o) = x
    BY <1>3 DEF wobj_queue_insert, SameSystem
  <2>2. r = [x EXCEPT !.wobj[t] = o]  BY <2>1 DEF wobj_make_wait
  <2>3. x.wobj = k.wobj  BY <1>3 DEF KState
  <2> HIDE DEF wq, w
  <2>4. QED  BY <2>2, <2>3
<1> HIDE DEF w, r, t
<1>5. /\ r.wait_queue = wq /\ r.wobj = wo /\ r.tstat = w.tstat /\ r.winfo = w.winfo
      /\ r.tmevt = w.tmevt /\ r.actque = w.actque /\ r.wupque = w.wupque
      /\ r.pending = w.pending /\ r.lastmtx = w.lastmtx /\ r.priority = w.priority
      /\ r.tskatr = w.tskatr /\ SameSystem(w, r) /\ SameSched(w, r, Ready(w))
  <2> HIDE DEF wq, wo
  <2>1. QED  BY <1>3, <1>4 DEF KState, SameSystem, SameSched
<1>6. /\ wq[o] = q /\ \A x \in OBJ \ {o} : wq[x] = k.wait_queue[x]
      /\ wo[t] = o /\ \A u \in TSK \ {t} : wo[u] = k.wobj[u]
  <2> HIDE DEF q
  <2>1. QED  BY <1>1
<1>7. \A u \in TSK \ {t} : SameTask(k, r, u)
  <2> HIDE DEF wq, wo
  <2>1. QED  BY <1>1, <1>3, <1>5, <1>6 DEF SameTask, SameState
<1>8. SameSystem(k, r)
  BY <1>3, <1>5 DEF SameSystem
<1>9. r.tstat[t].wai = factor /\ k.tstat[t].wai = "none"
  BY <1>1, <1>2, <1>3, <1>5, StateConstants, TaskStates DEF TSTAT_WAITING
<1>10. \A x \in OBJ, u \in TSK : u \in Waits(r, x) <=> u \in Waits(k, x) \/ (u = t /\ x = o)
  <2> HIDE DEF wq, wo
  <2>1. ASSUME NEW x \in OBJ, NEW u \in TSK
        PROVE  u \in Waits(r, x) <=> u \in Waits(k, x) \/ (u = t /\ x = o)
    <3>1. CASE u = t  BY <1>2, <1>5, <1>6, <1>9, <3>1 DEF Waits, TSTAT_WAIT_WOBJ, FACTOR
    <3>2. CASE u # t
      BY <1>7, <3>2 DEF SameTask, SameState, Waits, TSTAT_WAIT_WOBJ
    <3>3. QED  BY <3>1, <3>2
  <2>2. QED  BY <2>1
<1>11. QueueOK(r, o, Waits(r, o) \ {}) /\ q \in Seq(TSK)
  <2>1. QueueOK(k, o, Waits(k, o) \ {})  BY DEF Good, QueuesOK
  <2>2. t \notin Waits(k, o) \ {}  BY <1>9 DEF Waits, TSTAT_WAIT_WOBJ, FACTOR
  <2>3. r.wait_queue[o] = q /\ r.priority = k.priority /\ r.wobjatr[o] = k.wobjatr[o]
    BY <1>3, <1>5, <1>6, <1>8 DEF SameSystem
  <2>4. \A u \in TSK : u \in Waits(r, o) \ {} <=> u \in Waits(k, o) \ {} \/ u = t
    BY <1>10
  <2>5. r.wait_queue[o] = IF k.wobjatr[o] \in {"TA_TPRI", "TA_CEILING"}
                          THEN queue_insert_tpri(k.wait_queue[o], t, r.priority)
                          ELSE Append(k.wait_queue[o], t)
    BY <2>3
  <2>6. r.priority \in [TSK -> PRI] /\ \A u \in TSK \ {t} : r.priority[u] = k.priority[u]
    BY <1>1, <2>3
  <2> DEFINE S == Waits(k, o) \ {}
             T == Waits(r, o) \ {}
  <2> HIDE DEF q, wq, wo, S, T
  <2>7. QueueOK(r, o, T) /\ r.wait_queue[o] \in Seq(TSK)
    <3>1. QueueOK(k, o, S) /\ t \notin S /\ \A u \in TSK : u \in T <=> u \in S \/ u = t
      BY <2>1, <2>2, <2>4 DEF S, T
    <3>2. r.wobjatr[o] = k.wobjatr[o] /\ k \in KState /\ t \in TSK  BY <1>1, <2>3
    <3>3. QED  BY ZenonT(60), <2>5, <2>6, <3>1, <3>2, QueueEntered
  <2>8. QED  BY <2>3, <2>7 DEF T
<1> HIDE DEF q
<1>12. r \in KState
  <2>1. wq \in [OBJ -> Seq(TSK)] /\ wo \in [TSK -> OBJ \cup {NULL}]
    BY <1>1, <1>11
  <2> HIDE DEF wq, wo
  <2>2. QED  BY ZenonT(60), <1>3, <1>4, <2>1 DEF KState
<1> HIDE DEF wq, wo
<1>13. SchedInv(r, Ready(r) \ {})
  <2>1. Ready(r) \ {} = Ready(w)  BY <1>5 DEF Ready, TSTAT_RUNNABLE
  <2>2. QED  BY <1>3, <1>5, <1>12, <2>1, OtherFields
<1>14. QueuesOK(r, {})
  <2>1. QueuesOK(k, {})  BY DEF Good
  <2>2. ASSUME NEW x \in OBJ \ {o}
        PROVE  /\ r.wait_queue[x] = k.wait_queue[x] /\ r.wobjatr[x] = k.wobjatr[x]
               /\ \A u \in TSK : u \in Waits(r, x) \ {} <=> u \in Waits(k, x) \ {}
               /\ \A u \in Waits(k, x) \ {} : r.priority[u] = k.priority[u]
    BY <1>3, <1>5, <1>6, <1>8, <1>10 DEF SameSystem
  <2>3. QED  BY <1>1, <1>11, <2>1, <2>2, OtherQueues
<1>15. TaskOK(r, t)
  <2>1. /\ r.tstat[t] = TS_WAITING(factor) /\ r.winfo[t] = IF tmo THEN "tmevtb" ELSE "null"
        /\ (t \in r.tmevt <=> tmo \/ t \in k.tmevt) /\ r.wobj[t] = o
        /\ r.wupque = k.wupque /\ r.tskatr = k.tskatr
    BY <1>1, <1>3, <1>5, <1>6
  <2>2. QED  BY <1>1, <1>2, <2>1, WaitBegun
<1>16. GoodBut(r, {})
  <2>1. GoodBut(k, {})  BY GoodAll
  <2>2. \A u \in TSK \ ({} \cup {t}) : SameTask(k, r, u)  BY <1>7
  <2>3. QED  BY <1>1, <1>8, <1>12, <1>13, <1>14, <1>15, <2>1, <2>2, OneTaskBut
<1>17. QED  BY <1>16, GoodAll DEF r

LEMMA Activate ==
  ASSUME NEW k, Good(k), NEW t \in TSK, TSTAT_DORMANT(k, t), k.tskatr[t] # "TA_NOEXS"
  PROVE  Good(make_active(k, t))
<1> DEFINE d == [k EXCEPT !.tstat[t] = TS_RUNNABLE]
<1>1. k \in KState /\ TaskOK(k, t) /\ k.tstat \in [TSK -> TSTAT] /\ QueuesOK(k, {})
  BY DEF Good, SchedInv, KState
<1>2. d \in KState
  BY <1>1, StateConstants DEF KState
<1>3. ~TSTAT_RUNNABLE(k, t) /\ ~TSTAT_WAITING(k, t)
  BY <1>1, TaskStates
<1>4. Readied(k, {}, d, t)
  <2>1. /\ \A u \in TSK \ ({} \cup {t}) : SameTask(k, d, u)
        /\ SameSystem(k, d) /\ SameSched(k, d, Ready(k) \ {})
        /\ d.tstat = [k.tstat EXCEPT ![t] = TS_RUNNABLE]
        /\ d.winfo = k.winfo /\ d.tmevt = k.tmevt /\ d.wait_queue = k.wait_queue
        /\ d.wobj = k.wobj /\ d.priority = k.priority
    BY <1>1 DEF KState, SameTask, SameState, SameSystem, SameSched
  <2>2. d.winfo[t] \notin {"null", "tmevtb"} /\ t \notin d.tmevt
    BY <1>1, <1>3, <2>1 DEF TaskOK
  <2> HIDE DEF d
  <2>3. \A u \in TSK \ {} : SameWait(k, d, u)
    <3>1. SameWait(k, d, t)
      BY <1>1, <1>3, <2>1, StateConstants DEF SameWait, TSTAT_WAIT_WOBJ, TSTAT_WAITING, FACTOR
    <3>2. QED  BY <2>1, <3>1 DEF SameTask, SameState, SameWait, TSTAT_WAIT_WOBJ
  <2>4. QueuesOK(d, {})
    BY <1>1, <2>1, <2>3, QueuesKept DEF SameSystem
  <2>5. QED  BY <2>1, <2>2, <2>4 DEF Readied
<1>5. QED
  BY <1>2, <1>3, <1>4, MakeReady DEF make_active

\* A task in no queue becomes dormant.
LEMMA MakeDormant ==
  ASSUME NEW k \in KState, NEW t \in TSK
  PROVE  LET r == make_dormant(k, t) IN
         /\ r \in KState
         /\ r.tstat = [k.tstat EXCEPT ![t] = TS_DORMANT]
         /\ r.winfo = [k.winfo EXCEPT ![t] = "none"]
         /\ r.wupque = [k.wupque EXCEPT ![t] = FALSE]
         /\ r.pending = [k.pending EXCEPT ![t] = IDLE]
         /\ r.wobj = [k.wobj EXCEPT ![t] = NULL]
         /\ r.bpriority = [k.bpriority EXCEPT ![t] = k.ipriority[t]]
         /\ r.priority = [k.priority EXCEPT ![t] = k.ipriority[t]]
         /\ r.actque = k.actque /\ r.tmevt = k.tmevt /\ r.lastmtx = k.lastmtx
         /\ r.wait_queue = k.wait_queue /\ r.loctsk = k.loctsk /\ r.ceilpri = k.ceilpri
         /\ SameSystem(k, r)
         /\ \A S : S \subseteq TSK \ {t} => SameSched(k, r, S)
<1> DEFINE r == make_dormant(k, t)
<1>1. r \in KState
  <2>1. k.ipriority[t] \in PRI  BY DEF KState
  <2>2. /\ [k.tstat EXCEPT ![t] = TS_DORMANT] \in [TSK -> TSTAT]
        /\ [k.bpriority EXCEPT ![t] = k.ipriority[t]] \in [TSK -> PRI]
        /\ [k.priority EXCEPT ![t] = k.ipriority[t]] \in [TSK -> PRI]
        /\ [k.wupque EXCEPT ![t] = FALSE] \in [TSK -> BOOLEAN]
        /\ [k.raster EXCEPT ![t] = FALSE] \in [TSK -> BOOLEAN]
        /\ [k.enater EXCEPT ![t] = TRUE] \in [TSK -> BOOLEAN]
    BY <2>1, StateConstants DEF KState
  <2>3. /\ [k.winfo EXCEPT ![t] = "none"] \in [TSK -> WINFO]
        /\ [k.wobj EXCEPT ![t] = NULL] \in [TSK -> OBJ \cup {NULL}]
        /\ [k.pending EXCEPT ![t] = IDLE] \in [TSK -> PENDING \cup {IDLE}]
    BY DEF KState, WINFO
  <2> DEFINE ts == [k.tstat EXCEPT ![t] = TS_DORMANT]
             bp == [k.bpriority EXCEPT ![t] = k.ipriority[t]]
             pr == [k.priority EXCEPT ![t] = k.ipriority[t]]
             wu == [k.wupque EXCEPT ![t] = FALSE]
             ra == [k.raster EXCEPT ![t] = FALSE]
             en == [k.enater EXCEPT ![t] = TRUE]
             wi == [k.winfo EXCEPT ![t] = "none"]
             wo == [k.wobj EXCEPT ![t] = NULL]
             pe == [k.pending EXCEPT ![t] = IDLE]
  <2>4. r = [k EXCEPT !.tstat = ts, !.bpriority = bp, !.priority = pr, !.wupque = wu,
                      !.raster = ra, !.enater = en, !.winfo = wi, !.wobj = wo, !.pending = pe]
    BY DEF make_dormant
  <2> HIDE DEF ts, bp, pr, wu, ra, en, wi, wo, pe, r
  <2>5. QED
    BY ZenonT(60), <2>2, <2>3, <2>4 DEF KState, ts, bp, pr, wu, ra, en, wi, wo, pe
<1>2. /\ r.tstat = [k.tstat EXCEPT ![t] = TS_DORMANT]
      /\ r.winfo = [k.winfo EXCEPT ![t] = "none"]
      /\ r.wupque = [k.wupque EXCEPT ![t] = FALSE]
      /\ r.pending = [k.pending EXCEPT ![t] = IDLE]
      /\ r.wobj = [k.wobj EXCEPT ![t] = NULL]
      /\ r.bpriority = [k.bpriority EXCEPT ![t] = k.ipriority[t]]
      /\ r.priority = [k.priority EXCEPT ![t] = k.ipriority[t]]
      /\ r.actque = k.actque /\ r.tmevt = k.tmevt /\ r.lastmtx = k.lastmtx
      /\ r.wait_queue = k.wait_queue /\ r.loctsk = k.loctsk /\ r.ceilpri = k.ceilpri
      /\ SameSystem(k, r)
      /\ r.ready_queue = k.ready_queue /\ r.ready_primap = k.ready_primap
      /\ r.schedtsk = k.schedtsk /\ r.runtsk = k.runtsk /\ r.dspflg = k.dspflg
      /\ r.failed = k.failed
  BY ZenonT(60) DEF make_dormant, KState, SameSystem
<1> HIDE DEF r
<1>3. \A S : S \subseteq TSK \ {t} => SameSched(k, r, S)
  <2>1. k.priority \in [TSK -> PRI]  BY DEF KState
  <2>2. QED  BY <1>2, <2>1 DEF SameSched
<1>4. QED  BY <1>1, <1>2, <1>3 DEF r

\* A task that is being terminated leaves the ready queue, or the wait it is in.
Left(k, t) ==
  IF TSTAT_RUNNABLE(k, t) THEN make_non_runnable(k, t)
  ELSE IF TSTAT_WAITING(k, t) THEN wait_dequeue_tmevtb(wait_dequeue_wobj(k, t), t)
  ELSE k

\* A task that waits for no object can be left out of what the queues should hold.
LEMMA NotQueued ==
  ASSUME NEW k \in KState, QueuesOK(k, {}), NEW t, ~TSTAT_WAIT_WOBJ(k, t)
  PROVE  QueuesOK(k, {t})
<1>1. SUFFICES ASSUME NEW o \in OBJ  PROVE QueueOK(k, o, Waits(k, o) \ {t})
  BY DEF QueuesOK
<1>2. QueueOK(k, o, Waits(k, o) \ {})
  BY DEF QueuesOK
<1>3. Waits(k, o) \ {} = Waits(k, o) \ {t}
  BY DEF Waits
<1>4. QED  BY <1>2, <1>3

LEMMA LeaveAll ==
  ASSUME NEW k, Good(k), NEW t \in TSK, ~TSTAT_DORMANT(k, t), ~k.dspflg => t # k.schedtsk
  PROVE  LET w == Left(k, t) IN
         /\ GoodBut(w, {t}) /\ Aside(k, w) /\ SameOwners(k, w) /\ t \notin w.tmevt
         /\ w.tstat = k.tstat /\ w.wobj = k.wobj
<1> DEFINE w == Left(k, t)
           S == Ready(k) \ {t}
<1>1. /\ k \in KState /\ TaskOK(k, t) /\ SchedInv(k, Ready(k)) /\ ~k.failed /\ QueuesOK(k, {})
      /\ WaitOK(k, t) /\ SystemOK(k)
  BY DEF Good, SchedInv, TaskOK
<1>2. SUFFICES /\ w \in KState /\ SchedInv(w, S) /\ QueuesOK(w, {t})
               /\ w.tstat = k.tstat /\ w.wobj = k.wobj /\ t \notin w.tmevt
               /\ Aside(k, w) /\ SameOwners(k, w)
               /\ \A u \in TSK \ {t} : SameTask(k, w, u)
  <2> HIDE DEF w
  <2>1. SystemOK(w)  BY <1>1, <1>2 DEF Aside, SystemOK, SameSystem
  <2>2. ASSUME NEW u \in TSK \ {t}  PROVE TaskOK(w, u)
    <3>1. TaskOK(k, u) /\ SameState(k, w, u)  BY <1>2 DEF Good, SameTask
    <3>2. QED  BY <3>1, SameTaskOK
  <2>3. Ready(w) \ {t} = S  BY <1>2 DEF Ready, TSTAT_RUNNABLE
  <2>4. GoodBut(w, {t})  BY <1>2, <2>1, <2>2, <2>3 DEF GoodBut
  <2>5. QED  BY <1>2, <2>4 DEF w
<1>3. CASE TSTAT_RUNNABLE(k, t)
  <2>1. w = make_non_runnable(k, t) /\ t \in Ready(k)  BY <1>3 DEF Left, Ready
  <2>2. SchedInv(w, S) /\ OnlyQueues(k, w)  BY <1>1, <2>1, MakeNonRunnable
  <2>3. t \notin k.tmevt  BY <1>1, <1>3, TaskStates DEF TaskOK
  <2>4. QueuesOK(k, {t})
    <3>1. ~TSTAT_WAIT_WOBJ(k, t)
      BY <1>1, <1>3, TaskStates DEF TSTAT_WAIT_WOBJ, TSTAT_WAITING, FACTOR
    <3>2. QED  BY <1>1, <3>1, NotQueued
  <2> HIDE DEF w
  <2>5. QueuesOK(w, {t})  BY <1>1, <2>2, <2>4, OnlyQueuesKept
  <2>6. QED
    BY <2>2, <2>3, <2>5
       DEF SchedInv, OnlyQueues, Aside, SameOwners, SameSystem, SameTask, SameState
<1>4. CASE ~TSTAT_RUNNABLE(k, t) /\ TSTAT_WAITING(k, t)
  <2> DEFINE v == wait_dequeue_wobj(k, t)
  <2>1. PICK wq \in [OBJ -> Seq(TSK)] : v = [k EXCEPT !.wait_queue = wq]
    <3>1. t \notin {}  OBVIOUS
    <3>2. \E wq \in [OBJ -> Seq(TSK)] : v = [k EXCEPT !.wait_queue = wq]
      BY ZenonT(60), <1>1, <3>1, LeaveQueue
    <3>3. QED  BY <3>2
  <2>2. v \in KState /\ QueuesOK(v, {t})
    <3>1. v \in KState /\ QueuesOK(v, {} \cup {t})  BY <1>1, LeaveQueue
    <3>2. {} \cup {t} = {t}  OBVIOUS
    <3>3. QED  BY <3>1, <3>2
  <2>3. w = wait_dequeue_tmevtb(v, t)  BY <1>4 DEF Left
  <2>4. /\ v.winfo = k.winfo /\ v.tmevt = k.tmevt /\ v.failed = k.failed
        /\ v.wait_queue = wq /\ v.wobjatr = k.wobjatr
    BY <1>1, <2>1 DEF KState
  <2>5. k.winfo[t] \in {"null", "tmevtb"} /\ (k.winfo[t] = "null" => t \notin k.tmevt)
    BY <1>1, <1>4 DEF TaskOK
  <2> HIDE DEF v, w
  <2>6. w = [k EXCEPT !.wait_queue = wq, !.tmevt = k.tmevt \ {t}]
    <3>1. CASE k.winfo[t] = "null"
      <4>1. w = v /\ k.tmevt \ {t} = k.tmevt
        BY <2>3, <2>4, <2>5, <3>1 DEF wait_dequeue_tmevtb
      <4>2. QED  BY ZenonT(60), <1>1, <2>1, <4>1 DEF KState
    <3>2. CASE k.winfo[t] = "tmevtb"
      <4>1. (v.failed \/ v.winfo[t] # "tmevtb") = v.failed
        BY <2>2, <2>4, <3>2 DEF KState
      <4>2. w = [v EXCEPT !.tmevt = @ \ {t}]
        BY ZenonT(60), <2>2, <2>3, <2>4, <3>2, <4>1 DEF wait_dequeue_tmevtb, KState
      <4>3. QED  BY <2>1, <2>4, <4>2
    <3>3. QED  BY <2>5, <3>1, <3>2
  <2>7. w \in KState
    <3>1. k.tmevt \ {t} \in SUBSET TSK  BY <1>1 DEF KState
    <3>2. QED  BY ZenonT(60), <1>1, <2>6, <3>1 DEF KState
  <2>8. /\ w.tstat = k.tstat /\ w.wobj = k.wobj /\ w.tmevt = k.tmevt \ {t}
        /\ Aside(k, w) /\ SameOwners(k, w) /\ SameSched(k, w, Ready(k))
        /\ w.wait_queue = wq /\ w.wobjatr = k.wobjatr
    BY <1>1, <2>6 DEF KState, Aside, SameOwners, SameSystem, SameSched
  <2>9. \A u \in TSK \ {t} : SameTask(k, w, u)
    BY <1>1, <2>6 DEF KState, SameTask, SameState
  <2>10. SchedInv(w, S)
    <3>1. S = Ready(k)  BY <1>4 DEF Ready
    <3>2. QED  BY <1>1, <2>7, <2>8, <3>1, OtherFields
  <2>11. QueuesOK(w, {t})
    <3>1. w.wait_queue = v.wait_queue /\ w.wobjatr = v.wobjatr  BY <2>4, <2>8
    <3>2. v.tstat = k.tstat /\ v.wobj = k.wobj /\ v.priority = k.priority
      BY <1>1, <2>1 DEF KState
    <3>3. w.priority = k.priority  BY <2>8 DEF SameOwners
    <3>4. \A u \in TSK \ {t} : SameWait(v, w, u)
      BY <2>8, <3>2, <3>3 DEF SameWait, TSTAT_WAIT_WOBJ
    <3>5. \A u \in {t} \ {t} : ~TSTAT_WAIT_WOBJ(w, u)  OBVIOUS
    <3>6. QED  BY <2>2, <3>1, <3>4, <3>5, QueuesKept
  <2>12. QED  BY <2>7, <2>8, <2>9, <2>10, <2>11
<1>5. CASE ~TSTAT_RUNNABLE(k, t) /\ ~TSTAT_WAITING(k, t)
  <2>1. w = k /\ S = Ready(k) /\ t \notin k.tmevt
    BY <1>1, <1>5 DEF Left, Ready, TaskOK
  <2>2. QueuesOK(k, {t})
    <3>1. ~TSTAT_WAIT_WOBJ(k, t)  BY <1>5 DEF TSTAT_WAIT_WOBJ, TSTAT_WAITING, FACTOR
    <3>2. QED  BY <1>1, <3>1, NotQueued
  <2>3. QED
    BY <1>1, <2>1, <2>2 DEF Aside, SameOwners, SameSystem, SameTask, SameState
<1>6. QED  BY <1>3, <1>4, <1>5

\* A task that has left everything becomes dormant.
LEMMA BecomesDormant ==
  ASSUME NEW k, NEW t \in TSK, GoodBut(k, {t}), t \notin k.tmevt, k.lastmtx[t] = <<>>,
         k.tskatr[t] # "TA_NOEXS"
  PROVE  LET d == make_dormant(k, t)
             r == IF d.actque[t] THEN make_active([d EXCEPT !.actque[t] = FALSE], t) ELSE d
         IN  Good(r)
<1> DEFINE S == Ready(k) \ {t}
           d == make_dormant(k, t)
           e == [d EXCEPT !.actque[t] = FALSE]
<1>1. /\ k \in KState /\ SchedInv(k, S) /\ QueuesOK(k, {t})
      /\ k.tstat \in [TSK -> TSTAT] /\ k.winfo \in [TSK -> WINFO]
      /\ k.wupque \in [TSK -> BOOLEAN] /\ k.pending \in [TSK -> PENDING \cup {IDLE}]
      /\ k.actque \in [TSK -> BOOLEAN] /\ k.wobj \in [TSK -> OBJ \cup {NULL}]
      /\ k.priority \in [TSK -> PRI]
  BY DEF GoodBut, SchedInv, KState
<1>2. /\ d \in KState
      /\ d.tstat = [k.tstat EXCEPT ![t] = TS_DORMANT]
      /\ d.winfo = [k.winfo EXCEPT ![t] = "none"]
      /\ d.wupque = [k.wupque EXCEPT ![t] = FALSE]
      /\ d.pending = [k.pending EXCEPT ![t] = IDLE]
      /\ d.wobj = [k.wobj EXCEPT ![t] = NULL]
      /\ d.priority = [k.priority EXCEPT ![t] = k.ipriority[t]]
      /\ d.actque = k.actque /\ d.tmevt = k.tmevt /\ d.lastmtx = k.lastmtx
      /\ d.wait_queue = k.wait_queue
      /\ SameSystem(k, d) /\ SameSched(k, d, S)
  BY <1>1, MakeDormant DEF Ready
<1> HIDE DEF d
<1>3. ASSUME NEW x \in KState, x.actque[t] = FALSE,
             \A u \in TSK \ {t} : x.actque[u] = d.actque[u],
             x.tstat = d.tstat, x.winfo = d.winfo, x.wupque = d.wupque,
             x.pending = d.pending, x.tmevt = d.tmevt, x.wobj = d.wobj,
             x.priority = d.priority, x.lastmtx = d.lastmtx, x.wait_queue = d.wait_queue,
             SameSystem(d, x), SameSched(d, x, S)
      PROVE  Good(x) /\ TSTAT_DORMANT(x, t) /\ x.tskatr[t] # "TA_NOEXS"
  <2>1. Ready(x) = S
    BY <1>1, <1>2, <1>3, StateConstants DEF Ready, TSTAT_RUNNABLE
  <2>2. SchedInv(x, S)
    <3>1. SchedInv(d, S)  BY <1>1, <1>2, OtherFields
    <3>2. QED  BY <1>3, <3>1, OtherFields
  <2>3. \A u \in TSK \ {t} : SameTask(k, x, u)
    BY <1>1, <1>2, <1>3 DEF SameTask, SameState, SameSystem
  <2>4. SameSystem(k, x)
    BY <1>2, <1>3 DEF SameSystem
  <2>5. /\ x.tstat[t] = TS_DORMANT /\ x.winfo[t] = "none" /\ x.wupque[t] = FALSE
        /\ x.pending[t] = IDLE /\ t \notin x.tmevt /\ x.tskatr[t] # "TA_NOEXS"
        /\ x.lastmtx[t] = <<>>
    BY <1>1, <1>2, <1>3, <2>4 DEF SameSystem
  <2>6. TaskOK(x, t)
    BY <1>3, <2>5, StateConstants DEF TaskOK, WaitOK, TSTAT_WAITING, TSTAT_DORMANT
  <2>7. ASSUME NEW u \in TSK \ {t}  PROVE TaskOK(x, u)
    <3>1. TaskOK(k, u) /\ SameState(k, x, u)  BY <2>3 DEF GoodBut, SameTask
    <3>2. QED  BY <3>1, SameTaskOK
  <2>8. SystemOK(x)  BY <2>4 DEF GoodBut, SystemOK, SameSystem
  <2>9. QueuesOK(x, {})
    <3>1. \A u \in TSK \ {t} : SameWait(k, x, u)
      BY <2>3 DEF SameTask, SameState, SameWait, TSTAT_WAIT_WOBJ
    <3>2. \A u \in {t} \ {} : ~TSTAT_WAIT_WOBJ(x, u)
      BY <2>5, StateConstants DEF TSTAT_WAIT_WOBJ, FACTOR
    <3>3. x.wait_queue = k.wait_queue /\ x.wobjatr = k.wobjatr /\ {} \subseteq {t}
      BY <1>2, <1>3, <2>4 DEF SameSystem
    <3>4. QED  BY <1>1, <3>1, <3>2, <3>3, QueuesKept
  <2>10. QED
    BY <2>1, <2>2, <2>5, <2>6, <2>7, <2>8, <2>9 DEF Good, TSTAT_DORMANT
<1>4. CASE d.actque[t]
  <2>1. e \in KState  BY <1>2 DEF KState
  <2>2. /\ e.actque[t] = FALSE /\ \A u \in TSK \ {t} : e.actque[u] = d.actque[u]
        /\ e.tstat = d.tstat /\ e.winfo = d.winfo /\ e.wupque = d.wupque
        /\ e.pending = d.pending /\ e.tmevt = d.tmevt /\ e.wobj = d.wobj
        /\ e.priority = d.priority /\ e.lastmtx = d.lastmtx /\ e.wait_queue = d.wait_queue
        /\ SameSystem(d, e) /\ SameSched(d, e, S)
    BY <1>2, ZenonT(60) DEF KState, SameSystem, SameSched
  <2> HIDE DEF e, S
  <2>3. Good(e) /\ TSTAT_DORMANT(e, t) /\ e.tskatr[t] # "TA_NOEXS"
    BY <1>3, <2>1, <2>2
  <2>4. Good(make_active(e, t))  BY <2>3, Activate
  <2>5. QED  BY <1>4, <2>4 DEF e, d
<1>5. CASE ~d.actque[t]
  <2>1. d.actque[t] = FALSE /\ SameSystem(d, d) /\ SameSched(d, d, S)
    BY <1>1, <1>2, <1>5 DEF SameSystem, SameSched
  <2> HIDE DEF S
  <2>2. Good(d)  BY <1>2, <1>3, <2>1
  <2>3. QED  BY <1>5, <2>2 DEF d
<1>6. QED  BY <1>4, <1>5

\* task_terminate: the task leaves the queue or the wait it is in, hands its mutexes on,
\* becomes dormant and, if an activation was queued, runnable again.
LEMMA Terminate ==
  ASSUME NEW k, Good(k), NEW t \in TSK, ~TSTAT_DORMANT(k, t), ~k.dspflg => t # k.schedtsk
  PROVE  Good(task_terminate(k, t))
<1> DEFINE w == Left(k, t)
           m == IF w.lastmtx[t] # <<>> THEN mutex_release_all(w, t) ELSE w
<1>1. /\ GoodBut(w, {t}) /\ Aside(k, w) /\ t \notin w.tmevt
  BY LeaveAll
<1>2. k.tskatr[t] # "TA_NOEXS"  BY DEF Good, TaskOK
<1> HIDE DEF w
<1>3. /\ GoodBut(m, {t}) /\ t \notin m.tmevt /\ m.lastmtx[t] = <<>> /\ m.tskatr[t] # "TA_NOEXS"
  <2>1. CASE w.lastmtx[t] # <<>>
    <3>1. m = mutex_release_all(w, t)  BY <2>1
    <3>2. GoodBut(m, {t}) /\ Aside(w, m) /\ m.lastmtx[t] = <<>>
      BY <1>1, <3>1, MutexReleaseAll
    <3> HIDE DEF m
    <3>3. QED  BY <1>1, <1>2, <3>2 DEF Aside, SameSystem
  <2>2. CASE w.lastmtx[t] = <<>>
    BY <1>1, <1>2, <2>2 DEF Aside, SameSystem
  <2>3. QED  BY <2>1, <2>2
<1> DEFINE d == make_dormant(m, t)
           r == IF d.actque[t] THEN make_active([d EXCEPT !.actque[t] = FALSE], t) ELSE d
<1>4. task_terminate(k, t) = r
  BY DEF task_terminate, w, Left
<1> HIDE DEF m
<1>5. Good(r)  BY <1>3, BecomesDormant
<1>6. QED  BY <1>4, <1>5

----------------------------------------------------------------------------
(* Mutexes: owners and the priorities that follow from the ceilings.       *)

\* Whether t runs or waits, only its priority changes and its place in the queues.
LEMMA ChangePriorityFields ==
  ASSUME NEW k \in KState, NEW t \in TSK, NEW pri \in PRI, NEW mtxmode \in BOOLEAN
  PROVE  LET r == change_priority(k, t, pri, mtxmode) IN
         /\ r.priority = [k.priority EXCEPT ![t] = pri]
         /\ r.tstat = k.tstat /\ r.wobj = k.wobj /\ r.lastmtx = k.lastmtx
         /\ r.loctsk = k.loctsk /\ r.actque = k.actque /\ Aside(k, r)
<1> DEFINE c == [k EXCEPT !.priority[t] = pri]
<1>1. /\ c.priority = [k.priority EXCEPT ![t] = pri]
      /\ c.tstat = k.tstat /\ c.wobj = k.wobj /\ c.lastmtx = k.lastmtx
      /\ c.loctsk = k.loctsk /\ c.actque = k.actque /\ Aside(k, c)
  BY DEF KState, Aside, SameSystem
<1>2. LET r == Requeue(c, t, k.priority[t], pri, mtxmode) IN
      /\ r.priority = c.priority
      /\ r.tstat = c.tstat /\ r.wobj = c.wobj /\ r.lastmtx = c.lastmtx
      /\ r.loctsk = c.loctsk /\ r.actque = c.actque /\ Aside(c, r)
  BY ZenonT(60) DEF Requeue, KState, Aside, SameSystem
<1>3. LET r == wobj_change_priority(c, t) IN
      /\ r.priority = c.priority
      /\ r.tstat = c.tstat /\ r.wobj = c.wobj /\ r.lastmtx = c.lastmtx
      /\ r.loctsk = c.loctsk /\ r.actque = c.actque /\ Aside(c, r)
  BY DEF wobj_change_priority, KState, Aside, SameSystem
<1> HIDE DEF c
<1>4. change_priority(k, t, pri, mtxmode)
        \in {Requeue(c, t, k.priority[t], pri, mtxmode), wobj_change_priority(c, t), c}
  BY DEF change_priority, c
<1>5. QED
  BY <1>1, <1>2, <1>3, <1>4 DEF Aside, SameSystem

\* The priority that base priority and ceilings give is one.
LEMMA CalcPriority ==
  ASSUME NEW k \in KState, NEW t \in TSK
  PROVE  /\ mutex_calc_priority(k, t) \in {k.bpriority[t]} \cup HeldCeilings(k, t)
         /\ \A p \in {k.bpriority[t]} \cup HeldCeilings(k, t) : mutex_calc_priority(k, t) <= p
         /\ {k.bpriority[t]} \cup HeldCeilings(k, t) \subseteq PRI
<1> DEFINE M == {k.bpriority[t]} \cup HeldCeilings(k, t)
<1>1. Holds(k, t) \subseteq MTX
  <2>1. k.lastmtx[t] \in Seq(MTX)  BY DEF KState
  <2>2. QED  BY <2>1 DEF Holds
<1>2. M \subseteq PRI
  BY <1>1 DEF HeldCeilings, KState
<1>3. M \in SUBSET Nat /\ M # {}  BY <1>2 DEF PRI
<1> HIDE DEF M
<1>4. primap_search(M) \in M /\ \A q \in M : primap_search(M) <= q
  BY <1>3, PrimapSearch
<1>5. QED  BY <1>2, <1>4 DEF M, mutex_calc_priority

\* A mutex that is lost may lower the priority.
LEMMA DropPriority ==
  ASSUME NEW k, Good(k), NEW t \in TSK, NEW m
  PROVE  LET r == mutex_drop_priority(k, t, m) IN
         /\ Good(r) /\ Aside(k, r)
         /\ r.tstat = k.tstat /\ r.wobj = k.wobj /\ r.lastmtx = k.lastmtx /\ r.loctsk = k.loctsk
<1> DEFINE p == mutex_calc_priority(k, t)
           c == change_priority(k, t, p, TRUE)
<1>1. k \in KState  BY DEF Good, SchedInv
<1>2. p \in PRI  BY <1>1, CalcPriority
<1> HIDE DEF p
<1>3. /\ Good(c) /\ Aside(k, c) /\ c.tstat = k.tstat /\ c.wobj = k.wobj
      /\ c.lastmtx = k.lastmtx /\ c.loctsk = k.loctsk
  BY <1>1, <1>2, ChangePriority, ChangePriorityFields
<1>4. mutex_drop_priority(k, t, m) \in {k, c}
  BY DEF mutex_drop_priority, p
<1> HIDE DEF c
<1>5. QED
  BY <1>3, <1>4 DEF Aside, SameSystem

\* The queue of an object is empty exactly when no task waits for it.
LEMMA NoWaiters ==
  ASSUME NEW k, Good(k), NEW o \in OBJ
  PROVE  k.wait_queue[o] = <<>> <=> Waits(k, o) = {}
<1> DEFINE q == k.wait_queue[o]
<1>1. q \in Seq(TSK) /\ \A t \in TSK : InQueue(q, t) <=> t \in Waits(k, o)
  BY DEF Good, SchedInv, KState, QueuesOK, QueueOK
<1> HIDE DEF q
<1>2. ASSUME q = <<>>  PROVE Waits(k, o) = {}
  <2>1. \A t \in TSK : ~InQueue(q, t)  BY <1>2 DEF InQueue
  <2>2. QED  BY <1>1, <2>1 DEF Waits
<1>3. ASSUME q # <<>>  PROVE Waits(k, o) # {}
  <2>1. 1 \in DOMAIN q /\ q[1] \in TSK  BY <1>1, <1>3
  <2>2. InQueue(q, q[1])  BY <2>1 DEF InQueue
  <2>3. QED  BY <1>1, <2>1, <2>2
<1>4. QED  BY <1>2, <1>3 DEF q

\* The list of the mutexes of a task that is not dormant, and the owners, change.
WithOwners(k, t, s, lo) == [k EXCEPT !.lastmtx[t] = s, !.loctsk = lo]

LEMMA OwnersChange ==
  ASSUME NEW k, Good(k), NEW t \in TSK, ~TSTAT_DORMANT(k, t), NEW s \in Seq(MTX),
         NEW lo \in [MTX -> TSK \cup {NULL}], NEW r, r = WithOwners(k, t, s, lo)
  PROVE  /\ Good(r) /\ Aside(k, r) /\ r.schedtsk = k.schedtsk /\ r.priority = k.priority
         /\ r.lastmtx = [k.lastmtx EXCEPT ![t] = s] /\ r.loctsk = lo
         /\ r.tstat = k.tstat /\ r.wobj = k.wobj
<1>1. /\ k \in KState /\ TaskOK(k, t) /\ QueuesOK(k, {}) /\ GoodBut(k, {})
  BY GoodAll DEF Good, SchedInv
<1>2. r \in KState
  <2>1. [k.lastmtx EXCEPT ![t] = s] \in [TSK -> Seq(MTX)]  BY <1>1 DEF KState
  <2>2. QED  BY <1>1, <2>1, ZenonT(60) DEF KState, WithOwners
<1>3. /\ SameSched(k, r, Ready(k)) /\ SameSystem(k, r)
      /\ r.wait_queue = k.wait_queue /\ r.tstat = k.tstat /\ r.winfo = k.winfo
      /\ r.wobj = k.wobj /\ r.priority = k.priority /\ r.tmevt = k.tmevt
      /\ r.actque = k.actque /\ r.wupque = k.wupque /\ r.pending = k.pending
      /\ r.schedtsk = k.schedtsk /\ r.loctsk = lo /\ Aside(k, r)
      /\ r.lastmtx = [k.lastmtx EXCEPT ![t] = s]
  BY <1>1 DEF KState, SameSched, SameSystem, Aside, WithOwners
<1>4. k.lastmtx \in [TSK -> Seq(MTX)]  BY <1>1 DEF KState
<1>5. \A u \in TSK \ {t} : SameTask(k, r, u)
  BY <1>3, <1>4 DEF SameTask, SameState, SameSystem
<1>6. TaskOK(r, t)
  BY <1>1, <1>3 DEF TaskOK, WaitOK, SameSystem, TSTAT_WAITING, TSTAT_DORMANT
<1>7. SchedInv(r, Ready(r))
  <2>1. Ready(r) = Ready(k)  BY <1>3 DEF Ready, TSTAT_RUNNABLE
  <2>2. QED  BY <1>2, <1>3, <2>1, StaysReady
<1>8. SameWait(k, r, t)
  BY <1>3 DEF SameWait, TSTAT_WAIT_WOBJ
<1>9. Good(r)  BY <1>2, <1>3, <1>5, <1>6, <1>7, <1>8, OneTask
<1>10. QED  BY <1>3, <1>9

\* A locked mutex becomes the last one of its owner, whose priority rises to the ceiling.
LEMMA Acquire ==
  ASSUME NEW k, Good(k), NEW t \in TSK, TSTAT_RUNNABLE(k, t), k.schedtsk = t, NEW m \in MTX
  PROVE  LET r == mutex_acquire(k, t, m) IN
         Good(r) /\ Aside(k, r) /\ r.schedtsk = t
<1> DEFINE lo == [k.loctsk EXCEPT ![m] = t]
           s == <<m>> \o k.lastmtx[t]
           a == [k EXCEPT !.loctsk[m] = t, !.lastmtx[t] = <<m>> \o @]
           p == k.ceilpri[m]
<1>1. k \in KState /\ p \in PRI /\ ~TSTAT_DORMANT(k, t)
  BY TaskStates DEF Good, SchedInv, KState
<1>2. s \in Seq(MTX) /\ lo \in [MTX -> TSK \cup {NULL}]
  <2>1. k.lastmtx[t] \in Seq(MTX) /\ k.loctsk \in [MTX -> TSK \cup {NULL}]
    BY <1>1 DEF KState
  <2>2. QED  BY <2>1
<1>3. a = WithOwners(k, t, s, lo)
  BY <1>1 DEF KState, WithOwners
<1> HIDE DEF s, lo, a
<1>4. /\ Good(a) /\ Aside(k, a) /\ a.schedtsk = t /\ a.priority = k.priority
      /\ a.tstat = k.tstat
  <2>1. /\ Good(a) /\ Aside(k, a) /\ a.schedtsk = k.schedtsk /\ a.priority = k.priority
        /\ a.tstat = k.tstat
    <3>1. s \in Seq(MTX) /\ lo \in [MTX -> TSK \cup {NULL}]  BY <1>2
    <3>2. Good(k) /\ ~TSTAT_DORMANT(k, t) /\ k \in KState  BY <1>1
    <3>3. Good(a)  BY <1>3, <3>1, <3>2, OwnersChange
    <3>4. Aside(k, a)  BY <1>3, <3>1, <3>2, OwnersChange
    <3>5. a.schedtsk = k.schedtsk /\ a.priority = k.priority /\ a.tstat = k.tstat
      BY <1>3, <3>2 DEF WithOwners, KState
    <3>6. QED  BY <3>3, <3>4, <3>5
  <2>2. QED  BY <2>1
<1>5. a \in KState  BY <1>4 DEF Good, SchedInv
<1>6. CASE MTX_CEILING(k, m) /\ p < k.priority[t]
  <2> DEFINE c == [a EXCEPT !.priority[t] = p]
             r == Requeue(c, t, k.priority[t], p, TRUE)
  <2>1. mutex_acquire(k, t, m) = change_priority(a, t, p, TRUE)
    BY <1>6 DEF mutex_acquire, a
  <2>2. change_priority(a, t, p, TRUE) = r
    BY <1>4 DEF change_priority, TSTAT_RUNNABLE
  <2>3. k.priority[t] \in PRI /\ ~(p >= k.priority[t])
    BY <1>1, <1>6 DEF KState, PRI
  <2>4. c.schedtsk = t  BY <1>4, <1>5 DEF KState
  <2>5. c \in KState  BY <1>1, <1>5, ZenonT(60) DEF KState
  <2> HIDE DEF c, p
  <2>6. r.schedtsk = t
    BY <2>3, <2>4, <2>5 DEF Requeue, KState
  <2> HIDE DEF r
  <2>7. Good(r) /\ Aside(a, r)
    BY <1>1, <1>4, <1>5, <2>2, ChangePriority, ChangePriorityFields
  <2>8. QED  BY <1>4, <2>1, <2>2, <2>6, <2>7 DEF Aside, SameSystem
<1>7. CASE ~(MTX_CEILING(k, m) /\ p < k.priority[t])
  <2>1. mutex_acquire(k, t, m) = a  BY <1>7 DEF mutex_acquire, a
  <2>2. QED  BY <1>4, <2>1
<1>8. QED  BY <1>6, <1>7

\* Removal of a member keeps the type also of a list with duplicates.
LEMMA DeleteType ==
  ASSUME NEW T, NEW q \in Seq(T), NEW t, InQueue(q, t)
  PROVE  queue_delete(q, t) \in Seq(T)
<1> DEFINE at == CHOOSE i \in DOMAIN q : q[i] = t
<1>1. at \in 1 .. Len(q) /\ Len(q) \in Nat /\ Len(q) - 1 \in Nat
  BY DEF InQueue
<1> HIDE DEF at
<1>2. \A i \in 1 .. Len(q) - 1 : (IF i < at THEN q[i] ELSE q[i + 1]) \in T
  BY <1>1
<1>3. [i \in 1 .. Len(q) - 1 |-> IF i < at THEN q[i] ELSE q[i + 1]] \in Seq(T)
  BY <1>1, <1>2
<1>4. QED  BY <1>3 DEF queue_delete, at

\* A mutex that is deleted or reset: its waiters leave, and its owner loses it.
LEMMA TakenBack ==
  ASSUME NEW k, Good(k), NEW m \in MTX
  PROVE  LET r == TakeBack(k, m) IN
         Good(r) /\ Aside(k, r) /\ r.wait_queue[m] = <<>>
<1> DEFINE w == init_wait_queue(k, m)
           t == w.loctsk[m]
           u == UnlinkMutex(w, t, m)
           r == mutex_drop_priority(u, t, m)
<1>1. m \in OBJ  BY DEF OBJ
<1>2. Good(w) /\ Aside(k, w) /\ w.wait_queue = [k.wait_queue EXCEPT ![m] = <<>>]
  BY <1>1, InitWaitQueue
<1>3. w.wait_queue[m] = <<>> /\ w \in KState
  BY <1>1, <1>2 DEF Good, SchedInv, KState
<1>4. CASE t = NULL
  BY <1>2, <1>3, <1>4 DEF TakeBack
<1>5. CASE t # NULL
  <2>1. t \in TSK  BY <1>3, <1>5 DEF KState
  <2>2. TakeBack(k, m) = r  BY <1>5 DEF TakeBack
  <2> HIDE DEF w, t
  <2>3. Good(u) /\ Aside(w, u) /\ u.tstat = w.tstat /\ u.wobj = w.wobj
    <3>1. CASE m \in Holds(w, t)
      <4> DEFINE s == queue_delete(w.lastmtx[t], m)
      <4>1. w.lastmtx[t] \in Seq(MTX) /\ InQueue(w.lastmtx[t], m)
        BY <1>3, <2>1, <3>1 DEF KState, Holds, InQueue
      <4>2. s \in Seq(MTX)  BY <4>1, DeleteType
      <4>3. ~TSTAT_DORMANT(w, t)
        <5>1. w.lastmtx[t] # <<>>  BY <4>1 DEF InQueue
        <5>2. QED  BY <1>2, <2>1, <5>1 DEF Good, TaskOK
      <4>4. u = WithOwners(w, t, s, w.loctsk)
        BY <1>3, <3>1 DEF UnlinkMutex, KState, WithOwners
      <4> HIDE DEF s, u
      <4>5. w.loctsk \in [MTX -> TSK \cup {NULL}]  BY <1>3 DEF KState
      <4>6. Good(u)  BY <1>2, <2>1, <4>2, <4>3, <4>4, <4>5, OwnersChange
      <4>7. Aside(w, u)  BY <1>2, <2>1, <4>2, <4>3, <4>4, <4>5, OwnersChange
      <4>8. u.tstat = w.tstat /\ u.wobj = w.wobj
        BY <1>3, <4>4 DEF WithOwners, KState
      <4>9. QED  BY <4>6, <4>7, <4>8
    <3>2. CASE m \notin Holds(w, t)
      <4>1. u = w  BY <3>2 DEF UnlinkMutex
      <4>2. QED  BY <1>2, <4>1 DEF Aside, SameSystem
    <3>3. QED  BY <3>1, <3>2
  <2> HIDE DEF u
  <2>4. Good(r) /\ Aside(u, r) /\ r.tstat = u.tstat /\ r.wobj = u.wobj
    BY <2>1, <2>3, DropPriority
  <2> HIDE DEF r
  <2>5. Waits(r, m) = Waits(w, m)
    BY <2>3, <2>4 DEF Waits, TSTAT_WAIT_WOBJ
  <2>6. r.wait_queue[m] = <<>>
    BY <1>1, <1>2, <1>3, <2>4, <2>5, NoWaiters, ZenonT(60)
  <2>7. Aside(k, r)
    BY <1>2, <2>3, <2>4 DEF Aside, SameSystem
  <2>8. QED  BY <2>2, <2>4, <2>6, <2>7
<1>6. QED  BY <1>4, <1>5

\* An object with no waiters is created or deleted: its attribute and the free lists
\* change, and perhaps data that the invariant is not about.
LEMMA ObjectChange ==
  ASSUME NEW k, Good(k), NEW o \in OBJ, k.wait_queue[o] = <<>>, NEW r \in KState,
         SameSched(k, r, Ready(k)), \A u \in TSK : SameTask(k, r, u),
         r.wait_queue = k.wait_queue, \A x \in OBJ \ {o} : r.wobjatr[x] = k.wobjatr[x],
         r.tskatr = k.tskatr, r.free_tcb = k.free_tcb,
         r.dspflg = k.dspflg, r.enadsp = k.enadsp, r.ipm = k.ipm,
         FreeList(r.free_semcb, SEM, r.wobjatr), FreeList(r.free_mtxcb, MTX, r.wobjatr)
  PROVE  Good(r)
<1>1. Ready(r) = Ready(k)
  BY DEF Ready, TSTAT_RUNNABLE, SameTask, SameState
<1>2. SchedInv(r, Ready(r))
  BY <1>1, StaysReady
<1>3. ASSUME NEW u \in TSK  PROVE TaskOK(r, u)
  <2>1. TaskOK(k, u) /\ SameState(k, r, u)  BY DEF Good, SameTask
  <2>2. QED  BY <2>1, SameTaskOK
<1>4. SystemOK(r)
  BY DEF Good, SystemOK
<1>5. \A x \in OBJ, u \in TSK : u \in Waits(r, x) <=> u \in Waits(k, x)
  BY DEF SameTask, SameState, Waits, TSTAT_WAIT_WOBJ
<1>6. QueuesOK(r, {})
  <2>1. k \in KState /\ QueuesOK(k, {})  BY DEF Good, SchedInv
  <2>2. QueueOK(r, o, Waits(r, o) \ {})
    <3>1. QueueOK(k, o, Waits(k, o) \ {})  BY <2>1 DEF QueuesOK
    <3>2. Sorted(<<>>, r.priority)  BY DEF Sorted
    <3>3. QED  BY <1>5, <3>1, <3>2 DEF QueueOK
  <2>3. \A x \in OBJ \ {o} :
           /\ r.wait_queue[x] = k.wait_queue[x] /\ r.wobjatr[x] = k.wobjatr[x]
           /\ \A u \in TSK : u \in Waits(r, x) \ {} <=> u \in Waits(k, x) \ {}
           /\ \A u \in Waits(k, x) \ {} : r.priority[u] = k.priority[u]
    BY <1>5 DEF SameTask, Waits
  <2>4. QED  BY <2>1, <2>2, <2>3, OtherQueues
<1>7. QED  BY <1>2, <1>3, <1>4, <1>6 DEF Good

----------------------------------------------------------------------------
(* The inductive invariant, and how the three ways a call ends keep it.    *)

IInv ==
  /\ Good(ker)
  /\ nest \in 0 .. MAXNEST
  /\ cpulock \in BOOLEAN
  /\ nest = 0 => ker.runtsk = ker.schedtsk

LEMMA Returns ==
  ASSUME IInv, NEW k, Good(k), Return(k)
  PROVE  IInv'
<1>1. CASE nest = 0 /\ k.runtsk # k.schedtsk
  BY <1>1, Dispatch DEF IInv, Return
<1>2. CASE ~(nest = 0 /\ k.runtsk # k.schedtsk)
  BY <1>2 DEF IInv, Return
<1>3. QED  BY <1>1, <1>2

LEMMA Exits ==
  ASSUME IInv, NEW k, Good(k), ExitAndDispatch(k)
  PROVE  IInv'
BY Dispatch DEF IInv, ExitAndDispatch

\* Neither the wait queues change nor what puts a task into one.
SameQueues(k, r) ==
  /\ r.wait_queue = k.wait_queue /\ r.wobj = k.wobj
  /\ r.priority = k.priority /\ r.lastmtx = k.lastmtx

\* The call changes data of one task only, and neither whether it is runnable nor
\* whether it waits.
LEMMA StateOnly ==
  ASSUME NEW k, Good(k), NEW r \in KState, NEW t \in TSK, SameSched(k, r, Ready(k)),
         r.tstat[t].run = k.tstat[t].run, r.tstat[t].wai = k.tstat[t].wai,
         \A u \in TSK \ {t} : SameTask(k, r, u), TaskOK(r, t), SameSystem(k, r),
         SameQueues(k, r)
  PROVE  Good(r)
<1>1. Ready(r) = Ready(k)
  BY DEF Ready, TSTAT_RUNNABLE, SameTask, SameState
<1>2. SchedInv(r, Ready(r))
  BY <1>1, StaysReady
<1>3. r.wait_queue = k.wait_queue /\ SameWait(k, r, t)
  BY DEF SameQueues, SameWait, TSTAT_WAIT_WOBJ
<1>4. QED  BY <1>2, <1>3, OneTask

LEMMA Keeps ==
  ASSUME IInv, UNCHANGED <<nest, cpulock>>, Good(ker'),
         ker'.runtsk = ker.runtsk, ker'.schedtsk = ker.schedtsk
  PROVE  IInv'
BY DEF IInv

\* The running task is runnable, and it is p_schedtsk in task context.
LEMMA RunningTask ==
  ASSUME IInv, nest = 0, Self # NULL
  PROVE  /\ Self \in TSK /\ Self \in Ready(ker) /\ Self = ker.schedtsk
         /\ TSTAT_RUNNABLE(ker, Self) /\ ~TSTAT_DORMANT(ker, Self) /\ ~TSTAT_WAITING(ker, Self)
<1>1. Self = ker.schedtsk /\ ker \in KState
  BY DEF IInv, Self, Good, SchedInv
<1>2. Self \in TSK
  BY <1>1 DEF KState, Self
<1>3. Self \in Ready(ker)
  <2>1. CASE ker.dspflg
    <3>1. Ready(ker) \subseteq TSK /\ Queued(ker, Ready(ker)) /\ IsTop(ker, Self)
      BY <1>1, <2>1 DEF IInv, Good, SchedInv
    <3>2. QED  BY <1>1, <3>1, TopTask
  <2>2. CASE ~ker.dspflg
    BY <1>1, <2>2 DEF IInv, Good, SchedInv
  <2>3. QED  BY <2>1, <2>2
<1>4. QED
  BY <1>1, <1>2, <1>3, TaskStates DEF Ready

----------------------------------------------------------------------------
(* The calls that end a wait.                                              *)

\* A sleep is ended by a wakeup; a sleeping task is in no queue.
LEMMA WaitComplete ==
  ASSUME NEW k, Good(k), NEW t \in TSK, k.tstat[t].wai = "SLP"
  PROVE  Good(wait_complete(k, t))
<1>1. "E_OK" \in WERCD  BY DEF WERCD
<1>2. TSTAT_WAITING(k, t)  BY DEF TSTAT_WAITING
<1>3. wait_dequeue_wobj(k, t) = k  BY DEF wait_dequeue_wobj, TSTAT_WAIT_WOBJ
<1>4. wait_complete(k, t) = make_non_wait(EndedWait(k, t, "E_OK"), t)
  BY <1>3 DEF wait_complete, EndedWait
<1>5. QED  BY <1>1, <1>2, <1>4, WaitEnds

\* The time event of a wait with a limit leaves the heap.
LEMMA EventLeaves ==
  ASSUME NEW k \in KState, NEW t \in TSK, k.winfo[t] = "tmevtb"
  PROVE  wait_dequeue_tmevtb(k, t) = [k EXCEPT !.tmevt = @ \ {t}]
<1>1. (k.failed \/ k.winfo[t] # "tmevtb") = k.failed  BY DEF KState
<1>2. QED  BY ZenonT(60), <1>1 DEF wait_dequeue_tmevtb, KState

\* Taking the event out of the heap and a task out of its queue can change places.
LEMMA EventThenQueue ==
  ASSUME NEW k, Good(k), NEW t \in TSK, k.winfo[t] = "tmevtb"
  PROVE  wait_dequeue_wobj([k EXCEPT !.tmevt = @ \ {t}], t)
           = wait_dequeue_tmevtb(wait_dequeue_wobj(k, t), t)
<1> DEFINE e == [k EXCEPT !.tmevt = @ \ {t}]
           w == wait_dequeue_wobj(k, t)
<1>1. k \in KState /\ QueuesOK(k, {}) /\ WaitOK(k, t)
  BY DEF Good, SchedInv, TaskOK
<1>2. /\ e.tstat = k.tstat /\ e.wobj = k.wobj /\ e.wait_queue = k.wait_queue
  BY <1>1 DEF KState
<1>3. w \in KState /\ \E wq \in [OBJ -> Seq(TSK)] : w = [k EXCEPT !.wait_queue = wq]
  <2> DEFINE X == {}
  <2>1. QueuesOK(k, X) /\ t \notin X  BY <1>1
  <2> HIDE DEF X
  <2>2. QED  BY <1>1, <2>1, LeaveQueue
<1>4. w.winfo = k.winfo  BY <1>1, <1>3 DEF KState
<1>5. wait_dequeue_tmevtb(w, t) = [w EXCEPT !.tmevt = @ \ {t}]
  BY <1>3, <1>4, EventLeaves
<1>6. CASE ~TSTAT_WAIT_WOBJ(k, t)
  BY <1>2, <1>5, <1>6 DEF wait_dequeue_wobj, TSTAT_WAIT_WOBJ
<1>7. CASE TSTAT_WAIT_WOBJ(k, t)
  <2> DEFINE wq == [k.wait_queue EXCEPT ![k.wobj[t]] = queue_delete(k.wait_queue[k.wobj[t]], t)]
  <2>1. w = [k EXCEPT !.wait_queue = wq]
    BY <1>1, <1>7 DEF wait_dequeue_wobj, KState
  <2>2. wait_dequeue_wobj(e, t) = [e EXCEPT !.wait_queue = wq]
    <3>1. TSTAT_WAIT_WOBJ(e, t)  BY <1>2, <1>7 DEF TSTAT_WAIT_WOBJ
    <3> HIDE DEF e
    <3>2. QED  BY <1>2, <3>1 DEF wait_dequeue_wobj
  <2> HIDE DEF wq, w
  <2>3. [w EXCEPT !.tmevt = @ \ {t}] = [e EXCEPT !.wait_queue = wq]
    BY <1>1, <2>1 DEF KState
  <2>4. QED  BY <1>5, <2>2, <2>3 DEF w
<1>8. QED  BY <1>6, <1>7

\* The timer handler ends a wait; the event has left the heap before.
LEMMA TimeoutKeeps ==
  ASSUME IInv, NEW t \in TSK, Timeout(t)
  PROVE  IInv'
<1> DEFINE k == [ker EXCEPT !.tmevt = @ \ {t}]
<1>1. /\ Good(ker) /\ ker \in KState /\ TaskOK(ker, t) /\ TSTAT_WAITING(ker, t) /\ nest > 0
      /\ ker.winfo[t] = "tmevtb"
  BY DEF IInv, Good, SchedInv, TaskOK, Timeout
<1>3. ker' = IF ker.tstat[t].wai = "DLY" THEN wait_tmout_ok(k, t) ELSE wait_tmout(k, t)
  BY DEF Timeout
<1>4. wait_dequeue_wobj(k, t) = wait_dequeue_tmevtb(wait_dequeue_wobj(ker, t), t)
  BY <1>1, EventThenQueue
<1>5. ASSUME ker.tstat[t].wai = "DLY"  PROVE wait_dequeue_wobj(k, t) = k
  <2>1. k.tstat = ker.tstat  BY <1>1 DEF KState
  <2> HIDE DEF k
  <2>2. QED  BY <1>5, <2>1 DEF wait_dequeue_wobj, TSTAT_WAIT_WOBJ
<1> HIDE DEF k
<1>6. \/ ker' = make_non_wait(EndedWait(ker, t, "E_OK"), t)
      \/ ker' = make_non_wait(EndedWait(ker, t, "E_TMOUT"), t)
  BY <1>3, <1>4, <1>5 DEF wait_tmout_ok, wait_tmout, EndedWait
<1>7. "E_OK" \in WERCD /\ "E_TMOUT" \in WERCD  BY DEF WERCD
<1>8. Good(ker')
  BY <1>1, <1>6, <1>7, WaitEnds
<1>9. QED
  BY <1>1, <1>8 DEF IInv, Timeout

----------------------------------------------------------------------------
(* Every call keeps the invariant: task_manage.c.                          *)

\* A change of the queued requests of a task that exists.
LEMMA ActTsk ==
  ASSUME IInv, NEW t \in TSK, act_tsk(t)
  PROVE  IInv'
<1>1. Good(ker) /\ ker \in KState /\ ker.tskatr[t] # "TA_NOEXS"
  BY DEF IInv, Good, SchedInv, act_tsk, Exists
<1>2. CASE TSTAT_DORMANT(ker, t)
  <2>1. Return(make_active(ker, t))  BY <1>2 DEF act_tsk
  <2>2. QED  BY <1>1, <1>2, <2>1, Activate, Returns
<1>3. CASE ~TSTAT_DORMANT(ker, t)
  <2> DEFINE r == [ker EXCEPT !.actque[t] = TRUE]
  <2>1. ker' = r /\ UNCHANGED <<nest, cpulock>>  BY <1>3 DEF act_tsk
  <2>2. /\ r \in KState /\ SameSched(ker, r, Ready(ker)) /\ SameSystem(ker, r) /\ SameQueues(ker, r)
        /\ r.runtsk = ker.runtsk /\ r.schedtsk = ker.schedtsk
        /\ r.tstat = ker.tstat /\ r.winfo = ker.winfo /\ r.tmevt = ker.tmevt
        /\ r.tskatr = ker.tskatr /\ r.wupque = ker.wupque
    BY <1>1 DEF KState, SameSched, SameSystem, SameQueues
  <2>3. \A u \in TSK \ {t} : SameTask(ker, r, u)
    BY <1>1 DEF KState, SameTask, SameState
  <2>4. TaskOK(r, t)
    <3>1. TaskOK(ker, t)  BY <1>1 DEF Good
    <3> HIDE DEF r
    <3>2. QED  BY <1>1, <1>3, <2>2, <3>1
          DEF TaskOK, WaitOK, SameQueues, TSTAT_WAITING, TSTAT_DORMANT
  <2> HIDE DEF r
  <2>5. Good(r)  BY <1>1, <2>2, <2>3, <2>4, StateOnly
  <2>6. QED  BY <2>1, <2>2, <2>5, Keeps
<1>4. QED  BY <1>2, <1>3

LEMMA CanAct ==
  ASSUME IInv, NEW t \in TSK, can_act(t)
  PROVE  IInv'
<1> DEFINE r == [ker EXCEPT !.actque[t] = FALSE]
<1>1. Good(ker) /\ ker \in KState /\ TaskOK(ker, t)
  BY DEF IInv, Good, SchedInv
<1>2. ker' = r /\ UNCHANGED <<nest, cpulock>>  BY DEF can_act
<1>3. /\ r \in KState /\ SameSched(ker, r, Ready(ker)) /\ SameSystem(ker, r) /\ SameQueues(ker, r)
      /\ r.runtsk = ker.runtsk /\ r.schedtsk = ker.schedtsk
      /\ \A u \in TSK \ {t} : SameTask(ker, r, u)
      /\ r.tstat = ker.tstat /\ r.winfo = ker.winfo /\ r.tmevt = ker.tmevt
      /\ r.tskatr = ker.tskatr /\ r.wupque = ker.wupque /\ r.pending = ker.pending
      /\ r.actque[t] = FALSE
  BY <1>1, ZenonT(60) DEF KState, SameSched, SameSystem, SameQueues, SameTask, SameState
<1> HIDE DEF r
<1>4. TaskOK(r, t)
  BY <1>1, <1>3 DEF TaskOK, WaitOK, SameQueues, TSTAT_WAITING, TSTAT_DORMANT
<1>5. Good(r)  BY <1>1, <1>3, <1>4, StateOnly
<1>6. QED  BY <1>2, <1>3, <1>5, Keeps

\* A change of wupque[t], of a task that is not dormant and does not sleep or to FALSE.
LEMMA Wupque ==
  ASSUME NEW k, Good(k), NEW t \in TSK, NEW b \in BOOLEAN,
         b => ~TSTAT_DORMANT(k, t) /\ k.tstat[t].wai # "SLP"
  PROVE  /\ Good([k EXCEPT !.wupque[t] = b])
         /\ [k EXCEPT !.wupque[t] = b].runtsk = k.runtsk
         /\ [k EXCEPT !.wupque[t] = b].schedtsk = k.schedtsk
<1> DEFINE r == [k EXCEPT !.wupque[t] = b]
<1>1. k \in KState /\ TaskOK(k, t)
  BY DEF Good, SchedInv
<1>2. /\ r \in KState /\ SameSched(k, r, Ready(k)) /\ SameSystem(k, r) /\ SameQueues(k, r)
      /\ r.runtsk = k.runtsk /\ r.schedtsk = k.schedtsk
      /\ \A u \in TSK \ {t} : SameTask(k, r, u)
      /\ r.tstat = k.tstat /\ r.winfo = k.winfo /\ r.tmevt = k.tmevt
      /\ r.tskatr = k.tskatr /\ r.actque = k.actque /\ r.pending = k.pending
      /\ r.wupque[t] = b
  BY <1>1, ZenonT(60) DEF KState, SameSched, SameSystem, SameQueues, SameTask, SameState
<1> HIDE DEF r
<1>3. TaskOK(r, t)
  BY <1>1, <1>2 DEF TaskOK, WaitOK, SameQueues, TSTAT_WAITING, TSTAT_DORMANT
<1>4. Good(r)  BY <1>2, <1>3, StateOnly
<1>5. QED  BY <1>2, <1>4 DEF r

\* A change of pending[t] for a task that is not dormant.
LEMMA Pending ==
  ASSUME NEW k, Good(k), NEW t \in TSK, ~TSTAT_DORMANT(k, t), NEW p \in PENDING \cup {IDLE}
  PROVE  /\ Good([k EXCEPT !.pending[t] = p])
         /\ [k EXCEPT !.pending[t] = p].runtsk = k.runtsk
         /\ [k EXCEPT !.pending[t] = p].schedtsk = k.schedtsk
<1> DEFINE r == [k EXCEPT !.pending[t] = p]
<1>1. k \in KState /\ TaskOK(k, t)
  BY DEF Good, SchedInv
<1>2. r \in KState
  <2>1. [k.pending EXCEPT ![t] = p] \in [TSK -> PENDING \cup {IDLE}]  BY <1>1 DEF KState
  <2>2. QED  BY <1>1, <2>1 DEF KState
<1>3. /\ SameSched(k, r, Ready(k)) /\ SameSystem(k, r) /\ SameQueues(k, r)
      /\ r.runtsk = k.runtsk /\ r.schedtsk = k.schedtsk
      /\ \A u \in TSK \ {t} : SameTask(k, r, u)
      /\ r.tstat = k.tstat /\ r.winfo = k.winfo /\ r.tmevt = k.tmevt
      /\ r.tskatr = k.tskatr /\ r.actque = k.actque /\ r.wupque = k.wupque
  BY <1>1 DEF KState, SameSched, SameSystem, SameQueues, SameTask, SameState
<1> HIDE DEF r
<1>4. TaskOK(r, t)
  BY <1>1, <1>3 DEF TaskOK, WaitOK, SameQueues, TSTAT_WAITING, TSTAT_DORMANT
<1>5. Good(r)  BY <1>2, <1>3, <1>4, StateOnly
<1>6. QED  BY <1>3, <1>5 DEF r

LEMMA BasePriority ==
  ASSUME NEW k, Good(k), NEW t \in TSK, NEW pri \in PRI
  PROVE  Good(ChangeBasePriority(k, t, pri))
<1> DEFINE b == [k EXCEPT !.bpriority[t] = pri]
<1>1. k \in KState /\ TaskOK(k, t)
  BY DEF Good, SchedInv
<1>2. /\ b \in KState /\ SameSched(k, b, Ready(k)) /\ SameSystem(k, b) /\ SameQueues(k, b)
      /\ \A u \in TSK : SameTask(k, b, u)
      /\ b.tstat = k.tstat
  BY <1>1 DEF KState, SameSched, SameSystem, SameQueues, SameTask, SameState
<1> HIDE DEF b
<1>3. TaskOK(b, t)
  BY <1>1, <1>2 DEF TaskOK, SameTask, SameState, WaitOK, TSTAT_WAITING, TSTAT_DORMANT
<1>4. Good(b)  BY <1>2, <1>3, StateOnly
<1>5. ChangeBasePriority(k, t, pri) \in {b, change_priority(b, t, pri, FALSE)}
  BY DEF ChangeBasePriority, b
<1>6. QED  BY <1>4, <1>5, ChangePriority

LEMMA ChgPri ==
  ASSUME IInv, NEW t \in TSK, NEW pri \in PRI, chg_pri(t, pri)
  PROVE  IInv'
<1>1. Return(ChangeBasePriority(ker, t, pri)) /\ Good(ker)
  BY DEF chg_pri, IInv
<1>2. QED  BY <1>1, BasePriority, Returns

LEMMA ChgPriIni ==
  ASSUME IInv, NEW t \in TSK, chg_pri_ini(t)
  PROVE  IInv'
<1> DEFINE p == [call |-> "chg_pri", tsk |-> t, pri |-> ker.ipriority[t]]
<1>1. /\ Good(ker) /\ ker \in KState /\ nest = 0 /\ Self # NULL
  BY DEF IInv, Good, SchedInv, chg_pri_ini, TaskCall, TaskRuns
<1>2. p \in PENDING
  BY <1>1 DEF KState, PENDING
<1>3. Self \in TSK /\ ~TSTAT_DORMANT(ker, Self)
  BY <1>1, RunningTask
<1>4. ker' = [ker EXCEPT !.pending[Self] = p] /\ UNCHANGED <<nest, cpulock>>
  BY DEF chg_pri_ini
<1> HIDE DEF p
<1>5. QED  BY <1>1, <1>2, <1>3, <1>4, Pending, Keeps

LEMMA PendingType ==
  ASSUME NEW k \in KState, NEW t \in TSK, k.pending[t].call # "none"
  PROVE  k.pending[t].tsk \in TSK /\ k.pending[t].pri \in PRI
<1>1. k.pending[t] \in PENDING \cup {IDLE} /\ IDLE.call = "none"
  BY DEF KState, IDLE
<1>2. k.pending[t] \in PENDING
  BY <1>1
<1>3. QED  BY <1>2 DEF PENDING

LEMMA ChgPriIniLocked ==
  ASSUME IInv, chg_pri_ini_locked
  PROVE  IInv'
<1> DEFINE c == ker.pending[Self]
           k == [ker EXCEPT !.pending[Self] = IDLE]
<1>1. /\ Good(ker) /\ ker \in KState /\ nest = 0 /\ Self # NULL /\ c.call # "none"
  BY DEF IInv, Good, SchedInv, chg_pri_ini_locked
<1>2. Self \in TSK /\ ~TSTAT_DORMANT(ker, Self)
  BY <1>1, RunningTask
<1>3. c.tsk \in TSK /\ c.pri \in PRI
  BY <1>1, <1>2, PendingType
<1>4. Good(k)
  BY <1>1, <1>2, Pending
<1>5. Return(IF ChgPriAccepted(c.tsk, c.pri) THEN ChangeBasePriority(k, c.tsk, c.pri) ELSE k)
  BY DEF chg_pri_ini_locked
<1> HIDE DEF k, c
<1>6. Good(ChangeBasePriority(k, c.tsk, c.pri))
  BY <1>3, <1>4, BasePriority
<1>7. QED  BY <1>4, <1>5, <1>6, Returns

\* A new task takes the first block of the free list.
LEMMA AcreTsk ==
  ASSUME IInv, NEW atr \in {"TA_NULL", "TA_NOACTQUE"}, NEW act \in BOOLEAN, NEW pri \in PRI,
         acre_tsk(atr, act, pri)
  PROVE  IInv'
<1> DEFINE t == Head(ker.free_tcb)
           k == [ker EXCEPT !.free_tcb = Tail(@), !.tskatr[t] = atr,
                            !.ipriority[t] = pri, !.actque[t] = FALSE, !.lastmtx[t] = <<>>]
           d == make_dormant(k, t)
<1>1. /\ Good(ker) /\ ker \in KState /\ ker.free_tcb # <<>>
      /\ Distinct(ker.free_tcb) /\ ker.free_tcb \in Seq(TSK)
  BY DEF IInv, Good, SchedInv, SystemOK, FreeList, acre_tsk, KState
<1>2. /\ t \in TSK /\ InQueue(ker.free_tcb, t) /\ Distinct(Tail(ker.free_tcb))
      /\ Tail(ker.free_tcb) \in Seq(TSK)
      /\ \A u : InQueue(Tail(ker.free_tcb), u) <=> InQueue(ker.free_tcb, u) /\ u # t
  BY <1>1, QueueTail
<1>3. /\ ker.tskatr[t] = "TA_NOEXS" /\ TSTAT_DORMANT(ker, t) /\ TaskOK(ker, t)
  BY <1>1, <1>2 DEF Good, SystemOK, FreeList, TaskOK
<1>4. t \notin Ready(ker) /\ t \notin ker.tmevt
  BY <1>1, <1>2, <1>3, TaskStates DEF Ready, TaskOK
<1>5. Return(IF act THEN make_active(d, t) ELSE d)
  BY DEF acre_tsk
<1> HIDE DEF t
<1>6. k \in KState
  <2>1. [ker.tskatr EXCEPT ![t] = atr] \in [TSK -> {"TA_NOEXS", "TA_NULL", "TA_NOACTQUE"}]
    BY <1>1, <1>2 DEF KState
  <2>2. [ker.ipriority EXCEPT ![t] = pri] \in [TSK -> PRI]  BY <1>1, <1>2 DEF KState
  <2>3. [ker.actque EXCEPT ![t] = FALSE] \in [TSK -> BOOLEAN]  BY <1>1, <1>2 DEF KState
  <2>4. [ker.lastmtx EXCEPT ![t] = <<>>] \in [TSK -> Seq(MTX)]  BY <1>1, <1>2 DEF KState
  <2>5. QED  BY <1>1, <1>2, <2>1, <2>2, <2>3, <2>4, ZenonT(60) DEF KState
<1>7. /\ k.tskatr = [ker.tskatr EXCEPT ![t] = atr] /\ k.free_tcb = Tail(ker.free_tcb)
      /\ k.actque = [ker.actque EXCEPT ![t] = FALSE]
      /\ k.lastmtx = [ker.lastmtx EXCEPT ![t] = <<>>]
      /\ k.tstat = ker.tstat /\ k.winfo = ker.winfo /\ k.wupque = ker.wupque
      /\ k.pending = ker.pending /\ k.tmevt = ker.tmevt /\ k.wobj = ker.wobj
      /\ k.priority = ker.priority /\ k.wait_queue = ker.wait_queue
      /\ k.dspflg = ker.dspflg /\ k.enadsp = ker.enadsp /\ k.ipm = ker.ipm
      /\ k.wobjatr = ker.wobjatr /\ k.free_semcb = ker.free_semcb
      /\ k.free_mtxcb = ker.free_mtxcb
      /\ SameSched(ker, k, Ready(ker))
  BY <1>1 DEF KState, SameSched
<1> HIDE DEF k
<1>8. /\ d \in KState
      /\ d.tstat = [k.tstat EXCEPT ![t] = TS_DORMANT]
      /\ d.winfo = [k.winfo EXCEPT ![t] = "none"]
      /\ d.wupque = [k.wupque EXCEPT ![t] = FALSE]
      /\ d.pending = [k.pending EXCEPT ![t] = IDLE]
      /\ d.wobj = [k.wobj EXCEPT ![t] = NULL]
      /\ d.priority = [k.priority EXCEPT ![t] = k.ipriority[t]]
      /\ d.actque = k.actque /\ d.tmevt = k.tmevt /\ d.lastmtx = k.lastmtx
      /\ d.wait_queue = k.wait_queue
      /\ SameSystem(k, d) /\ SameSched(k, d, Ready(ker))
  <2>1. Ready(ker) \subseteq TSK \ {t}  BY <1>4 DEF Ready
  <2>2. QED  BY <1>2, <1>6, <2>1, MakeDormant
<1> HIDE DEF d
<1>9. /\ ker.tstat \in [TSK -> TSTAT] /\ ker.winfo \in [TSK -> WINFO]
      /\ ker.wupque \in [TSK -> BOOLEAN] /\ ker.pending \in [TSK -> PENDING \cup {IDLE}]
      /\ ker.actque \in [TSK -> BOOLEAN] /\ ker.wobj \in [TSK -> OBJ \cup {NULL}]
      /\ ker.priority \in [TSK -> PRI] /\ ker.lastmtx \in [TSK -> Seq(MTX)]
      /\ ker.tskatr \in [TSK -> {"TA_NOEXS", "TA_NULL", "TA_NOACTQUE"}]
  BY <1>1 DEF KState
<1>10. Good(d) /\ TSTAT_DORMANT(d, t) /\ d.tskatr[t] # "TA_NOEXS"
  <2>1. d.tskatr[t] = atr /\ atr # "TA_NOEXS" /\ d.tstat[t] = TS_DORMANT
    BY <1>2, <1>7, <1>8, <1>9 DEF SameSystem
  <2>2. Ready(d) = Ready(ker)
    BY <1>2, <1>4, <1>7, <1>8, <1>9, StateConstants DEF Ready, TSTAT_RUNNABLE
  <2>3. SchedInv(d, Ready(d))
    <3>1. SameSched(ker, d, Ready(ker))  BY <1>7, <1>8 DEF SameSched
    <3>2. QED  BY <1>1, <1>8, <2>2, <3>1, StaysReady
  <2>4. \A u \in TSK \ {t} : SameTask(ker, d, u)
    BY <1>2, <1>7, <1>8, <1>9 DEF SameTask, SameState, SameSystem
  <2>5. ASSUME NEW u \in TSK \ {t}  PROVE TaskOK(d, u)
    <3>1. TaskOK(ker, u) /\ SameState(ker, d, u)  BY <1>1, <2>4 DEF Good, SameTask
    <3>2. QED  BY <3>1, SameTaskOK
  <2>6. TaskOK(d, t)
    <3>1. /\ d.winfo[t] = "none" /\ t \notin d.tmevt /\ d.actque[t] = FALSE
          /\ d.wupque[t] = FALSE /\ d.pending[t] = IDLE /\ d.lastmtx[t] = <<>>
      BY <1>2, <1>4, <1>7, <1>8, <1>9
    <3>2. QED  BY <2>1, <3>1, StateConstants
          DEF TaskOK, WaitOK, TSTAT_WAITING, TSTAT_DORMANT
  <2>7. SystemOK(d)
    <3>1. SystemOK(ker)  BY <1>1 DEF Good
    <3>2. /\ d.tskatr = [ker.tskatr EXCEPT ![t] = atr] /\ d.free_tcb = Tail(ker.free_tcb)
          /\ d.dspflg = ker.dspflg /\ d.enadsp = ker.enadsp /\ d.ipm = ker.ipm
          /\ d.wobjatr = ker.wobjatr /\ d.free_semcb = ker.free_semcb
          /\ d.free_mtxcb = ker.free_mtxcb
      BY <1>7, <1>8 DEF SameSystem
    <3>3. FreeList(d.free_tcb, TSK, d.tskatr)
      BY <1>2, <1>9, <3>1, <3>2 DEF SystemOK, FreeList
    <3>4. QED  BY <3>1, <3>2, <3>3 DEF SystemOK
  <2>8. QueuesOK(d, {})
    <3>1. d.wait_queue = ker.wait_queue /\ d.wobjatr = ker.wobjatr
      BY <1>7, <1>8 DEF SameSystem
    <3>2. \A u \in TSK \ {t} : SameWait(ker, d, u)
      BY <2>4 DEF SameTask, SameState, SameWait, TSTAT_WAIT_WOBJ
    <3>3. SameWait(ker, d, t)
      BY <1>3, <2>1, StateConstants DEF SameWait, TSTAT_WAIT_WOBJ, TSTAT_DORMANT
    <3>4. \A u \in TSK \ {} : SameWait(ker, d, u)  BY <3>2, <3>3
    <3>5. QueuesOK(ker, {})  BY <1>1 DEF Good
    <3>6. QED  BY <1>1, <3>1, <3>4, <3>5, QueuesKept
  <2>9. QED  BY <2>1, <2>3, <2>5, <2>6, <2>7, <2>8 DEF Good, TSTAT_DORMANT
<1>11. Good(make_active(d, t))
  BY <1>2, <1>10, Activate
<1>12. QED  BY <1>5, <1>10, <1>11, Returns

\* A dormant task that was created dynamically goes back to the free list.
LEMMA DelTsk ==
  ASSUME IInv, NEW t \in TSK, del_tsk(t)
  PROVE  IInv'
<1> DEFINE r == [ker EXCEPT !.tskatr[t] = "TA_NOEXS", !.free_tcb = Append(@, t)]
<1>1. /\ Good(ker) /\ ker \in KState /\ ker.tskatr[t] # "TA_NOEXS" /\ TSTAT_DORMANT(ker, t)
      /\ SystemOK(ker) /\ TaskOK(ker, t)
      /\ ker.tskatr \in [TSK -> {"TA_NOEXS", "TA_NULL", "TA_NOACTQUE"}]
  BY DEF IInv, Good, SchedInv, del_tsk, Exists, KState
<1>2. ker' = r /\ UNCHANGED <<nest, cpulock>>  BY DEF del_tsk
<1>3. /\ Append(ker.free_tcb, t) \in Seq(TSK) /\ Distinct(Append(ker.free_tcb, t))
      /\ \A u : InQueue(Append(ker.free_tcb, t), u) <=> InQueue(ker.free_tcb, u) \/ u = t
  <2>1. ker.free_tcb \in Seq(TSK) /\ Distinct(ker.free_tcb) /\ ~InQueue(ker.free_tcb, t)
    BY <1>1 DEF KState, SystemOK, FreeList
  <2>2. QED  BY <2>1, QueueAppend
<1>4. r \in KState
  <2>1. [ker.tskatr EXCEPT ![t] = "TA_NOEXS"] \in [TSK -> {"TA_NOEXS", "TA_NULL", "TA_NOACTQUE"}]
    BY <1>1
  <2>2. QED  BY <1>1, <1>3, <2>1 DEF KState
<1>5. /\ r.tskatr = [ker.tskatr EXCEPT ![t] = "TA_NOEXS"]
      /\ r.free_tcb = Append(ker.free_tcb, t)
      /\ r.dspflg = ker.dspflg /\ r.enadsp = ker.enadsp /\ r.ipm = ker.ipm
      /\ r.tstat = ker.tstat /\ r.winfo = ker.winfo /\ r.tmevt = ker.tmevt
      /\ r.wobjatr = ker.wobjatr /\ r.free_semcb = ker.free_semcb
      /\ r.free_mtxcb = ker.free_mtxcb /\ SameQueues(ker, r)
      /\ r.actque = ker.actque /\ r.wupque = ker.wupque /\ r.pending = ker.pending
      /\ r.runtsk = ker.runtsk /\ r.schedtsk = ker.schedtsk
      /\ SameSched(ker, r, Ready(ker))
  BY <1>1 DEF KState, SameSched, SameQueues
<1> HIDE DEF r
<1>6. ASSUME NEW u \in TSK  PROVE TaskOK(r, u)
  <2>1. TaskOK(ker, u)  BY <1>1 DEF Good
  <2>2. CASE u = t
    BY <1>1, <1>5, <2>1, <2>2 DEF TaskOK, WaitOK, SameQueues, TSTAT_WAITING, TSTAT_DORMANT
  <2>3. CASE u # t
    <3>1. r.tskatr[u] = ker.tskatr[u]  BY <1>1, <1>5, <2>3
    <3>2. QED
      BY <1>5, <2>1, <3>1 DEF TaskOK, WaitOK, SameQueues, TSTAT_WAITING, TSTAT_DORMANT
  <2>4. QED  BY <2>2, <2>3
<1>7. SystemOK(r)
  <2>1. FreeList(r.free_tcb, TSK, r.tskatr)
    BY <1>1, <1>3, <1>5 DEF SystemOK, FreeList
  <2>2. QED  BY <1>1, <1>3, <1>5, <2>1 DEF SystemOK
<1>8. SchedInv(r, Ready(r))
  <2>1. Ready(r) = Ready(ker)  BY <1>5 DEF Ready, TSTAT_RUNNABLE
  <2>2. QED  BY <1>1, <1>4, <1>5, <2>1, StaysReady
<1>9. QueuesOK(r, {})
  <2>1. \A u \in TSK \ {} : SameWait(ker, r, u)
    BY <1>5 DEF SameWait, SameQueues, TSTAT_WAIT_WOBJ
  <2>2. QueuesOK(ker, {}) /\ r.wait_queue = ker.wait_queue
    BY <1>1, <1>5 DEF Good, SameQueues
  <2>3. QED  BY <1>1, <1>5, <2>1, <2>2, QueuesKept
<1>10. Good(r)  BY <1>6, <1>7, <1>8, <1>9 DEF Good
<1>11. QED  BY <1>2, <1>5, <1>10, Keeps

----------------------------------------------------------------------------
(* Every call keeps the invariant: task_sync.c.                            *)

LEMMA SlpTsk ==
  ASSUME IInv, NEW tmo \in BOOLEAN, slp_tsk(tmo)
  PROVE  IInv'
<1>1. Good(ker) /\ nest = 0 /\ Self # NULL /\ ker.dspflg
  BY DEF IInv, slp_tsk, DispatchCall, TaskCall, TaskRuns
<1>2. Self \in TSK /\ Self \in Ready(ker)
  BY <1>1, RunningTask
<1>3. CASE ker.wupque[Self]
  <2>1. ker' = [ker EXCEPT !.wupque[Self] = FALSE] /\ UNCHANGED <<nest, cpulock>>
    BY <1>3 DEF slp_tsk
  <2>2. QED  BY <1>1, <1>2, <2>1, Wupque, Keeps
<1>4. CASE ~ker.wupque[Self]
  <2>1. Return(make_wait(ker, "SLP", tmo))  BY <1>4 DEF slp_tsk
  <2>2. Good(make_wait(ker, "SLP", tmo))  BY <1>1, <1>2, <1>4, Wait DEF Self
  <2>3. QED  BY <2>1, <2>2, Returns
<1>5. QED  BY <1>3, <1>4

LEMMA DlyTsk ==
  ASSUME IInv, dly_tsk
  PROVE  IInv'
<1>1. Good(ker) /\ nest = 0 /\ Self # NULL /\ ker.dspflg
  BY DEF IInv, dly_tsk, DispatchCall, TaskCall, TaskRuns
<1>2. Self \in TSK /\ Self \in Ready(ker)
  BY <1>1, RunningTask
<1>3. Return(make_wait(ker, "DLY", TRUE))  BY DEF dly_tsk
<1>4. Good(make_wait(ker, "DLY", TRUE))  BY <1>1, <1>2, Wait DEF Self
<1>5. QED  BY <1>3, <1>4, Returns

LEMMA WupTsk ==
  ASSUME IInv, NEW t \in TSK, wup_tsk(t)
  PROVE  IInv'
<1>1. Good(ker) /\ ~TSTAT_DORMANT(ker, t)  BY DEF IInv, wup_tsk
<1>2. CASE ker.tstat[t].wai = "SLP"
  <2>1. Return(wait_complete(ker, t))  BY <1>2 DEF wup_tsk
  <2>2. Good(wait_complete(ker, t))  BY <1>1, <1>2, WaitComplete
  <2>3. QED  BY <2>1, <2>2, Returns
<1>3. CASE ker.tstat[t].wai # "SLP"
  <2>1. ker' = [ker EXCEPT !.wupque[t] = TRUE] /\ UNCHANGED <<nest, cpulock>>
    BY <1>3 DEF wup_tsk
  <2>2. QED  BY <1>1, <1>3, <2>1, Wupque, Keeps
<1>4. QED  BY <1>2, <1>3

LEMMA CanWup ==
  ASSUME IInv, NEW t \in TSK, can_wup(t)
  PROVE  IInv'
<1>1. Good(ker)  BY DEF IInv
<1>2. ker' = [ker EXCEPT !.wupque[t] = FALSE] /\ UNCHANGED <<nest, cpulock>>
  BY DEF can_wup
<1>3. QED  BY <1>1, <1>2, Wupque, Keeps

LEMMA RelWai ==
  ASSUME IInv, NEW t \in TSK, rel_wai(t)
  PROVE  IInv'
<1>1. Good(ker) /\ TSTAT_WAITING(ker, t)  BY DEF IInv, rel_wai
<1>2. Return(make_non_wait(EndedWait(ker, t, "E_RLWAI"), t))
  BY DEF rel_wai, EndedWait
<1>3. "E_RLWAI" \in WERCD  BY DEF WERCD
<1>4. QED  BY <1>1, <1>2, <1>3, WaitEnds, Returns

\* A runnable task that is suspended leaves the ready queue, a waiting one only
\* gets the flag.
LEMMA SusTsk ==
  ASSUME IInv, NEW t \in TSK, sus_tsk(t)
  PROVE  IInv'
<1>1. /\ Good(ker) /\ ker \in KState /\ nest = 0 /\ Self # NULL
      /\ ~TSTAT_DORMANT(ker, t) /\ ker.tskatr[t] # "TA_NOEXS" /\ TaskOK(ker, t)
      /\ ker.tstat \in [TSK -> TSTAT]
  BY DEF IInv, Good, SchedInv, sus_tsk, TaskCall, TaskRuns, Exists, KState
<1>2. CASE TSTAT_RUNNABLE(ker, t)
  <2> DEFINE d == [ker EXCEPT !.tstat[t] = TS_SUSPENDED]
             r == make_non_runnable(d, t)
  <2>1. Return(r)  BY <1>2 DEF sus_tsk
  <2>2. t \in Ready(ker) /\ (~ker.dspflg => t # ker.schedtsk)
    BY <1>1, <1>2, RunningTask DEF Ready, sus_tsk
  <2>3. d \in KState
    BY <1>1, StateConstants DEF KState
  <2>4. /\ d.tstat = [ker.tstat EXCEPT ![t] = TS_SUSPENDED]
        /\ SameSystem(ker, d) /\ SameQueues(ker, d) /\ SameSched(ker, d, Ready(ker))
        /\ d.winfo = ker.winfo /\ d.tmevt = ker.tmevt
        /\ d.actque = ker.actque /\ d.wupque = ker.wupque /\ d.pending = ker.pending
    BY <1>1 DEF KState, SameSystem, SameQueues, SameSched
  <2> HIDE DEF d
  <2>5. Ready(d) = Ready(ker) \ {t}
    BY <1>1, <2>4, StateConstants DEF Ready, TSTAT_RUNNABLE
  <2>6. r \in KState /\ SchedInv(r, Ready(r)) /\ OnlyQueues(d, r)
    BY <1>1, <2>2, <2>3, <2>4, <2>5, LeavesReady
  <2> HIDE DEF r
  <2>7. \A u \in TSK \ {t} : SameTask(ker, r, u)
    BY <1>1, <2>4, <2>6 DEF SameTask, SameState, SameSystem, SameQueues, OnlyQueues
  <2>8. SameSystem(ker, r) /\ SameQueues(ker, r)
    BY <2>4, <2>6 DEF SameSystem, SameQueues, OnlyQueues
  <2>9. TaskOK(r, t)
    <3>1. /\ r.tstat[t] = TS_SUSPENDED /\ r.winfo[t] = ker.winfo[t]
          /\ (t \in r.tmevt <=> t \in ker.tmevt) /\ r.tskatr[t] = ker.tskatr[t]
          /\ r.wupque[t] = ker.wupque[t]
      BY <1>1, <2>4, <2>6 DEF OnlyQueues, SameSystem
    <3>2. ~TSTAT_WAITING(ker, t)  BY <1>1, <1>2, TaskStates
    <3>3. QED  BY <1>1, <3>1, <3>2, StateConstants
          DEF TaskOK, WaitOK, SameQueues, TSTAT_WAITING, TSTAT_DORMANT
  <2>10. SameWait(ker, r, t) /\ r.wait_queue = ker.wait_queue
    <3>1. ~TSTAT_WAIT_WOBJ(ker, t)
      BY <1>1, <1>2, TaskStates DEF TSTAT_WAIT_WOBJ, TSTAT_WAITING, FACTOR
    <3>2. r.tstat[t] = TS_SUSPENDED  BY <1>1, <2>4, <2>6 DEF OnlyQueues
    <3>3. QED  BY <2>8, <3>1, <3>2, StateConstants DEF SameWait, SameQueues, TSTAT_WAIT_WOBJ
  <2>11. Good(r)  BY <1>1, <2>6, <2>7, <2>8, <2>9, <2>10, OneTask
  <2>12. QED  BY <2>1, <2>11, Returns
<1>3. CASE ~TSTAT_RUNNABLE(ker, t)
  <2> DEFINE s == [ker.tstat[t] EXCEPT !.sus = TRUE]
             r == [ker EXCEPT !.tstat[t] = s]
  <2>1. r = [ker EXCEPT !.tstat[t].sus = TRUE]
    BY <1>1 DEF KState
  <2>2. Return(r)  BY <1>3, <2>1 DEF sus_tsk
  <2>3. s \in TSTAT /\ s.wai = ker.tstat[t].wai /\ s.sus = TRUE /\ s.run = ker.tstat[t].run
        /\ s # TS_DORMANT
    <3>1. ker.tstat[t] \in TSTAT  BY <1>1
    <3>2. s.sus = TRUE /\ s.wai = ker.tstat[t].wai /\ s.run = ker.tstat[t].run
      BY <3>1 DEF TSTAT
    <3>3. s \in TSTAT  BY <1>3, <3>1 DEF TSTAT, TSTAT_RUNNABLE
    <3>4. QED  BY <3>2, <3>3 DEF TS_DORMANT
  <2> HIDE DEF s
  <2>4. /\ r \in KState /\ SameSched(ker, r, Ready(ker)) /\ SameSystem(ker, r)
        /\ SameQueues(ker, r) /\ r.tstat[t] = s /\ r.wupque = ker.wupque
        /\ r.winfo = ker.winfo /\ r.tmevt = ker.tmevt /\ r.tskatr = ker.tskatr
    BY <1>1, <2>3, ZenonT(60) DEF KState, SameSched, SameSystem, SameQueues
  <2>5. \A u \in TSK \ {t} : SameTask(ker, r, u)
    BY <1>1 DEF KState, SameTask, SameState
  <2> HIDE DEF r
  <2>6. TaskOK(r, t)
    BY <1>1, <2>3, <2>4 DEF TaskOK, WaitOK, SameQueues, TSTAT_WAITING, TSTAT_DORMANT
  <2>7. Good(r)  BY <1>1, <2>3, <2>4, <2>5, <2>6, StateOnly
  <2>8. QED  BY <2>2, <2>7, Returns
<1>4. QED  BY <1>2, <1>3

LEMMA RsmTsk ==
  ASSUME IInv, NEW t \in TSK, rsm_tsk(t)
  PROVE  IInv'
<1>1. /\ Good(ker) /\ ker \in KState /\ TSTAT_SUSPENDED(ker, t)
      /\ ker.tskatr[t] # "TA_NOEXS" /\ TaskOK(ker, t) /\ ker.tstat \in [TSK -> TSTAT]
  BY DEF IInv, Good, SchedInv, rsm_tsk, Exists, KState
<1>2. ~TSTAT_RUNNABLE(ker, t)  BY <1>1, TaskStates
<1>3. CASE TSTAT_WAITING(ker, t)
  <2> DEFINE s == [ker.tstat[t] EXCEPT !.sus = FALSE]
             r == [ker EXCEPT !.tstat[t] = s]
  <2>1. r = [ker EXCEPT !.tstat[t].sus = FALSE]
    BY <1>1 DEF KState
  <2>2. Return(r)  BY <1>3, <2>1 DEF rsm_tsk
  <2>3. s \in TSTAT /\ s.wai = ker.tstat[t].wai /\ s.run = ker.tstat[t].run /\ s # TS_DORMANT
    <3>1. ker.tstat[t] \in TSTAT  BY <1>1
    <3>2. s.wai = ker.tstat[t].wai /\ s.run = ker.tstat[t].run
      BY <3>1 DEF TSTAT
    <3>3. s \in TSTAT  BY <3>1 DEF TSTAT
    <3>4. QED  BY <1>3, <3>2, <3>3 DEF TS_DORMANT, TSTAT_WAITING
  <2> HIDE DEF s
  <2>4. /\ r \in KState /\ SameSched(ker, r, Ready(ker)) /\ SameSystem(ker, r)
        /\ SameQueues(ker, r) /\ r.tstat[t] = s /\ r.wupque = ker.wupque
        /\ r.winfo = ker.winfo /\ r.tmevt = ker.tmevt /\ r.tskatr = ker.tskatr
    BY <1>1, <2>3, ZenonT(60) DEF KState, SameSched, SameSystem, SameQueues
  <2>5. \A u \in TSK \ {t} : SameTask(ker, r, u)
    BY <1>1 DEF KState, SameTask, SameState
  <2> HIDE DEF r
  <2>6. TaskOK(r, t)
    BY <1>1, <2>3, <2>4 DEF TaskOK, WaitOK, SameQueues, TSTAT_WAITING, TSTAT_DORMANT
  <2>7. Good(r)  BY <1>1, <2>3, <2>4, <2>5, <2>6, StateOnly
  <2>8. QED  BY <2>2, <2>7, Returns
<1>4. CASE ~TSTAT_WAITING(ker, t)
  <2> DEFINE d == [ker EXCEPT !.tstat[t] = TS_RUNNABLE]
  <2>1. d \in KState
    BY <1>1, StateConstants DEF KState
  <2>2. Readied(ker, {}, d, t)
    <3>1. /\ d.tstat = [ker.tstat EXCEPT ![t] = TS_RUNNABLE] /\ SameSystem(ker, d)
          /\ SameSched(ker, d, Ready(ker)) /\ SameQueues(ker, d)
          /\ d.winfo = ker.winfo /\ d.tmevt = ker.tmevt
          /\ d.actque = ker.actque /\ d.wupque = ker.wupque /\ d.pending = ker.pending
      BY <1>1 DEF KState, SameSystem, SameSched, SameQueues
    <3> HIDE DEF d
    <3>2. \A u \in TSK \ {t} : SameTask(ker, d, u)
      BY <1>1, <3>1 DEF SameTask, SameState, SameSystem, SameQueues
    <3>3. \A u \in TSK \ {} : SameWait(ker, d, u)
      <4>1. ~TSTAT_WAIT_WOBJ(ker, t) /\ ~TSTAT_WAIT_WOBJ(d, t)
        BY <1>1, <1>4, <3>1, StateConstants DEF TSTAT_WAIT_WOBJ, TSTAT_WAITING, FACTOR
      <4>2. QED  BY <3>2, <4>1 DEF SameWait, SameTask, SameState, TSTAT_WAIT_WOBJ
    <3>4. QueuesOK(d, {})
      <4>1. QueuesOK(ker, {}) /\ d.wait_queue = ker.wait_queue /\ d.wobjatr = ker.wobjatr
        BY <1>1, <3>1 DEF Good, SameQueues, SameSystem
      <4>2. QED  BY <1>1, <3>3, <4>1, QueuesKept
    <3>5. d.winfo[t] \notin {"null", "tmevtb"} /\ t \notin d.tmevt
      BY <1>1, <1>4, <3>1 DEF TaskOK
    <3>6. QED  BY <3>1, <3>2, <3>4, <3>5 DEF Readied
  <2>3. Return(make_runnable(d, t))  BY <1>4 DEF rsm_tsk
  <2> HIDE DEF d
  <2>4. Good(make_runnable(d, t))  BY <1>1, <1>2, <2>1, <2>2, MakeReady
  <2>5. QED  BY <2>3, <2>4, Returns
<1>5. QED  BY <1>3, <1>4

----------------------------------------------------------------------------
(* Every call keeps the invariant: sys_manage.c and chg_ipm.               *)

LEMMA RotRdq ==
  ASSUME IInv, NEW pri \in PRI, rot_rdq(pri)
  PROVE  IInv'
<1>1. Good(ker) /\ Return(rotate_ready_queue(ker, pri))  BY DEF IInv, rot_rdq
<1>2. QED  BY <1>1, RotateKeepsGood, Returns

LEMMA RotRdqSelf ==
  ASSUME IInv, rot_rdq_self
  PROVE  IInv'
<1> DEFINE p == [call |-> "rot_rdq", tsk |-> Self, pri |-> ker.bpriority[Self]]
<1>1. /\ Good(ker) /\ ker \in KState /\ nest = 0 /\ Self # NULL
  BY DEF IInv, Good, SchedInv, rot_rdq_self, TaskCall, TaskRuns
<1>2. Self \in TSK /\ ~TSTAT_DORMANT(ker, Self)
  BY <1>1, RunningTask
<1>3. p \in PENDING
  BY <1>1, <1>2 DEF KState, PENDING
<1>4. ker' = [ker EXCEPT !.pending[Self] = p] /\ UNCHANGED <<nest, cpulock>>
  BY DEF rot_rdq_self
<1> HIDE DEF p
<1>5. QED  BY <1>1, <1>2, <1>3, <1>4, Pending, Keeps

LEMMA RotRdqSelfLocked ==
  ASSUME IInv, rot_rdq_self_locked
  PROVE  IInv'
<1> DEFINE k == [ker EXCEPT !.pending[Self] = IDLE]
           pri == ker.pending[Self].pri
<1>1. /\ Good(ker) /\ ker \in KState /\ nest = 0 /\ Self # NULL
      /\ ker.pending[Self].call # "none"
  BY DEF IInv, Good, SchedInv, rot_rdq_self_locked
<1>2. Self \in TSK /\ ~TSTAT_DORMANT(ker, Self)
  BY <1>1, RunningTask
<1>3. pri \in PRI
  BY <1>1, <1>2, PendingType
<1>4. Good(k)
  BY <1>1, <1>2, Pending
<1>5. Return(rotate_ready_queue(k, pri))
  BY DEF rot_rdq_self_locked
<1> HIDE DEF k, pri
<1>6. QED  BY <1>3, <1>4, <1>5, RotateKeepsGood, Returns

\* What dispatching being enabled or disabled leaves alone.
SameRest(k, r) ==
  /\ r.tskatr = k.tskatr /\ r.tstat = k.tstat /\ r.winfo = k.winfo /\ r.tmevt = k.tmevt
  /\ r.actque = k.actque /\ r.wupque = k.wupque /\ r.pending = k.pending
  /\ r.free_tcb = k.free_tcb /\ r.wobjatr = k.wobjatr
  /\ r.free_semcb = k.free_semcb /\ r.free_mtxcb = k.free_mtxcb
  /\ SameQueues(k, r)

LEMMA OnlyFlags ==
  ASSUME NEW k, Good(k), NEW r, SchedInv(r, Ready(k)), SameRest(k, r),
         r.dspflg <=> r.enadsp /\ ~r.ipm
  PROVE  Good(r)
<1>1. k \in KState  BY DEF Good, SchedInv
<1>2. SchedInv(r, Ready(r))
  <2>1. Ready(r) = Ready(k)  BY DEF SameRest, Ready, TSTAT_RUNNABLE
  <2>2. QED  BY <2>1
<1>3. ASSUME NEW t \in TSK  PROVE TaskOK(r, t)
  <2>1. TaskOK(k, t) /\ SameState(k, r, t)
    BY DEF Good, SameRest, SameQueues, SameState
  <2>2. QED  BY <2>1, SameTaskOK
<1>4. SystemOK(r)
  BY DEF Good, SystemOK, SameRest
<1>5. QueuesOK(r, {})
  <2>1. \A u \in TSK \ {} : SameWait(k, r, u)
    BY DEF SameRest, SameQueues, SameWait, TSTAT_WAIT_WOBJ
  <2>2. QueuesOK(k, {}) /\ r.wait_queue = k.wait_queue /\ r.wobjatr = k.wobjatr
    BY DEF Good, SameRest, SameQueues
  <2>3. QED  BY <1>1, <2>1, <2>2, QueuesKept
<1>6. QED  BY <1>2, <1>3, <1>4, <1>5 DEF Good

\* Dispatching becomes possible: p_schedtsk is found by a search.
LEMMA Enable ==
  ASSUME IInv, nest = 0, Self # NULL, NEW k \in KState,
         k = [ker EXCEPT !.enadsp = TRUE, !.ipm = FALSE]
  PROVE  /\ Good(set_dspflg(k)) /\ set_dspflg(k).dspflg /\ SameRest(ker, set_dspflg(k))
         /\ set_dspflg(k).tstat = ker.tstat
<1> DEFINE r == set_dspflg(k)
           e == [k EXCEPT !.dspflg = TRUE]
<1>1. Good(ker) /\ ker \in KState /\ Self \in Ready(ker)
  BY RunningTask DEF IInv, Good, SchedInv
<1>2. /\ SameSched(ker, k, Ready(ker)) /\ k.enadsp = TRUE /\ k.ipm = FALSE
      /\ SameRest(ker, k)
  BY <1>1 DEF KState, SameSched, SameRest, SameQueues
<1>3. SchedInv(k, Ready(ker))
  BY <1>1, <1>2, OtherFields DEF Good
<1>4. SchedInv(r, Ready(ker)) /\ OnlyQueues(e, r)
  BY <1>1, <1>3, SetDspflg
<1>5. /\ e.enadsp = k.enadsp /\ e.ipm = k.ipm /\ e.dspflg = TRUE
      /\ SameRest(k, e)
  BY DEF KState, SameRest, SameQueues
<1> HIDE DEF e, r
<1>6. /\ r.enadsp = TRUE /\ r.ipm = FALSE /\ r.dspflg = TRUE
      /\ SameRest(ker, r)
  BY <1>2, <1>4, <1>5 DEF OnlyQueues, SameRest, SameQueues
<1>7. Good(r)  BY <1>1, <1>4, <1>6, OnlyFlags
<1>8. QED  BY <1>6, <1>7 DEF r, SameRest

LEMMA ReenableKeeps ==
  ASSUME IInv, nest = 0, Self # NULL, NEW k \in KState,
         k = [ker EXCEPT !.enadsp = TRUE, !.ipm = FALSE], Reenable(k)
  PROVE  IInv'
<1> DEFINE s == set_dspflg(k)
<1>1. Good(s) /\ s.dspflg /\ s.tstat = ker.tstat
  BY Enable
<1>2. Self \in TSK /\ ~TSTAT_DORMANT(s, Self)
  BY <1>1, RunningTask DEF TSTAT_DORMANT
<1>3. Good(task_terminate(s, Self))
  BY <1>1, <1>2, Terminate
<1>4. ExitAndDispatch(task_terminate(s, Self)) \/ Return(s)
  BY DEF Reenable
<1> HIDE DEF s
<1>5. QED  BY <1>1, <1>3, <1>4, Exits, Returns

\* Dispatching becomes impossible: p_schedtsk is the running task and stays it.
LEMMA Disable ==
  ASSUME IInv, nest = 0, Self # NULL, NEW ena \in BOOLEAN, NEW mask \in BOOLEAN,
         ~(ena /\ ~mask), UNCHANGED <<nest, cpulock>>,
         ker' = [ker EXCEPT !.enadsp = ena, !.ipm = mask, !.dspflg = FALSE]
  PROVE  IInv'
<1> DEFINE r == [ker EXCEPT !.enadsp = ena, !.ipm = mask, !.dspflg = FALSE]
<1>1. Good(ker) /\ ker \in KState /\ Self \in Ready(ker) /\ ker.schedtsk = ker.runtsk
      /\ ker.schedtsk \in Ready(ker)
  BY RunningTask DEF IInv, Good, SchedInv, Self
<1>2. /\ r \in KState /\ r.enadsp = ena /\ r.ipm = mask /\ r.dspflg = FALSE
  BY ZenonT(60), <1>1 DEF KState
<1>3. /\ r.ready_queue = ker.ready_queue /\ r.ready_primap = ker.ready_primap
      /\ r.priority = ker.priority /\ r.failed = ker.failed
      /\ r.runtsk = ker.runtsk /\ r.schedtsk = ker.schedtsk
      /\ SameRest(ker, r)
  BY <1>1 DEF KState, SameRest, SameQueues
<1>4. ker' = r  OBVIOUS
<1> HIDE DEF r
<1>5. Queued(r, Ready(ker))
  BY <1>1, <1>3 DEF Good, SchedInv, Queued
<1>6. SchedInv(r, Ready(ker))
  BY <1>1, <1>2, <1>3, <1>5 DEF Good, SchedInv
<1>7. Good(r)  BY <1>1, <1>2, <1>3, <1>6, OnlyFlags
<1>8. QED
  BY <1>3, <1>4, <1>7, Keeps

LEMMA DisDsp ==
  ASSUME IInv, dis_dsp
  PROVE  IInv'
<1>1. nest = 0 /\ Self # NULL /\ ker \in KState
  BY DEF IInv, Good, SchedInv, dis_dsp, TaskCall, TaskRuns
<1>2. ker.ipm \in BOOLEAN  BY <1>1 DEF KState
<1>3. /\ ker' = [ker EXCEPT !.enadsp = FALSE, !.ipm = ker.ipm, !.dspflg = FALSE]
      /\ UNCHANGED <<nest, cpulock>>
  BY <1>1 DEF dis_dsp, KState
<1>4. QED  BY <1>1, <1>2, <1>3, Disable

LEMMA EnaDsp ==
  ASSUME IInv, ena_dsp
  PROVE  IInv'
<1> DEFINE k == [ker EXCEPT !.enadsp = TRUE]
<1>1. /\ nest = 0 /\ Self # NULL /\ ker \in KState /\ ker.ipm \in BOOLEAN
      /\ ker.dspflg \in BOOLEAN /\ SystemOK(ker)
  BY DEF IInv, Good, SchedInv, ena_dsp, TaskCall, TaskRuns, KState
<1>2. k \in KState  BY <1>1 DEF KState
<1>3. CASE ker.ipm
  <2>1. ker' = k /\ UNCHANGED <<nest, cpulock>>  BY <1>3 DEF ena_dsp
  <2>2. ker.dspflg = FALSE /\ ker.ipm = TRUE  BY <1>1, <1>3 DEF SystemOK
  <2>3. k = [ker EXCEPT !.enadsp = TRUE, !.ipm = TRUE, !.dspflg = FALSE]
    BY <1>1, <2>2 DEF KState
  <2>4. QED  BY <1>1, <2>1, <2>3, Disable
<1>4. CASE ~ker.ipm
  <2>1. Reenable(k)  BY <1>4 DEF ena_dsp
  <2>2. k = [ker EXCEPT !.enadsp = TRUE, !.ipm = FALSE]
    BY <1>1, <1>4 DEF KState
  <2> HIDE DEF k
  <2>3. QED  BY <1>1, <1>2, <2>1, <2>2, ReenableKeeps
<1>5. QED  BY <1>3, <1>4

LEMMA ChgIpm ==
  ASSUME IInv, NEW mask \in BOOLEAN, chg_ipm(mask)
  PROVE  IInv'
<1> DEFINE k == [ker EXCEPT !.ipm = mask]
<1>1. /\ nest = 0 /\ Self # NULL /\ ker \in KState /\ ker.enadsp \in BOOLEAN
  BY DEF IInv, Good, SchedInv, chg_ipm, TaskCall, TaskRuns, KState
<1>2. k \in KState  BY <1>1 DEF KState
<1>3. CASE ~mask /\ ker.enadsp
  <2>1. Reenable(k)  BY <1>3 DEF chg_ipm
  <2>2. k = [ker EXCEPT !.enadsp = TRUE, !.ipm = FALSE]
    BY <1>1, <1>3 DEF KState
  <2> HIDE DEF k
  <2>3. QED  BY <1>1, <1>2, <2>1, <2>2, ReenableKeeps
<1>4. CASE ~(~mask /\ ker.enadsp)
  <2>1. ker' = [k EXCEPT !.dspflg = FALSE] /\ UNCHANGED <<nest, cpulock>>
    BY <1>4 DEF chg_ipm
  <2>2. [k EXCEPT !.dspflg = FALSE]
          = [ker EXCEPT !.enadsp = ker.enadsp, !.ipm = mask, !.dspflg = FALSE]
    BY <1>1 DEF KState
  <2>3. QED  BY <1>1, <1>4, <2>1, <2>2, Disable
<1>5. QED  BY <1>3, <1>4

----------------------------------------------------------------------------
(* Every call keeps the invariant: task_term.c.                            *)

LEMMA ExtTsk ==
  ASSUME IInv, ext_tsk
  PROVE  IInv'
<1> DEFINE e == [ker EXCEPT !.enadsp = TRUE, !.ipm = FALSE]
           k == IF ker.dspflg THEN ker ELSE set_dspflg(e)
<1>1. /\ nest = 0 /\ Self # NULL /\ ker \in KState /\ Good(ker)
  BY DEF IInv, Good, SchedInv, ext_tsk, TaskRuns
<1>2. Self \in TSK /\ ~TSTAT_DORMANT(ker, Self)
  BY <1>1, RunningTask
<1>3. e \in KState  BY <1>1 DEF KState
<1>4. Good(k) /\ k.dspflg /\ k.tstat = ker.tstat
  <2>1. CASE ker.dspflg  BY <1>1, <2>1
  <2>2. CASE ~ker.dspflg  
    <3> HIDE DEF e
    <3>1. Good(set_dspflg(e)) /\ set_dspflg(e).dspflg /\ set_dspflg(e).tstat = ker.tstat
      BY <1>1, <1>3, Enable DEF e
    <3>2. QED  BY <2>2, <3>1
  <2>3. QED  BY <2>1, <2>2
<1>5. ExitAndDispatch(task_terminate(k, Self))
  BY DEF ext_tsk
<1> HIDE DEF k
<1>6. Good(task_terminate(k, Self))
  BY <1>2, <1>4, Terminate DEF TSTAT_DORMANT
<1>7. QED  BY <1>5, <1>6, Exits

LEMMA TerTsk ==
  ASSUME IInv, NEW t \in TSK, ter_tsk(t)
  PROVE  IInv'
<1>1. /\ Good(ker) /\ nest = 0 /\ Self # NULL /\ t # Self /\ ~TSTAT_DORMANT(ker, t)
      /\ Return(task_terminate(ker, t))
  BY DEF IInv, ter_tsk, TaskCall, TaskRuns
<1>2. t # ker.schedtsk  BY <1>1, RunningTask
<1>3. Good(task_terminate(ker, t))  BY <1>1, <1>2, Terminate
<1>4. QED  BY <1>1, <1>3, Returns

\* A change of raster[t] or of enater[t], which the invariant does not mention.
LEMMA Requests ==
  ASSUME NEW k, Good(k), NEW t \in TSK, NEW r \in KState, SameSched(k, r, Ready(k)),
         SameSystem(k, r), SameQueues(k, r), r.tstat = k.tstat, r.winfo = k.winfo,
         r.tmevt = k.tmevt, r.actque = k.actque, r.wupque = k.wupque, r.pending = k.pending
  PROVE  Good(r)
<1>1. \A u \in TSK : SameTask(k, r, u)
  BY DEF SameTask, SameState, SameSystem, SameQueues
<1>2. TaskOK(r, t)
  <2>1. TaskOK(k, t) /\ SameState(k, r, t)  BY <1>1 DEF Good, SameTask
  <2>2. QED  BY <2>1, SameTaskOK
<1>3. QED  BY <1>1, <1>2, StateOnly

LEMMA RasTer ==
  ASSUME IInv, NEW t \in TSK, ras_ter(t)
  PROVE  IInv'
<1> DEFINE k == [ker EXCEPT !.raster[t] = TRUE]
<1>1. /\ Good(ker) /\ ker \in KState /\ nest = 0 /\ Self # NULL /\ t # Self
      /\ ~TSTAT_DORMANT(ker, t) /\ ker.tskatr[t] # "TA_NOEXS"
  BY DEF IInv, Good, SchedInv, ras_ter, TaskCall, TaskRuns, Exists
<1>2. Return(IF ker.enater[t] THEN task_terminate(ker, t)
             ELSE IF TSTAT_RUNNABLE(ker, t) THEN k ELSE AbandonWait(k, t))
  BY DEF ras_ter
<1>3. t # ker.schedtsk  BY <1>1, RunningTask
<1>4. Good(task_terminate(ker, t))  BY <1>1, <1>3, Terminate
<1>5. /\ k \in KState /\ SameSched(ker, k, Ready(ker)) /\ SameSystem(ker, k) /\ SameQueues(ker, k)
      /\ k.tstat = ker.tstat /\ k.winfo = ker.winfo /\ k.tmevt = ker.tmevt
      /\ k.actque = ker.actque /\ k.wupque = ker.wupque /\ k.pending = ker.pending
  BY <1>1, ZenonT(60) DEF KState, SameSched, SameSystem, SameQueues
<1> HIDE DEF k
<1>6. Good(k)  BY <1>1, <1>5, Requests
<1>7. ASSUME ~TSTAT_RUNNABLE(ker, t)  PROVE Good(AbandonWait(k, t))
  <2> DEFINE w == IF TSTAT_WAITING(k, t) THEN EndedWait(k, t, "E_RASTER") ELSE k
             d == [w EXCEPT !.tstat[t] = TS_RUNNABLE]
  <2>1. /\ TaskOK(k, t) /\ ~TSTAT_RUNNABLE(k, t) /\ k.tskatr[t] # "TA_NOEXS"
        /\ GoodBut(k, {}) /\ QueuesOK(k, {})
    BY <1>1, <1>5, <1>6, <1>7, GoodAll DEF Good, TSTAT_RUNNABLE, SameSystem
  <2>2. /\ w \in KState /\ w.tstat = k.tstat /\ SameSystem(k, w) /\ SameSched(k, w, Ready(k))
        /\ \A u \in TSK \ {t} : SameTask(k, w, u)
        /\ w.winfo[t] \notin {"null", "tmevtb"} /\ t \notin w.tmevt
        /\ QueuesOK(w, {t})
    <3>1. CASE TSTAT_WAITING(k, t)
      <4>1. w = EndedWait(k, t, "E_RASTER")  BY <3>1
      <4>2. "E_RASTER" \in WERCD  BY DEF WERCD
      <4> HIDE DEF w
      <4>3. w \in KState /\ Woken(k, {}, w, t)
        BY <2>1, <3>1, <4>1, <4>2, EndWait
      <4>4. QED  BY <4>3 DEF Woken, WERCD
    <3>2. CASE ~TSTAT_WAITING(k, t)
      <4>1. w = k  BY <3>2
      <4>2. QueuesOK(k, {t})
        BY <1>5, <2>1, <3>2, NotQueued DEF TSTAT_WAIT_WOBJ, TSTAT_WAITING, FACTOR
      <4>3. QED  BY <1>5, <2>1, <3>2, <4>1, <4>2
            DEF TaskOK, SameSystem, SameSched, SameTask, SameState
    <3>3. QED  BY <3>1, <3>2
  <2> HIDE DEF w
  <2>3. d \in KState  BY <2>2, StateConstants DEF KState
  <2>4. /\ d.tstat = [w.tstat EXCEPT ![t] = TS_RUNNABLE]
        /\ SameSystem(w, d) /\ SameQueues(w, d) /\ SameSched(w, d, Ready(k))
        /\ d.winfo = w.winfo /\ d.tmevt = w.tmevt
        /\ d.actque = w.actque /\ d.wupque = w.wupque /\ d.pending = w.pending
    BY <2>2 DEF KState, SameSystem, SameQueues, SameSched
  <2>5. AbandonWait(k, t) = make_runnable(d, t)
    BY DEF AbandonWait, EndedWait, w
  <2> HIDE DEF d
  <2>6. w.tstat \in [TSK -> TSTAT]  BY <2>2 DEF KState
  <2>7. \A u \in TSK \ {t} : SameTask(w, d, u)
    BY <2>4, <2>6 DEF SameTask, SameState, SameSystem, SameQueues
  <2>8. \A u \in TSK \ {t} : SameTask(k, d, u)
    BY <2>2, <2>7 DEF SameTask, SameState
  <2>9. QueuesOK(d, {})
    <3>1. \A u \in TSK \ {t} : SameWait(w, d, u)
      BY <2>7 DEF SameWait, SameTask, SameState, TSTAT_WAIT_WOBJ
    <3>2. \A u \in {t} \ {} : ~TSTAT_WAIT_WOBJ(d, u)
      BY <2>4, <2>6, StateConstants DEF TSTAT_WAIT_WOBJ
    <3>3. d.wait_queue = w.wait_queue /\ d.wobjatr = w.wobjatr
      BY <2>4 DEF SameQueues, SameSystem
    <3>4. QED  BY <2>2, <3>1, <3>2, <3>3, QueuesKept
  <2>10. SameSystem(k, d)  BY <2>2, <2>4 DEF SameSystem
  <2>11. SameSched(k, d, Ready(k))  BY <2>2, <2>4 DEF SameSched
  <2>12. Readied(k, {}, d, t)
    BY <2>2, <2>4, <2>8, <2>9, <2>10, <2>11 DEF Readied
  <2>13. QED  BY <1>6, <2>1, <2>3, <2>5, <2>12, MakeReady
<1>8. QED  BY <1>2, <1>4, <1>6, <1>7, Returns

LEMMA DisTer ==
  ASSUME IInv, dis_ter
  PROVE  IInv'
<1> DEFINE r == [ker EXCEPT !.enater[Self] = FALSE]
<1>1. Good(ker) /\ ker \in KState /\ nest = 0 /\ Self # NULL
  BY DEF IInv, Good, SchedInv, dis_ter, TaskCall, TaskRuns
<1>2. Self \in TSK  BY <1>1, RunningTask
<1>3. ker' = r /\ UNCHANGED <<nest, cpulock>>  BY DEF dis_ter
<1>4. /\ r \in KState /\ SameSched(ker, r, Ready(ker)) /\ SameSystem(ker, r) /\ SameQueues(ker, r)
      /\ r.tstat = ker.tstat /\ r.winfo = ker.winfo /\ r.tmevt = ker.tmevt
      /\ r.actque = ker.actque /\ r.wupque = ker.wupque /\ r.pending = ker.pending
      /\ r.runtsk = ker.runtsk /\ r.schedtsk = ker.schedtsk
  BY <1>1, <1>2, ZenonT(60) DEF KState, SameSched, SameSystem, SameQueues
<1> HIDE DEF r
<1>5. Good(r)  BY <1>1, <1>2, <1>4, Requests
<1>6. QED  BY <1>3, <1>4, <1>5, Keeps

LEMMA EnaTer ==
  ASSUME IInv, ena_ter
  PROVE  IInv'
<1>1. Good(ker) /\ ker \in KState /\ nest = 0 /\ Self # NULL
  BY DEF IInv, Good, SchedInv, ena_ter, TaskCall, TaskRuns
<1>2. Self \in TSK /\ ~TSTAT_DORMANT(ker, Self)  BY <1>1, RunningTask
<1>3. CASE ker.raster[Self] /\ ker.dspflg
  <2>1. ExitAndDispatch(task_terminate(ker, Self))  BY <1>3 DEF ena_ter
  <2>2. Good(task_terminate(ker, Self))  BY <1>1, <1>2, <1>3, Terminate
  <2>3. QED  BY <2>1, <2>2, Exits
<1>4. CASE ~(ker.raster[Self] /\ ker.dspflg)
  <2> DEFINE r == [ker EXCEPT !.enater[Self] = TRUE]
  <2>1. ker' = r /\ UNCHANGED <<nest, cpulock>>  BY <1>4 DEF ena_ter
  <2>2. /\ r \in KState /\ SameSched(ker, r, Ready(ker)) /\ SameSystem(ker, r) /\ SameQueues(ker, r)
        /\ r.tstat = ker.tstat /\ r.winfo = ker.winfo /\ r.tmevt = ker.tmevt
        /\ r.actque = ker.actque /\ r.wupque = ker.wupque /\ r.pending = ker.pending
        /\ r.runtsk = ker.runtsk /\ r.schedtsk = ker.schedtsk
    BY <1>1, <1>2 DEF KState, SameSched, SameSystem, SameQueues
  <2> HIDE DEF r
  <2>3. Good(r)  BY <1>1, <1>2, <2>2, Requests
  <2>4. QED  BY <2>1, <2>2, <2>3, Keeps
<1>5. QED  BY <1>3, <1>4

----------------------------------------------------------------------------
(* Interrupts.                                                             *)

LEMMA Interrupt ==
  ASSUME IInv, InterruptStep
  PROVE  IInv'
<1>1. nest \in Nat /\ MAXNEST \in Nat /\ Good(ker)
  BY MaxnestAssumption DEF IInv
<1>2. CASE IntEnter
  BY <1>1, <1>2 DEF IInv, IntEnter
<1>3. CASE IntExit
  <2>1. nest' \in 0 .. MAXNEST /\ cpulock' \in BOOLEAN /\ (nest' = 0 <=> nest = 1)
    BY <1>1, <1>3 DEF IInv, IntExit
  <2>2. CASE nest = 1 /\ ker.runtsk # ker.schedtsk
    <3>1. ker' = dispatch(ker)  BY <1>3, <2>2 DEF IntExit
    <3>2. QED  BY <1>1, <2>1, <3>1, Dispatch DEF IInv
  <2>3. CASE ~(nest = 1 /\ ker.runtsk # ker.schedtsk)
    BY <1>1, <1>3, <2>1, <2>3 DEF IInv, IntExit
  <2>4. QED  BY <2>2, <2>3
<1>4. CASE \E t \in TSK : Timeout(t)
  BY <1>4, TimeoutKeeps
<1>5. QED  BY <1>2, <1>3, <1>4 DEF InterruptStep

----------------------------------------------------------------------------
(* Every call keeps the invariant: semaphore.c.                            *)

\* A change of data that the invariant is not about.
LEMMA Unseen ==
  ASSUME NEW k, Good(k), NEW r \in KState, SameRest(k, r), SameSched(k, r, Ready(k)),
         r.dspflg = k.dspflg, r.enadsp = k.enadsp, r.ipm = k.ipm
  PROVE  Good(r)
<1>1. SchedInv(r, Ready(k))  BY OtherFields DEF Good
<1>2. r.dspflg <=> r.enadsp /\ ~r.ipm  BY DEF Good, SystemOK
<1>3. QED  BY <1>1, <1>2, OnlyFlags

\* The first block of a free list is taken, a block is given back, and the list of
\* the other objects stays.
LEMMA TakeBlock ==
  ASSUME NEW S, NEW list \in Seq(S), list # <<>>, NEW atr, FreeList(list, S, atr),
         NEW new, \A x \in S \ {Head(list)} : new[x] = atr[x], new[Head(list)] # "TA_NOEXS"
  PROVE  /\ Head(list) \in S /\ atr[Head(list)] = "TA_NOEXS"
         /\ Tail(list) \in Seq(S) /\ FreeList(Tail(list), S, new)
<1>1. Distinct(list)  BY DEF FreeList
<1>2. /\ Head(list) \in S /\ InQueue(list, Head(list)) /\ Tail(list) \in Seq(S)
      /\ Distinct(Tail(list))
      /\ \A x : InQueue(Tail(list), x) <=> InQueue(list, x) /\ x # Head(list)
  BY <1>1, QueueTail
<1>3. QED  BY <1>2 DEF FreeList

LEMMA GiveBlock ==
  ASSUME NEW S, NEW list \in Seq(S), NEW atr, FreeList(list, S, atr), NEW o \in S,
         atr[o] # "TA_NOEXS", NEW new, \A x \in S \ {o} : new[x] = atr[x], new[o] = "TA_NOEXS"
  PROVE  Append(list, o) \in Seq(S) /\ FreeList(Append(list, o), S, new)
<1>1. Distinct(list) /\ ~InQueue(list, o)  BY DEF FreeList
<1>2. /\ Append(list, o) \in Seq(S) /\ Distinct(Append(list, o))
      /\ \A x : InQueue(Append(list, o), x) <=> InQueue(list, x) \/ x = o
  BY <1>1, QueueAppend
<1>3. QED  BY <1>2 DEF FreeList

LEMMA ListStays ==
  ASSUME NEW S, NEW list, NEW atr, FreeList(list, S, atr), NEW new, \A x \in S : new[x] = atr[x]
  PROVE  FreeList(list, S, new)
BY DEF FreeList

\* No task waits for an object that does not exist.
LEMMA NoObjectNoQueue ==
  ASSUME NEW k, Good(k), NEW o \in OBJ, k.wobjatr[o] = "TA_NOEXS"
  PROVE  k.wait_queue[o] = <<>>
BY DEF Good, QueuesOK, QueueOK

LEMMA AcreSem ==
  ASSUME IInv, NEW s \in SEM, NEW atr \in {"TA_TFIFO", "TA_TPRI"}, NEW isem \in 0 .. MAXSEM,
         NEW lim \in 1 .. MAXSEM, acre_sem(s, atr, isem, lim)
  PROVE  IInv'
<1> DEFINE oa == [ker.wobjatr EXCEPT ![s] = atr]
           r == [ker EXCEPT !.free_semcb = Tail(@), !.wobjatr[s] = atr,
                            !.isemcnt[s] = isem, !.maxsem[s] = lim,
                            !.wait_queue[s] = <<>>, !.semcnt[s] = isem]
<1>1. /\ Good(ker) /\ ker \in KState /\ SystemOK(ker) /\ ker.free_semcb # <<>>
      /\ s = Head(ker.free_semcb) /\ ker.free_semcb \in Seq(SEM)
      /\ ker' = r /\ UNCHANGED <<nest, cpulock>>
  BY DEF IInv, Good, SchedInv, acre_sem, KState
<1>2. /\ ker.wobjatr \in [OBJ -> {"TA_NOEXS", "TA_TFIFO", "TA_TPRI", "TA_CEILING"}]
      /\ ker.wait_queue \in [OBJ -> Seq(TSK)] /\ s \in OBJ /\ SEM \subseteq OBJ
      /\ MTX \subseteq OBJ /\ s \notin MTX /\ MAXSEM \in Nat
  BY <1>1, ObjectAssumption, MaxsemAssumption DEF KState, OBJ
<1>3. /\ oa \in [OBJ -> {"TA_NOEXS", "TA_TFIFO", "TA_TPRI", "TA_CEILING"}]
      /\ oa[s] = atr /\ \A x \in OBJ \ {s} : oa[x] = ker.wobjatr[x]
  BY <1>2
<1> HIDE DEF oa
<1>4. /\ ker.wobjatr[s] = "TA_NOEXS" /\ Tail(ker.free_semcb) \in Seq(SEM)
      /\ FreeList(Tail(ker.free_semcb), SEM, oa)
  <2>1. FreeList(ker.free_semcb, SEM, ker.wobjatr)  BY <1>1 DEF SystemOK
  <2>2. \A x \in SEM \ {s} : oa[x] = ker.wobjatr[x]  BY <1>2, <1>3
  <2>3. QED  BY <1>1, <1>3, <2>1, <2>2, TakeBlock
<1>5. FreeList(ker.free_mtxcb, MTX, oa)
  <2>1. \A x \in MTX : oa[x] = ker.wobjatr[x]  BY <1>2, <1>3
  <2>2. QED  BY <1>1, <2>1, ListStays DEF SystemOK
<1>6. ker.wait_queue[s] = <<>>
  BY <1>1, <1>2, <1>4, NoObjectNoQueue
<1>7. r \in KState
  <2>1. [ker.isemcnt EXCEPT ![s] = isem] \in [SEM -> Nat]  BY <1>1, <1>2 DEF KState
  <2>2. [ker.maxsem EXCEPT ![s] = lim] \in [SEM -> Nat]
    <3>1. ker.maxsem \in [SEM -> Nat]  BY <1>1 DEF KState
    <3>2. lim \in Nat  BY <1>2
    <3>3. QED  BY <3>1, <3>2
  <2>3. [ker.semcnt EXCEPT ![s] = isem] \in [SEM -> Nat]  BY <1>1, <1>2 DEF KState
  <2>4. [ker.wait_queue EXCEPT ![s] = <<>>] \in [OBJ -> Seq(TSK)]  BY <1>2
  <2>5. QED  BY <1>1, <1>3, <1>4, <2>1, <2>2, <2>3, <2>4, ZenonT(60) DEF KState, oa
<1>8. /\ r.wobjatr = oa /\ r.free_semcb = Tail(ker.free_semcb) /\ r.free_mtxcb = ker.free_mtxcb
      /\ r.tskatr = ker.tskatr /\ r.tstat = ker.tstat /\ r.winfo = ker.winfo
      /\ r.tmevt = ker.tmevt /\ r.actque = ker.actque /\ r.wupque = ker.wupque
      /\ r.pending = ker.pending /\ r.free_tcb = ker.free_tcb /\ r.wobj = ker.wobj
      /\ r.priority = ker.priority /\ r.lastmtx = ker.lastmtx
      /\ r.dspflg = ker.dspflg /\ r.enadsp = ker.enadsp /\ r.ipm = ker.ipm
      /\ r.runtsk = ker.runtsk /\ r.schedtsk = ker.schedtsk
      /\ SameSched(ker, r, Ready(ker))
  BY <1>1 DEF KState, SameSched, oa
<1>9. r.wait_queue = ker.wait_queue
  <2>1. [ker.wait_queue EXCEPT ![s] = <<>>] = ker.wait_queue  BY <1>2, <1>6
  <2>2. r.wait_queue = [ker.wait_queue EXCEPT ![s] = <<>>]  BY <1>1 DEF KState
  <2>3. QED  BY <2>1, <2>2
<1> HIDE DEF r
<1>10. \A u \in TSK : SameTask(ker, r, u)
  BY <1>8 DEF SameTask, SameState
<1>11. Good(r)
  BY <1>1, <1>2, <1>3, <1>4, <1>5, <1>6, <1>7, <1>8, <1>9, <1>10, ObjectChange
<1>12. QED  BY <1>1, <1>8, <1>11, Keeps

\* Its waiters have left before a semaphore is deleted.
LEMMA DelSem ==
  ASSUME IInv, NEW s \in SEM, del_sem(s)
  PROVE  IInv'
<1> DEFINE i == init_wait_queue(ker, s)
           oa == [i.wobjatr EXCEPT ![s] = "TA_NOEXS"]
           r == [i EXCEPT !.wobjatr[s] = "TA_NOEXS", !.free_semcb = Append(@, s)]
<1>1. Good(ker) /\ ker.wobjatr[s] # "TA_NOEXS" /\ Return(r)
  BY DEF IInv, del_sem, SemExists
<1>2. s \in OBJ /\ SEM \subseteq OBJ /\ MTX \subseteq OBJ /\ s \notin MTX
  BY ObjectAssumption DEF OBJ
<1>3. Good(i) /\ Aside(ker, i) /\ i.wait_queue = [ker.wait_queue EXCEPT ![s] = <<>>]
  BY <1>1, <1>2, InitWaitQueue
<1> HIDE DEF i
<1>4. /\ i \in KState /\ SystemOK(i) /\ i.wobjatr[s] # "TA_NOEXS" /\ i.wait_queue[s] = <<>>
      /\ i.wobjatr \in [OBJ -> {"TA_NOEXS", "TA_TFIFO", "TA_TPRI", "TA_CEILING"}]
      /\ i.free_semcb \in Seq(SEM)
  BY <1>1, <1>2, <1>3, ZenonT(60) DEF Good, SchedInv, Aside, SameSystem, KState
<1>5. /\ oa \in [OBJ -> {"TA_NOEXS", "TA_TFIFO", "TA_TPRI", "TA_CEILING"}]
      /\ oa[s] = "TA_NOEXS" /\ \A x \in OBJ \ {s} : oa[x] = i.wobjatr[x]
  BY <1>2, <1>4
<1> HIDE DEF oa
<1>6. Append(i.free_semcb, s) \in Seq(SEM) /\ FreeList(Append(i.free_semcb, s), SEM, oa)
  <2>1. FreeList(i.free_semcb, SEM, i.wobjatr)  BY <1>4 DEF SystemOK
  <2>2. \A x \in SEM \ {s} : oa[x] = i.wobjatr[x]  BY <1>2, <1>5
  <2>3. QED  BY <1>4, <1>5, <2>1, <2>2, GiveBlock
<1>7. FreeList(i.free_mtxcb, MTX, oa)
  <2>1. \A x \in MTX : oa[x] = i.wobjatr[x]  BY <1>2, <1>5
  <2>2. QED  BY <1>4, <2>1, ListStays DEF SystemOK
<1>8. r \in KState
  BY <1>4, <1>5, <1>6 DEF KState, oa
<1>9. /\ r.wobjatr = oa /\ r.free_semcb = Append(i.free_semcb, s)
      /\ r.free_mtxcb = i.free_mtxcb /\ r.wait_queue = i.wait_queue
      /\ r.tskatr = i.tskatr /\ r.tstat = i.tstat /\ r.winfo = i.winfo
      /\ r.tmevt = i.tmevt /\ r.actque = i.actque /\ r.wupque = i.wupque
      /\ r.pending = i.pending /\ r.free_tcb = i.free_tcb /\ r.wobj = i.wobj
      /\ r.priority = i.priority /\ r.lastmtx = i.lastmtx
      /\ r.dspflg = i.dspflg /\ r.enadsp = i.enadsp /\ r.ipm = i.ipm
      /\ SameSched(i, r, Ready(i))
  BY <1>4 DEF KState, SameSched, oa
<1> HIDE DEF r
<1>10. \A u \in TSK : SameTask(i, r, u)
  BY <1>9 DEF SameTask, SameState
<1>11. Good(r)
  BY <1>2, <1>3, <1>4, <1>5, <1>6, <1>7, <1>8, <1>9, <1>10, ObjectChange
<1>12. QED  BY <1>1, <1>11, Returns

\* The count of a semaphore changes.
LEMMA CountChanges ==
  ASSUME NEW k, Good(k), NEW s \in SEM, NEW n \in Nat
  PROVE  LET r == [k EXCEPT !.semcnt[s] = n] IN
         Good(r) /\ r.runtsk = k.runtsk /\ r.schedtsk = k.schedtsk
<1> DEFINE r == [k EXCEPT !.semcnt[s] = n]
<1>1. k \in KState  BY DEF Good, SchedInv
<1>2. r \in KState
  <2>1. [k.semcnt EXCEPT ![s] = n] \in [SEM -> Nat]  BY <1>1 DEF KState
  <2>2. QED  BY <1>1, <2>1 DEF KState
<1>3. /\ SameRest(k, r) /\ SameSched(k, r, Ready(k)) /\ r.dspflg = k.dspflg
      /\ r.enadsp = k.enadsp /\ r.ipm = k.ipm
      /\ r.runtsk = k.runtsk /\ r.schedtsk = k.schedtsk
  BY <1>1 DEF KState, SameRest, SameQueues, SameSched
<1> HIDE DEF r
<1>4. Good(r)  BY <1>2, <1>3, Unseen
<1>5. QED  BY <1>3, <1>4 DEF r

LEMMA SigSem ==
  ASSUME IInv, NEW s \in SEM, sig_sem(s)
  PROVE  IInv'
<1>1. Good(ker) /\ ker \in KState /\ GoodBut(ker, {}) /\ s \in OBJ
  BY GoodAll DEF IInv, Good, SchedInv, OBJ
<1>2. CASE ker.wait_queue[s] # <<>>
  <2> DEFINE t == Head(ker.wait_queue[s])
             d == [ker EXCEPT !.wait_queue[s] = Tail(@)]
  <2>1. QueuesOK(ker, {})  BY <1>1 DEF Good
  <2>2. t \in TSK /\ TSTAT_WAIT_WOBJ(ker, t) /\ d = wait_dequeue_wobj(ker, t)
    BY <1>1, <1>2, <2>1, HeadLeaves
  <2>3. Return(wait_complete(d, t))  BY <1>2 DEF sig_sem
  <2> HIDE DEF t, d
  <2>4. Return(make_non_wait(EndedWait(ker, t, "E_OK"), t))
    BY <2>2, <2>3 DEF wait_complete, EndedWait
  <2>5. TSTAT_WAITING(ker, t) /\ "E_OK" \in WERCD
    BY <2>2 DEF TSTAT_WAITING, TSTAT_WAIT_WOBJ, FACTOR, WERCD
  <2>6. QED  BY <1>1, <2>2, <2>4, <2>5, WaitEnds, Returns
<1>3. CASE ker.wait_queue[s] = <<>>
  <2>1. ker' = [ker EXCEPT !.semcnt[s] = @ + 1] /\ UNCHANGED <<nest, cpulock>>
    BY <1>3 DEF sig_sem
  <2>2. ker.semcnt[s] + 1 \in Nat  BY <1>1 DEF KState
  <2>3. ker' = [ker EXCEPT !.semcnt[s] = ker.semcnt[s] + 1]  BY <1>1, <2>1 DEF KState
  <2>4. QED  BY <1>1, <2>1, <2>2, <2>3, CountChanges, Keeps
<1>4. QED  BY <1>2, <1>3

LEMMA TakeOne ==
  ASSUME IInv, NEW s \in SEM, ker.semcnt[s] >= 1, ker' = [ker EXCEPT !.semcnt[s] = @ - 1],
         UNCHANGED <<nest, cpulock>>
  PROVE  IInv'
<1>1. Good(ker) /\ ker \in KState  BY DEF IInv, Good, SchedInv
<1>2. ker.semcnt[s] - 1 \in Nat  BY <1>1 DEF KState
<1>3. ker' = [ker EXCEPT !.semcnt[s] = ker.semcnt[s] - 1]  BY <1>1 DEF KState
<1>4. QED  BY <1>1, <1>2, <1>3, CountChanges, Keeps

LEMMA WaiSem ==
  ASSUME IInv, NEW s \in SEM, NEW tmo \in BOOLEAN, wai_sem(s, tmo)
  PROVE  IInv'
<1>1. /\ Good(ker) /\ nest = 0 /\ Self # NULL /\ ker.dspflg /\ s \in OBJ
      /\ ker.wobjatr[s] # "TA_NOEXS"
  BY DEF IInv, wai_sem, DispatchCall, TaskCall, TaskRuns, SemExists, OBJ
<1>2. Self \in Ready(ker)  BY <1>1, RunningTask
<1>3. CASE /\ ker.semcnt[s] >= 1 /\ ker' = [ker EXCEPT !.semcnt[s] = @ - 1]
           /\ UNCHANGED <<nest, cpulock>>
  BY <1>3, TakeOne
<1>4. CASE Return(wobj_make_wait(ker, s, "SEM", tmo))
  <2>1. Good(wobj_make_wait(ker, s, "SEM", tmo))
    BY <1>1, <1>2, WaitForObject DEF Self
  <2>2. QED  BY <1>4, <2>1, Returns
<1>5. QED  BY <1>3, <1>4 DEF wai_sem

LEMMA IniSem ==
  ASSUME IInv, NEW s \in SEM, ini_sem(s)
  PROVE  IInv'
<1> DEFINE i == init_wait_queue(ker, s)
<1>1. Good(ker) /\ ker \in KState /\ s \in OBJ /\ ker.isemcnt[s] \in Nat
  BY DEF IInv, Good, SchedInv, OBJ, KState
<1>2. Return([i EXCEPT !.semcnt[s] = ker.isemcnt[s]])  BY DEF ini_sem
<1>3. Good(i)  BY <1>1, InitWaitQueue
<1> HIDE DEF i
<1>4. Good([i EXCEPT !.semcnt[s] = ker.isemcnt[s]])  BY <1>1, <1>3, CountChanges
<1>5. QED  BY <1>2, <1>4, Returns

LEMMA SemStepKeeps ==
  ASSUME IInv, SemStep
  PROVE  IInv'
<1>1. ASSUME NEW s \in SEM, NEW atr \in {"TA_TFIFO", "TA_TPRI"}, NEW isem \in 0 .. MAXSEM,
             NEW lim \in 1 .. MAXSEM, acre_sem(s, atr, isem, lim)
      PROVE  IInv'
  BY <1>1, AcreSem
<1>2. ASSUME NEW s \in SEM, \/ del_sem(s) \/ sig_sem(s) \/ pol_sem(s) \/ ini_sem(s)
                            \/ \E tmo \in BOOLEAN : wai_sem(s, tmo)
      PROVE  IInv'
  BY <1>2, DelSem, SigSem, IniSem, WaiSem, TakeOne DEF pol_sem
<1>3. QED  BY <1>1, <1>2 DEF SemStep

----------------------------------------------------------------------------
(* Every call keeps the invariant: mutex.c.                                *)

LEMMA AcreMtx ==
  ASSUME IInv, NEW m \in MTX, NEW atr \in {"TA_TFIFO", "TA_TPRI", "TA_CEILING"},
         NEW ceil \in PRI, acre_mtx(m, atr, ceil)
  PROVE  IInv'
<1> DEFINE oa == [ker.wobjatr EXCEPT ![m] = atr]
           r == [ker EXCEPT !.free_mtxcb = Tail(@), !.wobjatr[m] = atr, !.ceilpri[m] = ceil,
                            !.wait_queue[m] = <<>>, !.loctsk[m] = NULL]
<1>1. /\ Good(ker) /\ ker \in KState /\ SystemOK(ker) /\ ker.free_mtxcb # <<>>
      /\ m = Head(ker.free_mtxcb) /\ ker.free_mtxcb \in Seq(MTX)
      /\ ker' = r /\ UNCHANGED <<nest, cpulock>>
  BY DEF IInv, Good, SchedInv, acre_mtx, KState
<1>2. /\ ker.wobjatr \in [OBJ -> {"TA_NOEXS", "TA_TFIFO", "TA_TPRI", "TA_CEILING"}]
      /\ ker.wait_queue \in [OBJ -> Seq(TSK)] /\ m \in OBJ /\ SEM \subseteq OBJ
      /\ MTX \subseteq OBJ /\ m \notin SEM
  BY <1>1, ObjectAssumption DEF KState, OBJ
<1>3. /\ oa \in [OBJ -> {"TA_NOEXS", "TA_TFIFO", "TA_TPRI", "TA_CEILING"}]
      /\ oa[m] = atr /\ \A x \in OBJ \ {m} : oa[x] = ker.wobjatr[x]
  BY <1>2
<1> HIDE DEF oa
<1>4. /\ ker.wobjatr[m] = "TA_NOEXS" /\ Tail(ker.free_mtxcb) \in Seq(MTX)
      /\ FreeList(Tail(ker.free_mtxcb), MTX, oa)
  <2>1. FreeList(ker.free_mtxcb, MTX, ker.wobjatr)  BY <1>1 DEF SystemOK
  <2>2. \A x \in MTX \ {m} : oa[x] = ker.wobjatr[x]  BY <1>2, <1>3
  <2>3. QED  BY <1>1, <1>3, <2>1, <2>2, TakeBlock
<1>5. FreeList(ker.free_semcb, SEM, oa)
  <2>1. \A x \in SEM : oa[x] = ker.wobjatr[x]  BY <1>2, <1>3
  <2>2. QED  BY <1>1, <2>1, ListStays DEF SystemOK
<1>6. ker.wait_queue[m] = <<>>
  BY <1>1, <1>2, <1>4, NoObjectNoQueue
<1>7. r \in KState
  <2>1. [ker.ceilpri EXCEPT ![m] = ceil] \in [MTX -> PRI]  BY <1>1 DEF KState
  <2>2. [ker.loctsk EXCEPT ![m] = NULL] \in [MTX -> TSK \cup {NULL}]  BY <1>1 DEF KState
  <2>3. [ker.wait_queue EXCEPT ![m] = <<>>] \in [OBJ -> Seq(TSK)]  BY <1>2
  <2>4. QED  BY <1>1, <1>3, <1>4, <2>1, <2>2, <2>3, ZenonT(60) DEF KState, oa
<1>8. /\ r.wobjatr = oa /\ r.free_mtxcb = Tail(ker.free_mtxcb) /\ r.free_semcb = ker.free_semcb
      /\ r.tskatr = ker.tskatr /\ r.tstat = ker.tstat /\ r.winfo = ker.winfo
      /\ r.tmevt = ker.tmevt /\ r.actque = ker.actque /\ r.wupque = ker.wupque
      /\ r.pending = ker.pending /\ r.free_tcb = ker.free_tcb /\ r.wobj = ker.wobj
      /\ r.priority = ker.priority /\ r.lastmtx = ker.lastmtx
      /\ r.dspflg = ker.dspflg /\ r.enadsp = ker.enadsp /\ r.ipm = ker.ipm
      /\ r.runtsk = ker.runtsk /\ r.schedtsk = ker.schedtsk
      /\ SameSched(ker, r, Ready(ker))
  BY <1>1 DEF KState, SameSched, oa
<1>9. r.wait_queue = ker.wait_queue
  <2>1. [ker.wait_queue EXCEPT ![m] = <<>>] = ker.wait_queue  BY <1>2, <1>6
  <2>2. r.wait_queue = [ker.wait_queue EXCEPT ![m] = <<>>]  BY <1>1 DEF KState
  <2>3. QED  BY <2>1, <2>2
<1> HIDE DEF r
<1>10. \A u \in TSK : SameTask(ker, r, u)
  BY <1>8 DEF SameTask, SameState
<1>11. Good(r)
  BY <1>1, <1>2, <1>3, <1>4, <1>5, <1>6, <1>7, <1>8, <1>9, <1>10, ObjectChange
<1>12. QED  BY <1>1, <1>8, <1>11, Keeps

\* Its waiters have left, and its owner has lost it, before a mutex is deleted.
LEMMA DelMtx ==
  ASSUME IInv, NEW m \in MTX, del_mtx(m)
  PROVE  IInv'
<1> DEFINE i == TakeBack(ker, m)
           oa == [i.wobjatr EXCEPT ![m] = "TA_NOEXS"]
           r == [i EXCEPT !.wobjatr[m] = "TA_NOEXS", !.free_mtxcb = Append(@, m)]
<1>1. Good(ker) /\ ker.wobjatr[m] # "TA_NOEXS" /\ Return(r)
  BY DEF IInv, del_mtx, MtxExists
<1>2. m \in OBJ /\ SEM \subseteq OBJ /\ MTX \subseteq OBJ /\ m \notin SEM
  BY ObjectAssumption DEF OBJ
<1>3. Good(i) /\ Aside(ker, i) /\ i.wait_queue[m] = <<>>
  BY <1>1, TakenBack
<1> HIDE DEF i
<1>4. /\ i \in KState /\ SystemOK(i) /\ i.wobjatr[m] # "TA_NOEXS"
      /\ i.wobjatr \in [OBJ -> {"TA_NOEXS", "TA_TFIFO", "TA_TPRI", "TA_CEILING"}]
      /\ i.free_mtxcb \in Seq(MTX)
  BY <1>1, <1>2, <1>3 DEF Good, SchedInv, Aside, SameSystem, KState
<1>5. /\ oa \in [OBJ -> {"TA_NOEXS", "TA_TFIFO", "TA_TPRI", "TA_CEILING"}]
      /\ oa[m] = "TA_NOEXS" /\ \A x \in OBJ \ {m} : oa[x] = i.wobjatr[x]
  BY <1>2, <1>4
<1> HIDE DEF oa
<1>6. Append(i.free_mtxcb, m) \in Seq(MTX) /\ FreeList(Append(i.free_mtxcb, m), MTX, oa)
  <2>1. FreeList(i.free_mtxcb, MTX, i.wobjatr)  BY <1>4 DEF SystemOK
  <2>2. \A x \in MTX \ {m} : oa[x] = i.wobjatr[x]  BY <1>2, <1>5
  <2>3. QED  BY <1>4, <1>5, <2>1, <2>2, GiveBlock
<1>7. FreeList(i.free_semcb, SEM, oa)
  <2>1. \A x \in SEM : oa[x] = i.wobjatr[x]  BY <1>2, <1>5
  <2>2. QED  BY <1>4, <2>1, ListStays DEF SystemOK
<1>8. r \in KState
  BY <1>4, <1>5, <1>6 DEF KState, oa
<1>9. /\ r.wobjatr = oa /\ r.free_mtxcb = Append(i.free_mtxcb, m)
      /\ r.free_semcb = i.free_semcb /\ r.wait_queue = i.wait_queue
      /\ r.tskatr = i.tskatr /\ r.tstat = i.tstat /\ r.winfo = i.winfo
      /\ r.tmevt = i.tmevt /\ r.actque = i.actque /\ r.wupque = i.wupque
      /\ r.pending = i.pending /\ r.free_tcb = i.free_tcb /\ r.wobj = i.wobj
      /\ r.priority = i.priority /\ r.lastmtx = i.lastmtx
      /\ r.dspflg = i.dspflg /\ r.enadsp = i.enadsp /\ r.ipm = i.ipm
      /\ SameSched(i, r, Ready(i))
  BY <1>4 DEF KState, SameSched, oa
<1> HIDE DEF r
<1>10. \A u \in TSK : SameTask(i, r, u)
  BY <1>9 DEF SameTask, SameState
<1>11. Good(r)
  BY <1>2, <1>3, <1>4, <1>5, <1>6, <1>7, <1>8, <1>9, <1>10, ObjectChange
<1>12. QED  BY <1>1, <1>11, Returns

\* The assertion at the end of a successful lock holds: the running task, which is
\* p_schedtsk, stays it.
LEMMA AcquiredKeeps ==
  ASSUME IInv, NEW m \in MTX, nest = 0, Self # NULL, Acquired(m)
  PROVE  IInv'
<1> DEFINE k == mutex_acquire(ker, Self, m)
           r == [k EXCEPT !.failed = @ \/ k.runtsk # k.schedtsk]
<1>1. Good(ker) /\ Self \in TSK /\ TSTAT_RUNNABLE(ker, Self) /\ ker.schedtsk = Self
  BY RunningTask DEF IInv
<1>2. Good(k) /\ Aside(ker, k) /\ k.schedtsk = Self
  BY <1>1, Acquire
<1>3. ker' = r /\ UNCHANGED <<nest, cpulock>>  BY DEF Acquired
<1> HIDE DEF k
<1>4. k \in KState /\ k.runtsk = ker.runtsk /\ k.runtsk = k.schedtsk
  BY <1>2 DEF Good, SchedInv, Aside, Self
<1>5. r \in KState /\ r.failed = k.failed
  BY ZenonT(60), <1>4 DEF KState
<1>6. /\ SameRest(k, r) /\ r.dspflg = k.dspflg /\ r.enadsp = k.enadsp /\ r.ipm = k.ipm
      /\ r.ready_queue = k.ready_queue /\ r.ready_primap = k.ready_primap
      /\ r.schedtsk = k.schedtsk /\ r.runtsk = k.runtsk /\ r.priority = k.priority
  BY <1>4 DEF KState, SameRest, SameQueues
<1> HIDE DEF r
<1>7. SameSched(k, r, Ready(k))  BY <1>5, <1>6 DEF SameSched
<1>8. Good(r)  BY <1>2, <1>5, <1>6, <1>7, Unseen
<1>9. ker.runtsk = ker.schedtsk  BY DEF IInv
<1>10. QED  BY <1>2, <1>3, <1>4, <1>6, <1>8, <1>9, Keeps

LEMMA LocMtx ==
  ASSUME IInv, NEW m \in MTX, NEW tmo \in BOOLEAN, loc_mtx(m, tmo)
  PROVE  IInv'
<1>1. /\ Good(ker) /\ nest = 0 /\ Self # NULL /\ ker.dspflg /\ m \in OBJ
      /\ ker.wobjatr[m] # "TA_NOEXS"
  BY DEF IInv, loc_mtx, DispatchCall, TaskCall, TaskRuns, MtxExists, OBJ
<1>2. Self \in Ready(ker)  BY <1>1, RunningTask
<1>3. CASE Acquired(m)
  BY <1>1, <1>3, AcquiredKeeps
<1>4. CASE Return(wobj_make_wait(ker, m, "MTX", tmo))
  <2>1. Good(wobj_make_wait(ker, m, "MTX", tmo))
    BY <1>1, <1>2, WaitForObject DEF Self
  <2>2. QED  BY <1>4, <2>1, Returns
<1>5. QED  BY <1>3, <1>4 DEF loc_mtx

LEMMA PlocMtx ==
  ASSUME IInv, NEW m \in MTX, ploc_mtx(m)
  PROVE  IInv'
BY AcquiredKeeps DEF ploc_mtx, TaskCall, TaskRuns

\* The task gives the mutex to the first task that waits for it.
LEMMA UnlMtx ==
  ASSUME IInv, NEW m \in MTX, unl_mtx(m)
  PROVE  IInv'
<1> DEFINE t == Self
           s == Tail(ker.lastmtx[t])
           u == [ker EXCEPT !.lastmtx[t] = Tail(@)]
           c == mutex_drop_priority(u, t, m)
<1>1. Good(ker) /\ ker \in KState /\ nest = 0 /\ Self # NULL /\ ker.lastmtx[t] # <<>>
  BY DEF IInv, Good, SchedInv, unl_mtx, TaskCall, TaskRuns
<1>2. t \in TSK /\ ~TSTAT_DORMANT(ker, t)
  BY <1>1, RunningTask
<1>3. Return(mutex_release(c, m))  BY DEF unl_mtx
<1>4. s \in Seq(MTX) /\ ker.loctsk \in [MTX -> TSK \cup {NULL}]
  <2>1. ker.lastmtx[t] \in Seq(MTX)  BY <1>1, <1>2 DEF KState
  <2>2. QED  BY <1>1, <2>1 DEF KState
<1>5. u = WithOwners(ker, t, s, ker.loctsk)
  BY <1>1 DEF WithOwners, KState
<1> HIDE DEF s, u, t
<1>6. Good(u)  BY <1>1, <1>2, <1>4, <1>5, OwnersChange
<1>7. Good(c)  BY <1>2, <1>6, DropPriority
<1> HIDE DEF c
<1>8. GoodBut(mutex_release(c, m), {})
  <2>1. GoodBut(c, {})  BY <1>7, GoodAll
  <2>2. QED  BY <2>1, MutexReleaseBut
<1>9. Good(mutex_release(c, m))  BY <1>8, GoodAll
<1>10. QED  BY <1>3, <1>9, Returns

LEMMA IniMtx ==
  ASSUME IInv, NEW m \in MTX, ini_mtx(m)
  PROVE  IInv'
<1> DEFINE i == TakeBack(ker, m)
           r == [i EXCEPT !.loctsk[m] = NULL]
<1>1. Good(i)  BY TakenBack DEF IInv
<1>2. Return(r)  BY DEF ini_mtx
<1> HIDE DEF i
<1>3. i \in KState  BY <1>1 DEF Good, SchedInv
<1>4. r \in KState
  <2>1. [i.loctsk EXCEPT ![m] = NULL] \in [MTX -> TSK \cup {NULL}]  BY <1>3 DEF KState
  <2>2. QED  BY <1>3, <2>1 DEF KState
<1>5. /\ SameRest(i, r) /\ SameSched(i, r, Ready(i)) /\ r.dspflg = i.dspflg
      /\ r.enadsp = i.enadsp /\ r.ipm = i.ipm
  BY <1>3 DEF KState, SameRest, SameQueues, SameSched
<1> HIDE DEF r
<1>6. Good(r)  BY <1>1, <1>4, <1>5, Unseen
<1>7. QED  BY <1>2, <1>6, Returns

LEMMA MutexStepKeeps ==
  ASSUME IInv, MutexStep
  PROVE  IInv'
<1>1. ASSUME NEW m \in MTX, NEW atr \in {"TA_TFIFO", "TA_TPRI", "TA_CEILING"},
             NEW ceil \in PRI, acre_mtx(m, atr, ceil)
      PROVE  IInv'
  BY <1>1, AcreMtx
<1>2. ASSUME NEW m \in MTX, \/ del_mtx(m) \/ ploc_mtx(m) \/ unl_mtx(m) \/ ini_mtx(m)
                            \/ \E tmo \in BOOLEAN : loc_mtx(m, tmo)
      PROVE  IInv'
  BY <1>2, DelMtx, PlocMtx, UnlMtx, IniMtx, LocMtx
<1>3. QED  BY <1>1, <1>2 DEF MutexStep

----------------------------------------------------------------------------
(* The invariant holds at the start.                                       *)

LEMMA OrdersType ==
  ASSUME NEW S, IsFiniteSet(S), NEW s \in Orders(S)
  PROVE  s \in Seq(S) /\ Distinct(s) /\ \A x : InQueue(s, x) <=> x \in S
<1>1. Cardinality(S) \in Nat  BY FS_CardinalityType
<1>2. PICK n \in 0 .. Cardinality(S) : s \in [1 .. n -> S]
  BY DEF Orders
<1>3. n \in Nat  BY <1>1
<1>4. s \in Seq(S)  BY <1>2, <1>3
<1>5. Distinct(s) /\ \A x \in S : InQueue(s, x)  BY DEF Orders
<1>6. ASSUME NEW x, InQueue(s, x)  PROVE x \in S
  BY <1>2, <1>6 DEF InQueue
<1>7. QED  BY <1>4, <1>5, <1>6

\* The part of the initial state that the invariant is about.
AtStart(c, r, rdq, ftsk, fsem, fmtx) ==
  LET map == {p \in PRI : rdq[p] # <<>>}
      top == IF map = {} THEN NULL ELSE Head(rdq[primap_search(map)])
  IN  /\ r.ready_queue = rdq /\ r.ready_primap = map
      /\ r.runtsk = top /\ r.schedtsk = top
      /\ r.enadsp = TRUE /\ r.ipm = FALSE /\ r.dspflg = TRUE /\ r.failed = FALSE
      /\ r.free_tcb = ftsk /\ r.tmevt = {}
      /\ \A t \in TSK :
           /\ r.tstat[t] = IF t \in {x \in STSK(c) : TSKINI(c)[x].act} THEN TS_RUNNABLE ELSE TS_DORMANT
           /\ r.tskatr[t] = "TA_NOEXS" <=> t \notin STSK(c)
           /\ r.priority[t] = IF t \in STSK(c) THEN TSKINI(c)[t].itskpri ELSE 0
           /\ r.actque[t] = FALSE /\ r.wupque[t] = FALSE
           /\ r.winfo[t] = "none" /\ r.pending[t] = IDLE /\ r.lastmtx[t] = <<>>
      /\ r.free_semcb = fsem /\ r.free_mtxcb = fmtx
      /\ \A o \in OBJ : r.wait_queue[o] = <<>>
      /\ \A x \in SEM : r.wobjatr[x] = "TA_NOEXS" <=> x \notin SSEM(c)
      /\ \A x \in MTX : r.wobjatr[x] = "TA_NOEXS" <=> x \notin SMTX(c)

LEMMA InitialTypes ==
  ASSUME NEW c \in CFG, NEW rdq \in [PRI -> Seq(TSK)], NEW ftsk \in Seq(TSK), NEW fsem \in Seq(SEM),
         NEW fmtx \in Seq(MTX)
  PROVE  /\ InitialKState(c, rdq, ftsk, fsem, fmtx) \in KState
         /\ AtStart(c, InitialKState(c, rdq, ftsk, fsem, fmtx), rdq, ftsk, fsem, fmtx)
<1> DEFINE r == InitialKState(c, rdq, ftsk, fsem, fmtx)
           map == {p \in PRI : rdq[p] # <<>>}
           top == IF map = {} THEN NULL ELSE Head(rdq[primap_search(map)])
           a == {t \in STSK(c) : TSKINI(c)[t].act}
           atr == [t \in TSK |-> IF t \in STSK(c) THEN TSKINI(c)[t].tskatr ELSE "TA_NOEXS"]
           ipri == [t \in TSK |-> IF t \in STSK(c) THEN TSKINI(c)[t].itskpri ELSE 0]
           st == [t \in TSK |-> IF t \in STSK(c) /\ TSKINI(c)[t].act THEN TS_RUNNABLE ELSE TS_DORMANT]
           oatr == [o \in OBJ |-> IF o \in SSEM(c) THEN SEMINI(c)[o].sematr
                                  ELSE IF o \in SMTX(c) THEN MTXINI(c)[o].mtxatr
                                  ELSE IF o \in DOMAIN WOBJINI(c) THEN WOBJINI(c)[o] ELSE "TA_NOEXS"]
           cnt == [s \in SEM |-> IF s \in SSEM(c) THEN SEMINI(c)[s].isemcnt ELSE 0]
           mx == [s \in SEM |-> IF s \in SSEM(c) THEN SEMINI(c)[s].maxsem ELSE 0]
           ceil == [m \in MTX |-> IF m \in SMTX(c) THEN MTXINI(c)[m].ceilpri ELSE 0]
<1>1. 0 \in PRI  BY TnumTpriAssumption DEF PRI
<1>2. \A t \in STSK(c) : /\ TSKINI(c)[t].tskatr \in {"TA_NULL", "TA_NOACTQUE"}
                      /\ TSKINI(c)[t].act \in BOOLEAN /\ TSKINI(c)[t].itskpri \in PRI
  BY TskiniAssumption
<1>3. top \in TSK \cup {NULL}
  <2>1. CASE map = {}  BY <2>1
  <2>2. CASE map # {}
    <3>1. primap_search(map) \in map
      <4>1. map \in SUBSET Nat  BY DEF PRI
      <4>2. QED  BY <2>2, <4>1, PrimapSearch
    <3>2. rdq[primap_search(map)] \in Seq(TSK) /\ rdq[primap_search(map)] # <<>>
      BY <3>1
    <3>3. QED  BY <2>2, <3>2
  <2>3. QED  BY <2>1, <2>2
<1>4. /\ atr \in [TSK -> {"TA_NOEXS", "TA_NULL", "TA_NOACTQUE"}] /\ ipri \in [TSK -> PRI]
  BY <1>1, <1>2
<1>5. st \in [TSK -> TSTAT]
  BY StateConstants
<1>6. oatr \in [OBJ -> {"TA_NOEXS", "TA_TFIFO", "TA_TPRI", "TA_CEILING"}]
  BY SeminiAssumption, MtxiniAssumption, WobjiniAssumption
<1>7. cnt \in [SEM -> Nat] /\ mx \in [SEM -> Nat]
  BY SeminiAssumption
<1>8. ceil \in [MTX -> PRI]
  BY <1>1, MtxiniAssumption
<1>9. /\ [t \in TSK |-> FALSE] \in [TSK -> BOOLEAN]
      /\ [t \in TSK |-> t \in STSK(c)] \in [TSK -> BOOLEAN]
      /\ [t \in TSK |-> "none"] \in [TSK -> WINFO]
      /\ [t \in TSK |-> NULL] \in [TSK -> OBJ \cup {NULL}]
      /\ [t \in TSK |-> <<>>] \in [TSK -> Seq(MTX)]
      /\ [t \in TSK |-> IDLE] \in [TSK -> PENDING \cup {IDLE}]
      /\ [o \in OBJ |-> <<>>] \in [OBJ -> Seq(TSK)]
      /\ [m \in MTX |-> NULL] \in [MTX -> TSK \cup {NULL}]
  BY DEF WINFO
<1>10. map \in SUBSET PRI  OBVIOUS
<1>11. r = [cfg |-> c, tskatr |-> atr, ipriority |-> ipri, tstat |-> st,
            bpriority |-> ipri, priority |-> ipri,
            actque |-> [t \in TSK |-> FALSE], wupque |-> [t \in TSK |-> FALSE],
            raster |-> [t \in TSK |-> FALSE], enater |-> [t \in TSK |-> t \in STSK(c)],
            winfo |-> [t \in TSK |-> "none"], wobj |-> [t \in TSK |-> NULL],
            lastmtx |-> [t \in TSK |-> <<>>], pending |-> [t \in TSK |-> IDLE],
            free_tcb |-> ftsk, ready_queue |-> rdq, ready_primap |-> map,
            runtsk |-> top, schedtsk |-> top,
            enadsp |-> TRUE, ipm |-> FALSE, dspflg |-> TRUE, tmevt |-> {},
            wobjatr |-> oatr, wait_queue |-> [o \in OBJ |-> <<>>],
            free_semcb |-> fsem, semcnt |-> cnt, isemcnt |-> cnt, maxsem |-> mx,
            free_mtxcb |-> fmtx, ceilpri |-> ceil, loctsk |-> [m \in MTX |-> NULL],
            failed |-> FALSE]
  BY DEF InitialKState
<1>12. /\ \A t \in TSK : /\ st[t] = IF t \in a THEN TS_RUNNABLE ELSE TS_DORMANT
                         /\ atr[t] = "TA_NOEXS" <=> t \notin STSK(c)
                         /\ ipri[t] = IF t \in STSK(c) THEN TSKINI(c)[t].itskpri ELSE 0
  BY <1>2
<1>13. /\ \A x \in SEM : oatr[x] = "TA_NOEXS" <=> x \notin SSEM(c)
      /\ \A x \in MTX : oatr[x] = "TA_NOEXS" <=> x \notin SMTX(c)
  <2>1. /\ SSEM(c) \subseteq SEM /\ SMTX(c) \subseteq MTX /\ DOMAIN WOBJINI(c) \subseteq WOBJ
    BY StaticAssumption, WobjiniAssumption
  <2>2. /\ \A x \in SSEM(c) : SEMINI(c)[x].sematr \in {"TA_TFIFO", "TA_TPRI"}
        /\ \A x \in SMTX(c) : MTXINI(c)[x].mtxatr \in {"TA_TFIFO", "TA_TPRI", "TA_CEILING"}
    BY SeminiAssumption, MtxiniAssumption
  <2>3. \A x \in SEM : x \in OBJ /\ x \notin SMTX(c) /\ x \notin DOMAIN WOBJINI(c)
    BY <2>1, ObjectAssumption DEF OBJ
  <2>4. \A x \in MTX : x \in OBJ /\ x \notin SSEM(c) /\ x \notin DOMAIN WOBJINI(c)
    BY <2>1, ObjectAssumption DEF OBJ
  <2>5. \A x \in SEM : oatr[x] = IF x \in SSEM(c) THEN SEMINI(c)[x].sematr ELSE "TA_NOEXS"
    BY <2>3
  <2>6. \A x \in MTX : oatr[x] = IF x \in SMTX(c) THEN MTXINI(c)[x].mtxatr ELSE "TA_NOEXS"
    BY <2>4
  <2> HIDE DEF oatr
  <2>7. QED  BY <2>2, <2>5, <2>6
<1> HIDE DEF atr, ipri, st, oatr, cnt, mx, ceil, map, top, a, r
<1>14. r \in KState
  BY <1>3, <1>4, <1>5, <1>6, <1>7, <1>8, <1>9, <1>10, <1>11 DEF KState
<1>15. QED
  BY <1>11, <1>12, <1>14, <1>13 DEF r, map, top, a, AtStart

LEMMA InitInvariant ==
  ASSUME Init
  PROVE  IInv
<1>0. PICK c \in CFG :
        \E rdq \in [PRI -> UNION {Orders(ActAt(c, p)) : p \in PRI}], ftsk \in Orders(TSK \ STSK(c)),
           fsem \in Orders(SEM \ SSEM(c)), fmtx \in Orders(MTX \ SMTX(c)) :
        /\ \A p \in PRI : rdq[p] \in Orders(ActAt(c, p))
        /\ ker = InitialKState(c, rdq, ftsk, fsem, fmtx)
  BY DEF Init
<1>1. PICK rdq \in [PRI -> UNION {Orders(ActAt(c, p)) : p \in PRI}], ftsk \in Orders(TSK \ STSK(c)),
           fsem \in Orders(SEM \ SSEM(c)), fmtx \in Orders(MTX \ SMTX(c)) :
        /\ \A p \in PRI : rdq[p] \in Orders(ActAt(c, p))
        /\ ker = InitialKState(c, rdq, ftsk, fsem, fmtx)
  BY <1>0
<1>2. /\ \A p \in PRI : IsFiniteSet(ActAt(c, p)) /\ ActAt(c, p) \subseteq TSK
      /\ IsFiniteSet(TSK \ STSK(c)) /\ IsFiniteSet(SEM \ SSEM(c)) /\ IsFiniteSet(MTX \ SMTX(c))
  <2>1. \A p \in PRI : ActAt(c, p) \subseteq TSK  BY StaticAssumption DEF ActAt
  <2>2. QED  BY <2>1, FiniteAssumption, FS_Subset
<1>3. /\ \A p \in PRI : /\ rdq[p] \in Seq(ActAt(c, p)) /\ Distinct(rdq[p])
                        /\ \A x : InQueue(rdq[p], x) <=> x \in ActAt(c, p)
      /\ ftsk \in Seq(TSK \ STSK(c)) /\ Distinct(ftsk)
      /\ \A x : InQueue(ftsk, x) <=> x \in TSK \ STSK(c)
      /\ fsem \in Seq(SEM \ SSEM(c)) /\ fmtx \in Seq(MTX \ SMTX(c))
      /\ Distinct(fsem) /\ \A x : InQueue(fsem, x) <=> x \in SEM \ SSEM(c)
      /\ Distinct(fmtx) /\ \A x : InQueue(fmtx, x) <=> x \in MTX \ SMTX(c)
  BY <1>1, <1>2, OrdersType
<1>4. rdq \in [PRI -> Seq(TSK)]
  <2>1. \A p \in PRI : rdq[p] \in Seq(TSK)  BY <1>2, <1>3
  <2>2. QED  BY <1>1, <2>1
<1>5. ftsk \in Seq(TSK) /\ fsem \in Seq(SEM) /\ fmtx \in Seq(MTX)
  BY <1>3
<1> DEFINE map == {p \in PRI : rdq[p] # <<>>}
           top == IF map = {} THEN NULL ELSE Head(rdq[primap_search(map)])
           a == {t \in STSK(c) : TSKINI(c)[t].act}
<1>6. /\ ker \in KState
      /\ ker.ready_queue = rdq /\ ker.ready_primap = map
      /\ ker.runtsk = top /\ ker.schedtsk = top
      /\ ker.enadsp = TRUE /\ ker.ipm = FALSE /\ ker.dspflg = TRUE /\ ker.failed = FALSE
      /\ ker.free_tcb = ftsk /\ ker.tmevt = {}
      /\ \A t \in TSK : /\ ker.tstat[t] = IF t \in a THEN TS_RUNNABLE ELSE TS_DORMANT
                        /\ ker.tskatr[t] = "TA_NOEXS" <=> t \notin STSK(c)
                        /\ ker.priority[t] = IF t \in STSK(c) THEN TSKINI(c)[t].itskpri ELSE 0
                        /\ ker.actque[t] = FALSE /\ ker.wupque[t] = FALSE
                        /\ ker.winfo[t] = "none" /\ ker.pending[t] = IDLE
                        /\ ker.lastmtx[t] = <<>>
      /\ ker.free_semcb = fsem /\ ker.free_mtxcb = fmtx
      /\ \A o \in OBJ : ker.wait_queue[o] = <<>>
      /\ \A x \in SEM : ker.wobjatr[x] = "TA_NOEXS" <=> x \notin SSEM(c)
      /\ \A x \in MTX : ker.wobjatr[x] = "TA_NOEXS" <=> x \notin SMTX(c)
  <2>1. ker \in KState /\ AtStart(c, ker, rdq, ftsk, fsem, fmtx)
    BY <1>1, <1>4, <1>5, InitialTypes
  <2>2. QED  BY <2>1 DEF AtStart
<1>7. IsTop(ker, top)
  <2>1. CASE map = {}  BY <1>6, <2>1 DEF IsTop
  <2>2. CASE map # {}
    <3> DEFINE p == primap_search(map)
    <3>1. p \in map /\ \A q \in map : p <= q
      <4>1. map \in SUBSET Nat  BY DEF PRI
      <4>2. QED  BY <2>2, <4>1, PrimapSearch
    <3> HIDE DEF p
    <3>2. top = Head(rdq[p])  BY <2>2 DEF p
    <3>3. p \in PRI /\ rdq[p] # <<>> /\ rdq[p] \in Seq(TSK)  BY <1>4, <3>1
    <3>4. top \in TSK  BY <3>2, <3>3
    <3>5. \A q \in PRI : q < p => rdq[q] = <<>>
      <4>1. \A q \in PRI : q < p => ~(p <= q)  BY <3>3 DEF PRI
      <4>2. QED  BY <3>1, <4>1
    <3> HIDE DEF top
    <3>6. QED  BY <1>6, <3>2, <3>3, <3>4, <3>5, NullAssumption DEF IsTop
  <2>3. QED  BY <2>1, <2>2
<1>8. Ready(ker) = a
  BY <1>6, StateConstants, StaticAssumption DEF Ready, TSTAT_RUNNABLE
<1>9. Queued(ker, Ready(ker))
  <2>1. ASSUME NEW p \in PRI, NEW t \in TSK
        PROVE  InQueue(rdq[p], t) <=> t \in a /\ ker.priority[t] = p
    <3>1. InQueue(rdq[p], t) <=> t \in ActAt(c, p)  BY <1>3
    <3>2. t \in ActAt(c, p) <=> t \in a /\ TSKINI(c)[t].itskpri = p  BY DEF ActAt
    <3>3. t \in a => ker.priority[t] = TSKINI(c)[t].itskpri  BY <1>6
    <3> HIDE DEF a
    <3>4. QED  BY <3>1, <3>2, <3>3
  <2>2. \A p \in PRI : Distinct(rdq[p])  BY <1>3
  <2>3. QED  BY <1>6, <1>8, <2>1, <2>2 DEF Queued
<1>10. SchedInv(ker, Ready(ker))
  BY <1>6, <1>7, <1>9 DEF SchedInv, Ready
<1>11. \A t \in TSK : TaskOK(ker, t) /\ ~TSTAT_WAIT_WOBJ(ker, t)
  BY <1>6, StateConstants
     DEF TaskOK, WaitOK, TSTAT_WAIT_WOBJ, TSTAT_WAITING, TSTAT_DORMANT
<1>12. SystemOK(ker)
  BY <1>3, <1>6 DEF SystemOK, FreeList
<1>13. QueuesOK(ker, {})
  <2>1. ASSUME NEW o \in OBJ  PROVE QueueOK(ker, o, Waits(ker, o) \ {})
    <3>1. ker.wait_queue[o] = <<>> /\ Waits(ker, o) = {}  BY <1>6, <1>11 DEF Waits
    <3>2. QED  BY <3>1 DEF QueueOK, Distinct, InQueue, Sorted
  <2>2. QED  BY <2>1 DEF QueuesOK
<1>14. nest = 0 /\ cpulock = FALSE /\ MAXNEST \in Nat
  BY MaxnestAssumption DEF Init
<1> HIDE DEF a, top, map
<1>15. ker.runtsk = ker.schedtsk  BY <1>6
<1>16. Good(ker)  BY <1>10, <1>11, <1>12, <1>13 DEF Good
<1>17. nest \in 0 .. MAXNEST  BY <1>14
<1>18. cpulock \in BOOLEAN  BY <1>14
<1>19. QED  BY <1>15, <1>16, <1>17, <1>18 DEF IInv

----------------------------------------------------------------------------
(* Every step keeps the invariant.                                         *)

LEMMA TaskStepKeeps ==
  ASSUME IInv, TaskStep
  PROVE  IInv'
<1>1. CASE \E atr \in {"TA_NULL", "TA_NOACTQUE"}, act \in BOOLEAN, pri \in PRI :
             acre_tsk(atr, act, pri)
  BY <1>1, AcreTsk
<1>2. ASSUME NEW t \in TSK,
             \/ del_tsk(t) \/ act_tsk(t) \/ can_act(t)
             \/ wup_tsk(t) \/ can_wup(t) \/ rel_wai(t)
             \/ sus_tsk(t) \/ rsm_tsk(t)
             \/ ras_ter(t) \/ ter_tsk(t)
             \/ chg_pri_ini(t)
             \/ \E pri \in PRI : chg_pri(t, pri)
      PROVE  IInv'
  BY <1>2, DelTsk, ActTsk, CanAct, WupTsk, CanWup, RelWai, SusTsk, RsmTsk, RasTer, TerTsk,
     ChgPriIni, ChgPri
<1>3. CASE chg_pri_ini_locked  BY <1>3, ChgPriIniLocked
<1>4. CASE (\E tmo \in BOOLEAN : slp_tsk(tmo)) \/ dly_tsk
  BY <1>4, SlpTsk, DlyTsk
<1>5. CASE ext_tsk \/ dis_ter \/ ena_ter
  BY <1>5, ExtTsk, DisTer, EnaTer
<1>6. CASE (\E pri \in PRI : rot_rdq(pri)) \/ rot_rdq_self \/ rot_rdq_self_locked
  BY <1>6, RotRdq, RotRdqSelf, RotRdqSelfLocked
<1>7. CASE loc_cpu \/ unl_cpu
  BY <1>7 DEF loc_cpu, unl_cpu, IInv
<1>8. CASE dis_dsp \/ ena_dsp \/ \E mask \in BOOLEAN : chg_ipm(mask)
  BY <1>8, DisDsp, EnaDsp, ChgIpm
<1>9. QED
  BY <1>1, <1>2, <1>3, <1>4, <1>5, <1>6, <1>7, <1>8 DEF TaskStep

LEMMA StepKeeps ==
  ASSUME IInv, [Next]_vars
  PROVE  IInv'
<1>1. CASE UNCHANGED vars
  BY <1>1 DEF vars, IInv
<1>2. CASE Next
  BY <1>2, SemStepKeeps, MutexStepKeeps, TaskStepKeeps, Interrupt DEF Next
<1>3. QED  BY <1>1, <1>2

LEMMA Invariance ==
  Spec => []IInv
<1>1. Init => IInv  BY InitInvariant
<1>2. IInv /\ [Next]_vars => IInv'  BY StepKeeps
<1>3. QED  BY <1>1, <1>2, PTL DEF Spec

----------------------------------------------------------------------------
(* The theorems.                                                           *)

\* The kernel data always has its type: no call stores a priority outside the
\* table, a task that does not exist or a state that the bits of tstat exclude.
THEOREM TypeCorrect ==
  Spec => []TypeOK
<1>1. IInv => TypeOK  BY DEF IInv, Good, SchedInv, TypeOK
<1>2. QED  BY <1>1, Invariance, PTL

\* The ready queue holds exactly the runnable tasks, each once and in the queue
\* of its current priority, and the bitmap names the queues with tasks.
THEOREM ReadyQueueCorrect ==
  Spec => []ReadyQueueOK
<1>1. IInv => ReadyQueueOK  BY DEF IInv, Good, SchedInv, ReadyQueueOK, Ready
<1>2. QED  BY <1>1, Invariance, PTL

\* The incremental updates of p_schedtsk always arrive at the first task of the
\* highest priority while dispatching is possible, and leave the running task
\* alone while it is not.
THEOREM ScheduleCorrect ==
  Spec => []SchedOK
<1>1. ASSUME IInv  PROVE SchedOK
  <2>1. SchedInv(ker, Ready(ker)) /\ SystemOK(ker) /\ (nest = 0 => ker.runtsk = ker.schedtsk)
    BY <1>1 DEF IInv, Good
  <2>2. ~ker.dspflg => /\ ker.schedtsk = ker.runtsk /\ ker.runtsk \in TSK
                       /\ TSTAT_RUNNABLE(ker, ker.runtsk)
    BY <2>1 DEF SchedInv, Ready
  <2>3. QED  BY <2>1, <2>2, NullAssumption DEF SchedInv, SystemOK, SchedOK
<1>2. QED  BY <1>1, Invariance, PTL

\* No assert() of the code fails: make_non_runnable is never given p_schedtsk
\* while dispatching is impossible, make_non_wait only waiting tasks, and what
\* is taken for a time event block is one.
THEOREM NoAssertionFails ==
  Spec => []NoAssertFails
<1>1. IInv => NoAssertFails  BY DEF IInv, Good, SchedInv, NoAssertFails
<1>2. QED  BY <1>1, Invariance, PTL

\* No wakeup is lost: a task that sleeps has none queued (slp_tsk, wup_tsk and the
\* ends of a sleep).
THEOREM WakeupsKept ==
  Spec => []WakeupOK
<1>1. IInv => WakeupOK  BY DEF IInv, Good, TaskOK, WakeupOK
<1>2. QED  BY <1>1, Invariance, PTL

\* The time event of a task is registered exactly while it waits with a limit.
THEOREM TimeEventsCorrect ==
  Spec => []TimeEventOK
<1>1. IInv => TimeEventOK  BY DEF IInv, Good, TaskOK, TimeEventOK
<1>2. QED  BY <1>1, Invariance, PTL

\* A task is in the wait queue of an object exactly when its state says that it waits
\* there, each waiter once, in the order the attribute of the object asks for.
LEMMA WaitQueuesCorrect ==
  ASSUME IInv
  PROVE  WaitQueueOK
<1>1. ASSUME NEW o \in OBJ, NEW q, q = ker.wait_queue[o]
      PROVE  /\ Distinct(q)
             /\ \A t \in TSK : InQueue(q, t) <=> TSTAT_WAIT_WOBJ(ker, t) /\ ker.wobj[t] = o
             /\ ker.wobjatr[o] = "TA_NOEXS" => q = <<>>
             /\ ker.wobjatr[o] \in {"TA_TPRI", "TA_CEILING"} =>
                  \A i, j \in DOMAIN q : i < j => ker.priority[q[i]] <= ker.priority[q[j]]
  <2>1. QueueOK(ker, o, Waits(ker, o) \ {})  BY DEF IInv, Good, QueuesOK
  <2>2. QED  BY <1>1, <2>1 DEF QueueOK, Waits, Sorted
<1>2. QED  BY <1>1 DEF WaitQueueOK

\* The wait queues and the time events of waits agree with the states of the tasks,
\* whichever of completion, timeout, release, reset, deletion and termination ends a
\* wait, and whatever changes the priority of a task that waits (wait.c, mutex.c).
THEOREM WaitsCorrect ==
  Spec => []WaitsOK
<1>1. IInv => WaitQueueOK  BY WaitQueuesCorrect
<1>2. Spec => []WaitQueueOK  BY <1>1, Invariance, PTL
<1>3. QED  BY <1>2, TimeEventsCorrect, PTL DEF WaitsOK

\* A dormant task keeps nothing of its earlier life, and the free list holds
\* the tasks that do not exist, each once.
THEOREM DormantCorrect ==
  Spec => []DormantOK
<1>1. ASSUME IInv  PROVE DormantOK
  <2>1. SystemOK(ker) /\ \A t \in TSK : TaskOK(ker, t)
    BY <1>1 DEF IInv, Good
  <2>2. QED  BY <2>1 DEF DormantOK, TaskOK, SystemOK, FreeList, Exists
<1>2. QED  BY <1>1, Invariance, PTL

\* The scheduler as a whole: queue and bitmap, p_schedtsk, and the assertions.
THEOREM SchedulerCorrect ==
  Spec => []SchedulerOK
BY ReadyQueueCorrect, ScheduleCorrect, NoAssertionFails, PTL DEF SchedulerOK

\* What a task is left with when its waits and its life end.
THEOREM TasksCorrect ==
  Spec => []TasksOK
BY WakeupsKept, TimeEventsCorrect, DormantCorrect, PTL DEF TasksOK

----------------------------------------------------------------------------
(* The owners of the mutexes and the priorities that follow from the       *)
(* ceilings: an invariant beside the one above.                            *)

\* t waits for the mutex m.
WaitsFor(k, t, m) == k.tstat[t].wai = "MTX" /\ k.wobj[t] = m

\* The current priority of t is the highest of its base priority and of the ceilings of
\* the mutexes it has, or was the ceiling of one of Z; no ceiling of a mutex it has or
\* waits for is below its base priority; and it does not wait for a mutex without an
\* owner, nor for its own.
CeilBut(k, t, Z) ==
  /\ k.priority[t] <= k.bpriority[t]
  /\ \A m \in MTX : m \in Holds(k, t) /\ MTX_CEILING(k, m) =>
       k.priority[t] <= k.ceilpri[m] /\ k.ceilpri[m] <= k.bpriority[t]
  /\ \/ k.priority[t] = k.bpriority[t]
     \/ \E m \in MTX : /\ m \in Holds(k, t) \/ m \in Z
                       /\ MTX_CEILING(k, m) /\ k.priority[t] = k.ceilpri[m]
  /\ \A m \in MTX : WaitsFor(k, t, m) =>
       k.loctsk[m] \notin {NULL, t} /\ (MTX_CEILING(k, m) => k.ceilpri[m] <= k.bpriority[t])

CeilOK(k, t) == CeilBut(k, t, {})

\* The list of a task holds the mutexes it owns, each once, but for those of Y, which
\* are on their way to another owner.
OwnersOK(k, Y) ==
  /\ \A t \in TSK : Distinct(k.lastmtx[t])
  /\ \A m \in MTX, t \in TSK :
       m \in Holds(k, t) <=> m \notin Y /\ k.wobjatr[m] # "TA_NOEXS" /\ k.loctsk[m] = t

\* The invariant inside a call, without the tasks of X, and between two calls.
OwnedBut(k, X, Y) == OwnersOK(k, Y) /\ \A t \in TSK \ X : CeilOK(k, t)
Owned(k) == OwnersOK(k, {}) /\ \A t \in TSK : CeilOK(k, t)

LEMMA OwnedAll ==
  ASSUME NEW k
  PROVE  Owned(k) <=> OwnedBut(k, {}, {})
BY DEF Owned, OwnedBut

\* k has the fields this invariant is about.
Shaped(k) ==
  /\ {"lastmtx", "loctsk", "ceilpri", "priority", "bpriority", "wobjatr", "tstat", "wobj"}
       \subseteq DOMAIN k
  /\ DOMAIN k.tstat = TSK /\ DOMAIN k.wobj = TSK /\ DOMAIN k.wobjatr = OBJ

LEMMA ShapedType ==
  ASSUME NEW k \in KState
  PROVE  Shaped(k)
BY DEF Shaped, KState

\* From k to r nothing changes that the invariant is about, but that waits end.
SameMutexes(k, r) ==
  Shaped(k) =>
    /\ Shaped(r)
    /\ r.lastmtx = k.lastmtx /\ r.loctsk = k.loctsk /\ r.ceilpri = k.ceilpri
    /\ r.priority = k.priority /\ r.bpriority = k.bpriority
    /\ \A m \in MTX : r.wobjatr[m] = k.wobjatr[m]
    /\ \A t \in TSK, m \in MTX : WaitsFor(r, t, m) => WaitsFor(k, t, m)

LEMMA SameSelf ==
  ASSUME NEW k
  PROVE  SameMutexes(k, k)
BY DEF SameMutexes

LEMMA SameTrans ==
  ASSUME NEW a, NEW b, NEW c, SameMutexes(a, b), SameMutexes(b, c)
  PROVE  SameMutexes(a, c)
BY DEF SameMutexes

\* The condition on t depends on the data of t, on the ceilings and on the owners of
\* the mutexes it waits for.
LEMMA CeilKept ==
  ASSUME NEW k, NEW r, NEW t \in TSK, NEW Z, CeilBut(k, t, Z),
         r.priority[t] = k.priority[t], r.bpriority[t] = k.bpriority[t],
         r.lastmtx[t] = k.lastmtx[t], r.ceilpri = k.ceilpri,
         \A m \in MTX : r.wobjatr[m] = k.wobjatr[m],
         \A m \in MTX : WaitsFor(r, t, m) =>
           WaitsFor(k, t, m) /\ (r.loctsk[m] = k.loctsk[m] \/ r.loctsk[m] \notin {NULL, t})
  PROVE  CeilBut(r, t, Z)
<1>1. Holds(r, t) = Holds(k, t)  BY DEF Holds
<1>2. \A m \in MTX : MTX_CEILING(r, m) <=> MTX_CEILING(k, m)  BY DEF MTX_CEILING
<1>3. QED  BY <1>1, <1>2 DEF CeilBut

LEMMA SameOwned ==
  ASSUME NEW k, NEW X, NEW Y, Shaped(k), OwnedBut(k, X, Y), NEW r, SameMutexes(k, r)
  PROVE  Shaped(r) /\ OwnedBut(r, X, Y)
<1>1. \A t : Holds(r, t) = Holds(k, t)  BY DEF Holds, SameMutexes
<1>2. OwnersOK(r, Y)  BY <1>1 DEF OwnersOK, OwnedBut, SameMutexes
<1>3. ASSUME NEW t \in TSK \ X  PROVE CeilOK(r, t)
  <2> DEFINE Z == {}
  <2>1. CeilBut(k, t, Z)  BY DEF OwnedBut, CeilOK
  <2> HIDE DEF Z
  <2>2. CeilBut(r, t, Z)  BY <2>1, CeilKept DEF SameMutexes
  <2>3. QED  BY <2>2 DEF CeilOK, Z
<1>4. QED  BY <1>2, <1>3 DEF OwnedBut, SameMutexes

LEMMA SameOwnedAll ==
  ASSUME NEW k, Shaped(k), Owned(k), NEW r, SameMutexes(k, r)
  PROVE  Shaped(r) /\ Owned(r)
<1> DEFINE E == {}
<1>1. OwnedBut(k, E, E)  BY OwnedAll
<1> HIDE DEF E
<1>2. Shaped(r) /\ OwnedBut(r, E, E)  BY <1>1, SameOwned
<1>3. QED  BY <1>2, OwnedAll DEF E

\* Where the lemmas above on the kernel data say what an operation leaves alone.
LEMMA AsideSame ==
  ASSUME NEW k, NEW r \in KState, Aside(k, r), SameOwners(k, r), FewerWaits(k, r)
  PROVE  SameMutexes(k, r)
<1>1. \A t \in TSK, m \in MTX : WaitsFor(r, t, m) => WaitsFor(k, t, m)
  BY DEF FewerWaits, WaitsFor
<1>2. QED  BY <1>1, ShapedType DEF SameMutexes, Aside, SameOwners, SameSystem

LEMMA RunnableSame ==
  ASSUME NEW k, NEW t
  PROVE  SameMutexes(k, make_runnable(k, t)) /\ SameMutexes(k, make_non_runnable(k, t))
<1>1. SameMutexes(k, make_runnable(k, t))
  BY DEF SameMutexes, Shaped, WaitsFor, make_runnable
<1>2. SameMutexes(k, make_non_runnable(k, t))
  BY DEF SameMutexes, Shaped, WaitsFor, make_non_runnable
<1>3. QED  BY <1>1, <1>2

LEMMA RotateSame ==
  ASSUME NEW k, NEW p
  PROVE  /\ SameMutexes(k, rotate_ready_queue(k, p)) /\ SameMutexes(k, set_dspflg(k))
         /\ SameMutexes(k, dispatch(k))
<1>1. SameMutexes(k, rotate_ready_queue(k, p))
  BY DEF SameMutexes, Shaped, WaitsFor, rotate_ready_queue
<1>2. SameMutexes(k, set_dspflg(k)) /\ SameMutexes(k, dispatch(k))
  BY DEF SameMutexes, Shaped, WaitsFor, set_dspflg, dispatch
<1>3. QED  BY <1>1, <1>2

\* A state of the task in which it waits for nothing, or for what it did.
LEMMA StateSame ==
  ASSUME NEW k, NEW t \in TSK, NEW s, s.wai \in {"none", k.tstat[t].wai}
  PROVE  SameMutexes(k, [k EXCEPT !.tstat[t] = s])
<1> DEFINE r == [k EXCEPT !.tstat[t] = s]
<1>1. ASSUME Shaped(k)
      PROVE  /\ Shaped(r) /\ r.lastmtx = k.lastmtx /\ r.loctsk = k.loctsk
             /\ r.ceilpri = k.ceilpri /\ r.priority = k.priority /\ r.bpriority = k.bpriority
             /\ r.wobjatr = k.wobjatr /\ r.wobj = k.wobj
             /\ r.tstat = [k.tstat EXCEPT ![t] = s] /\ DOMAIN k.tstat = TSK
  BY <1>1 DEF Shaped
<1> HIDE DEF r
<1>2. QED  BY <1>1 DEF SameMutexes, WaitsFor, r

\* Data that the invariant is not about.
LEMMA OtherSame ==
  ASSUME NEW k, NEW t, NEW v, NEW w
  PROVE  /\ SameMutexes(k, [k EXCEPT !.failed = v]) /\ SameMutexes(k, [k EXCEPT !.tmevt = v])
         /\ SameMutexes(k, [k EXCEPT !.actque[t] = v]) /\ SameMutexes(k, [k EXCEPT !.wupque[t] = v])
         /\ SameMutexes(k, [k EXCEPT !.raster[t] = v]) /\ SameMutexes(k, [k EXCEPT !.enater[t] = v])
         /\ SameMutexes(k, [k EXCEPT !.pending[t] = v]) /\ SameMutexes(k, [k EXCEPT !.semcnt[t] = v])
         /\ SameMutexes(k, [k EXCEPT !.wait_queue[t] = v])
         /\ SameMutexes(k, [k EXCEPT !.winfo[t] = v, !.tmevt = w])
         /\ SameMutexes(k, [k EXCEPT !.tmevt = v, !.failed = w])
         /\ SameMutexes(k, [k EXCEPT !.enadsp = v]) /\ SameMutexes(k, [k EXCEPT !.ipm = v])
         /\ SameMutexes(k, [k EXCEPT !.enadsp = v, !.ipm = w])
         /\ SameMutexes(k, [k EXCEPT !.enadsp = v, !.dspflg = w])
         /\ SameMutexes(k, [k EXCEPT !.tskatr[t] = v, !.free_tcb = w])
         /\ SameMutexes(k, [k EXCEPT !.dspflg = v])
<1>1. /\ SameMutexes(k, [k EXCEPT !.failed = v]) /\ SameMutexes(k, [k EXCEPT !.tmevt = v])
      /\ SameMutexes(k, [k EXCEPT !.actque[t] = v]) /\ SameMutexes(k, [k EXCEPT !.wupque[t] = v])
      /\ SameMutexes(k, [k EXCEPT !.raster[t] = v]) /\ SameMutexes(k, [k EXCEPT !.enater[t] = v])
      /\ SameMutexes(k, [k EXCEPT !.pending[t] = v]) /\ SameMutexes(k, [k EXCEPT !.semcnt[t] = v])
      /\ SameMutexes(k, [k EXCEPT !.wait_queue[t] = v])
  BY DEF SameMutexes, Shaped, WaitsFor
<1>2. /\ SameMutexes(k, [k EXCEPT !.winfo[t] = v, !.tmevt = w])
      /\ SameMutexes(k, [k EXCEPT !.tmevt = v, !.failed = w])
      /\ SameMutexes(k, [k EXCEPT !.enadsp = v]) /\ SameMutexes(k, [k EXCEPT !.ipm = v])
      /\ SameMutexes(k, [k EXCEPT !.enadsp = v, !.ipm = w])
      /\ SameMutexes(k, [k EXCEPT !.enadsp = v, !.dspflg = w])
      /\ SameMutexes(k, [k EXCEPT !.tskatr[t] = v, !.free_tcb = w])
      /\ SameMutexes(k, [k EXCEPT !.dspflg = v])
  BY DEF SameMutexes, Shaped, WaitsFor
<1>3. QED  BY <1>1, <1>2

LEMMA DequeueSame ==
  ASSUME NEW k, NEW t
  PROVE  SameMutexes(k, wait_dequeue_wobj(k, t)) /\ SameMutexes(k, wait_dequeue_tmevtb(k, t))
<1>1. SameMutexes(k, wait_dequeue_wobj(k, t))
  BY DEF SameMutexes, Shaped, WaitsFor, wait_dequeue_wobj
<1>2. SameMutexes(k, wait_dequeue_tmevtb(k, t))
  BY DEF SameMutexes, Shaped, WaitsFor, wait_dequeue_tmevtb
<1>3. QED  BY <1>1, <1>2

\* A wait ends: the task waits for no mutex any more.
LEMMA EndSame ==
  ASSUME NEW k, NEW t \in TSK, NEW e
  PROVE  SameMutexes(k, make_non_wait(SetWercd(k, t, e), t))
<1> DEFINE d == SetWercd(k, t, e)
           w == [d EXCEPT !.failed = @ \/ ~TSTAT_WAITING(d, t)]
           s == IF TSTAT_SUSPENDED(d, t) THEN TS_SUSPENDED ELSE TS_RUNNABLE
           r == [w EXCEPT !.tstat[t] = s]
<1>1. s.wai = "none"  BY StateConstants
<1>2. make_non_wait(d, t) \in {r, make_runnable(r, t)}
  BY DEF make_non_wait
<1>3. SameMutexes(k, r)
  <2>1. ASSUME Shaped(k)
        PROVE  /\ Shaped(d) /\ d.lastmtx = k.lastmtx /\ d.loctsk = k.loctsk
               /\ d.ceilpri = k.ceilpri /\ d.priority = k.priority /\ d.bpriority = k.bpriority
               /\ d.wobjatr = k.wobjatr /\ d.wobj = [k.wobj EXCEPT ![t] = NULL]
               /\ d.tstat = k.tstat /\ DOMAIN k.tstat = TSK /\ DOMAIN k.wobj = TSK
    BY <2>1 DEF Shaped, SetWercd
  <2> HIDE DEF d, s
  <2>2. ASSUME Shaped(d)
        PROVE  /\ Shaped(r) /\ r.lastmtx = d.lastmtx /\ r.loctsk = d.loctsk
               /\ r.ceilpri = d.ceilpri /\ r.priority = d.priority /\ r.bpriority = d.bpriority
               /\ r.wobjatr = d.wobjatr /\ r.wobj = d.wobj
               /\ r.tstat = [d.tstat EXCEPT ![t] = s]
    BY <2>2 DEF Shaped
  <2> HIDE DEF r
  <2>3. QED  BY <1>1, <2>1, <2>2 DEF SameMutexes, WaitsFor
<1> HIDE DEF r
<1>4. SameMutexes(k, make_runnable(r, t))
  BY <1>3, RunnableSame, SameTrans
<1>5. QED  BY <1>2, <1>3, <1>4

LEMMA EndedSame ==
  ASSUME NEW k, NEW t \in TSK, NEW e
  PROVE  /\ SameMutexes(k, make_non_wait(SetWercd(wait_dequeue_tmevtb(k, t), t, e), t))
         /\ SameMutexes(k, make_non_wait(SetWercd(wait_dequeue_wobj(k, t), t, e), t))
         /\ SameMutexes(k, make_non_wait(EndedWait(k, t, e), t))
<1> DEFINE a == wait_dequeue_tmevtb(k, t)
           b == wait_dequeue_wobj(k, t)
           c == wait_dequeue_tmevtb(b, t)
<1>1. SameMutexes(k, a) /\ SameMutexes(k, b) /\ SameMutexes(b, c)
  BY DequeueSame
<1>2. EndedWait(k, t, e) = SetWercd(c, t, e)  BY DEF EndedWait
<1> HIDE DEF a, b, c
<1>3. /\ SameMutexes(a, make_non_wait(SetWercd(a, t, e), t))
      /\ SameMutexes(b, make_non_wait(SetWercd(b, t, e), t))
      /\ SameMutexes(c, make_non_wait(SetWercd(c, t, e), t))
  BY EndSame
<1>4. SameMutexes(k, c)  BY <1>1, SameTrans
<1>5. /\ SameMutexes(k, make_non_wait(SetWercd(a, t, e), t))
      /\ SameMutexes(k, make_non_wait(SetWercd(b, t, e), t))
      /\ SameMutexes(k, make_non_wait(SetWercd(c, t, e), t))
  BY <1>1, <1>3, <1>4, SameTrans
<1>6. QED  BY <1>2, <1>5 DEF a, b

\* What make_wait and the entry into a queue leave of the data of the mutexes.
Waiting(k, r, t, f, wo) ==
  /\ Shaped(r) /\ r.lastmtx = k.lastmtx /\ r.loctsk = k.loctsk /\ r.ceilpri = k.ceilpri
  /\ r.priority = k.priority /\ r.bpriority = k.bpriority /\ r.wobjatr = k.wobjatr
  /\ r.tstat = [k.tstat EXCEPT ![t] = TS_WAITING(f)] /\ r.wobj = wo

LEMMA MakeWaitShape ==
  ASSUME NEW k, Shaped(k), NEW t, t = k.runtsk, t \in TSK, NEW f, NEW tmo, NEW o
  PROVE  /\ Waiting(k, make_wait(k, f, tmo), t, f, k.wobj)
         /\ "runtsk" \in DOMAIN k =>
              Waiting(k, wobj_make_wait(k, o, f, tmo), t, f, [k.wobj EXCEPT ![t] = o])
<1> DEFINE d == [k EXCEPT !.tstat[t] = TS_WAITING(f)]
           w == make_non_runnable(d, t)
           r == make_wait(k, f, tmo)
<1>1. /\ DOMAIN d = DOMAIN k /\ Waiting(k, d, t, f, k.wobj) /\ DOMAIN k.tstat = TSK
      /\ "runtsk" \in DOMAIN k => d.runtsk = k.runtsk
  BY DEF Shaped, Waiting
<1> HIDE DEF d
<1>2. /\ DOMAIN w = DOMAIN k /\ Waiting(k, w, t, f, k.wobj)
      /\ "runtsk" \in DOMAIN k => w.runtsk = k.runtsk
  BY <1>1 DEF Shaped, Waiting, make_non_runnable
<1>3. r = [w EXCEPT !.winfo[t] = IF tmo THEN "tmevtb" ELSE "null",
                    !.tmevt = IF tmo THEN @ \cup {t} ELSE @]
  BY DEF make_wait, d
<1> HIDE DEF w, r
<1>4. /\ DOMAIN r = DOMAIN k /\ Waiting(k, r, t, f, k.wobj)
      /\ "runtsk" \in DOMAIN k => r.runtsk = k.runtsk
  BY <1>2, <1>3 DEF Shaped, Waiting
<1> DEFINE q == wobj_queue_insert(r, o)
<1>5. DOMAIN q = DOMAIN k /\ Waiting(k, q, t, f, k.wobj)
  BY <1>4 DEF Shaped, Waiting, wobj_queue_insert
<1>6. wobj_make_wait(k, o, f, tmo) = [q EXCEPT !.wobj[t] = o]
  BY DEF wobj_make_wait, r
<1> HIDE DEF q
<1>7. Waiting(k, [q EXCEPT !.wobj[t] = o], t, f, [k.wobj EXCEPT ![t] = o])
  BY <1>5 DEF Shaped, Waiting
<1>8. QED  BY <1>4, <1>6, <1>7 DEF r

\* A task begins to wait, but for no mutex.
LEMMA MakeWaitSame ==
  ASSUME NEW k \in KState, NEW f \in FACTOR, f # "MTX", NEW tmo, NEW o, k.runtsk \in TSK
  PROVE  /\ SameMutexes(k, make_wait(k, f, tmo))
         /\ SameMutexes(k, wobj_make_wait(k, o, f, tmo))
<1> DEFINE t == k.runtsk
<1>1. Shaped(k) /\ t \in TSK /\ "runtsk" \in DOMAIN k  BY ShapedType DEF KState
<1>2. TS_WAITING(f).wai = f  BY StateConstants
<1> HIDE DEF t
<1>3. ASSUME NEW r, NEW wo, Waiting(k, r, t, f, wo), wo \in {k.wobj, [k.wobj EXCEPT ![t] = o]}
      PROVE  SameMutexes(k, r)
  <2>1. DOMAIN k.tstat = TSK /\ DOMAIN k.wobj = TSK  BY <1>1 DEF Shaped
  <2>2. ASSUME NEW u \in TSK, NEW m \in MTX, WaitsFor(r, u, m)  PROVE WaitsFor(k, u, m)
    <3>1. r.tstat[u].wai = "MTX"  BY <2>2 DEF WaitsFor
    <3>2. u # t  BY <1>1, <1>2, <1>3, <2>1, <3>1 DEF Waiting
    <3>3. QED  BY <1>3, <2>1, <2>2, <3>2 DEF Waiting, WaitsFor
  <2>3. QED  BY <1>3, <2>2 DEF SameMutexes, Waiting
<1>4. Waiting(k, make_wait(k, f, tmo), t, f, k.wobj)
  BY <1>1, MakeWaitShape DEF t
<1>5. Waiting(k, wobj_make_wait(k, o, f, tmo), t, f, [k.wobj EXCEPT ![t] = o])
  BY <1>1, MakeWaitShape DEF t
<1>6. QED  BY <1>3, <1>4, <1>5

LEMMA MakeActiveSame ==
  ASSUME NEW k, NEW t \in TSK
  PROVE  SameMutexes(k, make_active(k, t))
<1> DEFINE d == [k EXCEPT !.tstat[t] = TS_RUNNABLE]
<1>1. TS_RUNNABLE.wai = "none"  BY StateConstants
<1>2. SameMutexes(k, d)  BY <1>1, StateSame
<1> HIDE DEF d
<1>3. SameMutexes(k, make_runnable(d, t))  BY <1>2, RunnableSame, SameTrans
<1>4. QED  BY <1>3 DEF make_active, d

LEMMA InitSame ==
  ASSUME NEW k, Good(k), NEW o \in OBJ
  PROVE  SameMutexes(k, init_wait_queue(k, o))
<1> DEFINE r == init_wait_queue(k, o)
<1>1. Good(r) /\ Aside(k, r) /\ SameOwners(k, r) /\ FewerWaits(k, r)  BY InitWaitQueue
<1>2. r \in KState  BY <1>1 DEF Good, SchedInv
<1> HIDE DEF r
<1>3. SameMutexes(k, r)  BY <1>1, <1>2, AsideSame
<1>4. QED  BY <1>3 DEF r

\* The ways a call ends keep the invariant.
LEMMA ReturnOwned ==
  ASSUME NEW k, Shaped(k), Owned(k), Return(k) \/ ExitAndDispatch(k)
  PROVE  Owned(ker')
<1>1. Shaped(dispatch(k)) /\ Owned(dispatch(k))
  BY RotateSame, SameOwnedAll
<1>2. ker' \in {k, dispatch(k)}
  BY DEF Return, ExitAndDispatch
<1>3. QED  BY <1>1, <1>2

LEMMA ReturnSame ==
  ASSUME NEW k, Shaped(ker), Owned(ker), SameMutexes(ker, k), Return(k) \/ ker' = k
  PROVE  Owned(ker')
<1>1. Shaped(k) /\ Owned(k)  BY SameOwnedAll
<1>2. QED  BY <1>1, ReturnOwned

----------------------------------------------------------------------------
(* A mutex changes hands.                                                  *)

\* The tasks in the queue of a mutex are those that wait for it.
LEMMA QueueOfMutex ==
  ASSUME NEW k, NEW X, GoodBut(k, X), NEW m \in MTX, NEW t \in TSK \ X
  PROVE  InQueue(k.wait_queue[m], t) <=> WaitsFor(k, t, m)
<1>1. QueueOK(k, m, Waits(k, m) \ X) /\ WaitOK(k, t)
  BY DEF GoodBut, QueuesOK, OBJ, TaskOK
<1>2. InQueue(k.wait_queue[m], t) <=> TSTAT_WAIT_WOBJ(k, t) /\ k.wobj[t] = m
  BY <1>1 DEF QueueOK, Waits
<1>3. m \notin SEM  BY ObjectAssumption
<1>4. QED  BY <1>1, <1>2, <1>3 DEF WaitOK, WaitsFor, TSTAT_WAIT_WOBJ, FACTOR

\* From k to r the mutex m becomes the last one of t, which waits for nothing more,
\* and the priority of t rises to the ceiling.
Granted(k, r, t, m) ==
  /\ Shaped(r)
  /\ r.loctsk = [k.loctsk EXCEPT ![m] = t]
  /\ r.lastmtx = [k.lastmtx EXCEPT ![t] = <<m>> \o k.lastmtx[t]]
  /\ r.priority = [k.priority EXCEPT ![t] = IF MTX_CEILING(k, m) /\ k.ceilpri[m] < k.priority[t]
                                            THEN k.ceilpri[m] ELSE k.priority[t]]
  /\ r.bpriority = k.bpriority /\ r.ceilpri = k.ceilpri
  /\ \A x \in MTX : r.wobjatr[x] = k.wobjatr[x]
  /\ \A u \in TSK, x \in MTX : WaitsFor(r, u, x) => u # t /\ WaitsFor(k, u, x)

\* The types of the data of the mutexes.
LEMMA MutexTypes ==
  ASSUME NEW k \in KState
  PROVE  /\ k.lastmtx \in [TSK -> Seq(MTX)] /\ k.loctsk \in [MTX -> TSK \cup {NULL}]
         /\ k.ceilpri \in [MTX -> PRI] /\ k.priority \in [TSK -> PRI]
         /\ k.bpriority \in [TSK -> PRI] /\ PRI \subseteq Int
         /\ \A t \in TSK : /\ k.priority[t] \in Int /\ k.bpriority[t] \in Int
                           /\ k.lastmtx[t] \in Seq(MTX)
                           /\ \A m : m \in Holds(k, t) <=> InQueue(k.lastmtx[t], m)
                           /\ Holds(k, t) \subseteq MTX
         /\ \A m \in MTX : k.ceilpri[m] \in Int
<1>1. /\ k.lastmtx \in [TSK -> Seq(MTX)] /\ k.loctsk \in [MTX -> TSK \cup {NULL}]
      /\ k.ceilpri \in [MTX -> PRI] /\ k.priority \in [TSK -> PRI]
      /\ k.bpriority \in [TSK -> PRI]
  BY DEF KState
<1>2. PRI \subseteq Int  BY TnumTpriAssumption DEF PRI
<1>3. ASSUME NEW t \in TSK
      PROVE  /\ k.priority[t] \in Int /\ k.bpriority[t] \in Int
             /\ k.lastmtx[t] \in Seq(MTX)
             /\ \A m : m \in Holds(k, t) <=> InQueue(k.lastmtx[t], m)
             /\ Holds(k, t) \subseteq MTX
  <2>1. k.priority[t] \in PRI /\ k.bpriority[t] \in PRI /\ k.lastmtx[t] \in Seq(MTX)
    BY <1>1
  <2>2. k.priority[t] \in Int /\ k.bpriority[t] \in Int  BY <1>2, <2>1
  <2>3. \A m : m \in Holds(k, t) <=> InQueue(k.lastmtx[t], m)  BY DEF Holds, InQueue
  <2>4. Holds(k, t) \subseteq MTX  BY <2>1 DEF Holds
  <2>5. QED  BY <2>1, <2>2, <2>3, <2>4
<1>4. ASSUME NEW m \in MTX  PROVE k.ceilpri[m] \in Int
  <2>1. k.ceilpri[m] \in PRI  BY <1>1
  <2>2. QED  BY <1>2, <2>1
<1>5. QED  BY <1>1, <1>2, <1>3, <1>4

\* A mutex that is on its way (the only one in Y) arrives at t.
LEMMA GrantOwned ==
  ASSUME NEW k \in KState, NEW X, NEW m \in MTX, OwnedBut(k, X, {m}),
         k.wobjatr[m] # "TA_NOEXS", NEW t \in TSK \ X,
         MTX_CEILING(k, m) => k.ceilpri[m] <= k.bpriority[t], NEW r, Granted(k, r, t, m)
  PROVE  OwnedBut(r, X, {})
<1> DEFINE Z == {}
<1>1. t \in TSK /\ CeilBut(k, t, Z) /\ OwnersOK(k, {m})
  BY DEF OwnedBut, CeilOK
<1>2. m \notin Holds(k, t) /\ Distinct(k.lastmtx[t])
  BY <1>1 DEF OwnersOK
<1>3. k.lastmtx[t] \in Seq(MTX) /\ ~InQueue(k.lastmtx[t], m)
  BY <1>1, <1>2, MutexTypes
<1>4. r.lastmtx[t] = <<m>> \o k.lastmtx[t] /\ \A u \in TSK \ {t} : r.lastmtx[u] = k.lastmtx[u]
  BY <1>1, MutexTypes DEF Granted
<1>5. Distinct(r.lastmtx[t]) /\ \A x : InQueue(r.lastmtx[t], x) <=> InQueue(k.lastmtx[t], x) \/ x = m
  BY <1>2, <1>3, <1>4, QueuePrepend
<1>6. \A x : x \in Holds(r, t) <=> x \in Holds(k, t) \/ x = m
  BY <1>5 DEF Holds, InQueue
<1>7. \A u \in TSK \ {t} : Holds(r, u) = Holds(k, u)
  BY <1>4 DEF Holds
<1>8. r.loctsk[m] = t /\ \A x \in MTX \ {m} : r.loctsk[x] = k.loctsk[x]
  BY MutexTypes DEF Granted
<1>9. \A x \in MTX : MTX_CEILING(r, x) <=> MTX_CEILING(k, x)
  BY DEF Granted, MTX_CEILING
<1>10. OwnersOK(r, {})
  <2>1. \A u \in TSK : Distinct(r.lastmtx[u])
    BY <1>1, <1>4, <1>5 DEF OwnersOK
  <2>2. ASSUME NEW x \in MTX, NEW u \in TSK
        PROVE  x \in Holds(r, u) <=> r.wobjatr[x] # "TA_NOEXS" /\ r.loctsk[x] = u
    <3>1. r.wobjatr[x] = k.wobjatr[x]  BY DEF Granted
    <3>2. x \in Holds(k, u) <=> x # m /\ k.wobjatr[x] # "TA_NOEXS" /\ k.loctsk[x] = u
      BY <1>1 DEF OwnersOK
    <3>3. CASE x = m  BY <1>6, <1>7, <1>8, <3>1, <3>2, <3>3
    <3>4. CASE x # m  BY <1>6, <1>7, <1>8, <3>1, <3>2, <3>4
    <3>5. QED  BY <3>3, <3>4
  <2>3. QED  BY <2>1, <2>2 DEF OwnersOK
<1>11. CeilBut(r, t, Z)
  <2> DEFINE p == k.priority[t]
             b == k.bpriority[t]
             c == k.ceilpri[m]
  <2>1. p \in Int /\ b \in Int /\ c \in Int /\ \A x \in MTX : k.ceilpri[x] \in Int
    BY <1>1, MutexTypes
  <2>2. /\ r.priority[t] = IF MTX_CEILING(k, m) /\ c < p THEN c ELSE p
        /\ r.bpriority[t] = b /\ r.ceilpri = k.ceilpri
    BY <1>1, MutexTypes DEF Granted
  <2>3. \A x \in MTX : ~WaitsFor(r, t, x)  BY <1>1 DEF Granted
  <2>4. r.priority[t] <= b
    BY <1>1, <2>1, <2>2 DEF CeilBut
  <2>5. ASSUME NEW x \in MTX, x \in Holds(r, t), MTX_CEILING(r, x)
        PROVE  r.priority[t] <= r.ceilpri[x] /\ r.ceilpri[x] <= b
    <3>1. CASE x = m  BY <1>9, <2>1, <2>2, <2>5, <3>1
    <3>2. CASE x # m
      <4>1. x \in Holds(k, t) /\ MTX_CEILING(k, x)  BY <1>6, <1>9, <2>5, <3>2
      <4>2. p <= k.ceilpri[x] /\ k.ceilpri[x] <= b  BY <1>1, <4>1 DEF CeilBut
      <4>3. k.ceilpri[x] \in Int  BY <2>1
      <4>4. QED  BY <2>1, <2>2, <4>2, <4>3
    <3>3. QED  BY <3>1, <3>2
  <2>6. \/ r.priority[t] = r.bpriority[t]
        \/ \E x \in MTX : /\ x \in Holds(r, t) \/ x \in Z
                          /\ MTX_CEILING(r, x) /\ r.priority[t] = r.ceilpri[x]
    <3>1. CASE MTX_CEILING(k, m) /\ c < p
      <4>1. m \in Holds(r, t) /\ MTX_CEILING(r, m) /\ r.priority[t] = r.ceilpri[m]
        BY <1>6, <1>9, <2>2, <3>1
      <4>2. QED  BY <4>1
    <3>2. CASE ~(MTX_CEILING(k, m) /\ c < p)
      <4>1. r.priority[t] = p  BY <2>2, <3>2
      <4>2. QED  BY <1>1, <1>6, <1>9, <2>2, <4>1 DEF CeilBut
    <3>3. QED  BY <3>1, <3>2
  <2>7. QED  BY <2>2, <2>3, <2>4, <2>5, <2>6 DEF CeilBut
<1>12. ASSUME NEW u \in TSK \ X, u # t  PROVE CeilBut(r, u, Z)
  <2>1. CeilBut(k, u, Z)  BY DEF OwnedBut, CeilOK
  <2>2. ASSUME NEW x \in MTX, WaitsFor(r, u, x)
        PROVE  WaitsFor(k, u, x) /\ (r.loctsk[x] = k.loctsk[x] \/ r.loctsk[x] \notin {NULL, u})
    <3>1. WaitsFor(k, u, x)  BY <2>2 DEF Granted
    <3>2. QED  BY <1>1, <1>8, <1>12, <3>1, NullAssumption
  <2>3. /\ r.priority[u] = k.priority[u] /\ r.bpriority[u] = k.bpriority[u]
        /\ r.lastmtx[u] = k.lastmtx[u] /\ r.ceilpri = k.ceilpri
        /\ \A x \in MTX : r.wobjatr[x] = k.wobjatr[x]
    BY <1>4, <1>12, MutexTypes DEF Granted
  <2> HIDE DEF Z
  <2>4. QED  BY <2>1, <2>2, <2>3, CeilKept
<1>13. QED  BY <1>10, <1>11, <1>12 DEF OwnedBut, CeilOK

\* mutex_release with a task in the queue.
LEMMA ReleaseFields ==
  ASSUME NEW k \in KState, NEW m \in MTX, k.wait_queue[m] # <<>>, NEW t \in TSK,
         t = Head(k.wait_queue[m])
  PROVE  Granted(k, mutex_release(k, m), t, m)
<1> DEFINE d == SetWercd(wait_dequeue_tmevtb([k EXCEPT !.wait_queue[m] = Tail(@)], t), t, "E_OK")
           p == IF MTX_CEILING(k, m) /\ k.ceilpri[m] < k.priority[t]
                THEN k.ceilpri[m] ELSE k.priority[t]
           a == [d EXCEPT !.loctsk[m] = t, !.lastmtx[t] = <<m>> \o @,
                          !.priority[t] = IF MTX_CEILING(k, m) /\ k.ceilpri[m] < @
                                          THEN k.ceilpri[m] ELSE @]
           w == [a EXCEPT !.failed = @ \/ ~TSTAT_WAITING(a, t)]
           s == IF TSTAT_SUSPENDED(a, t) THEN TS_SUSPENDED ELSE TS_RUNNABLE
           r == [w EXCEPT !.tstat[t] = s]
<1>1. mutex_release(k, m) = make_non_wait(a, t)  BY DEF mutex_release
<1>2. make_non_wait(a, t) \in {r, make_runnable(r, t)}  BY DEF make_non_wait
<1>3. s.wai = "none"  BY StateConstants
<1>4. Shaped(k)  BY ShapedType
<1>5. /\ DOMAIN d = DOMAIN k
      /\ d.lastmtx = k.lastmtx /\ d.loctsk = k.loctsk /\ d.priority = k.priority
      /\ d.bpriority = k.bpriority /\ d.ceilpri = k.ceilpri /\ d.wobjatr = k.wobjatr
      /\ d.tstat = k.tstat /\ d.wobj = [k.wobj EXCEPT ![t] = NULL]
  BY <1>4 DEF Shaped, SetWercd, wait_dequeue_tmevtb
<1> HIDE DEF d
<1>6. /\ DOMAIN a = DOMAIN k
      /\ a.lastmtx = [k.lastmtx EXCEPT ![t] = <<m>> \o k.lastmtx[t]]
      /\ a.loctsk = [k.loctsk EXCEPT ![m] = t] /\ a.priority = [k.priority EXCEPT ![t] = p]
      /\ a.bpriority = k.bpriority /\ a.ceilpri = k.ceilpri /\ a.wobjatr = k.wobjatr
      /\ a.tstat = k.tstat /\ a.wobj = [k.wobj EXCEPT ![t] = NULL]
  BY <1>4, <1>5 DEF Shaped
<1> HIDE DEF a, s, p
<1>7. /\ DOMAIN r = DOMAIN k /\ r.lastmtx = a.lastmtx /\ r.loctsk = a.loctsk
      /\ r.priority = a.priority /\ r.bpriority = k.bpriority /\ r.ceilpri = k.ceilpri
      /\ r.wobjatr = k.wobjatr /\ r.tstat = [k.tstat EXCEPT ![t] = s]
      /\ r.wobj = [k.wobj EXCEPT ![t] = NULL]
  BY <1>4, <1>6 DEF Shaped
<1> HIDE DEF r
<1>8. Shaped(r)  BY <1>4, <1>7 DEF Shaped
<1>9. ASSUME NEW u \in TSK, NEW x \in MTX, WaitsFor(r, u, x)
      PROVE  u # t /\ WaitsFor(k, u, x)
  <2>1. DOMAIN k.tstat = TSK /\ DOMAIN k.wobj = TSK  BY <1>4 DEF Shaped
  <2>2. u # t  BY <1>3, <1>7, <1>9, <2>1 DEF WaitsFor
  <2>3. QED  BY <1>7, <1>9, <2>1, <2>2 DEF WaitsFor
<1>10. Granted(k, r, t, m)
  BY <1>6, <1>7, <1>8, <1>9 DEF Granted, p
<1>11. SameMutexes(r, make_runnable(r, t))  BY RunnableSame
<1>12. Granted(k, make_runnable(r, t), t, m)
  BY <1>8, <1>10, <1>11 DEF Granted, SameMutexes
<1>13. QED  BY <1>1, <1>2, <1>10, <1>12

\* A released mutex goes to the first task in its queue, or has no owner.
LEMMA ReleaseOwned ==
  ASSUME NEW k, NEW X, GoodBut(k, X), NEW m \in MTX, OwnedBut(k, X, {m}),
         k.wobjatr[m] # "TA_NOEXS"
  PROVE  OwnedBut(mutex_release(k, m), X, {})
<1>1. k \in KState /\ QueuesOK(k, X) /\ m \in OBJ  BY DEF GoodBut, SchedInv, OBJ
<1>2. CASE k.wait_queue[m] = <<>>
  <2> DEFINE r == [k EXCEPT !.loctsk[m] = NULL]
             Z == {}
  <2>1. mutex_release(k, m) = r  BY <1>2 DEF mutex_release
  <2>2. /\ r.lastmtx = k.lastmtx /\ r.loctsk = [k.loctsk EXCEPT ![m] = NULL]
        /\ r.priority = k.priority /\ r.bpriority = k.bpriority /\ r.ceilpri = k.ceilpri
        /\ r.wobjatr = k.wobjatr /\ r.tstat = k.tstat /\ r.wobj = k.wobj
    BY <1>1 DEF KState
  <2> HIDE DEF r
  <2>3. r.loctsk[m] = NULL /\ \A x \in MTX \ {m} : r.loctsk[x] = k.loctsk[x]
    BY <1>1, <2>2, MutexTypes
  <2>4. OwnersOK(r, {})
    <3>1. OwnersOK(k, {m})  BY DEF OwnedBut
    <3>2. \A u : Holds(r, u) = Holds(k, u)  BY <2>2 DEF Holds
    <3>3. QED  BY <2>2, <2>3, <3>1, <3>2, NullAssumption DEF OwnersOK
  <2>5. ASSUME NEW u \in TSK \ X  PROVE CeilBut(r, u, Z)
    <3>1. CeilBut(k, u, Z)  BY DEF OwnedBut, CeilOK
    <3>2. ~InQueue(k.wait_queue[m], u)  BY <1>2 DEF InQueue
    <3>3. ~WaitsFor(k, u, m)  BY <3>2, QueueOfMutex
    <3>4. ASSUME NEW x \in MTX, WaitsFor(r, u, x)
          PROVE  WaitsFor(k, u, x) /\ r.loctsk[x] = k.loctsk[x]
      <4>1. WaitsFor(k, u, x)  BY <2>2, <3>4 DEF WaitsFor
      <4>2. x # m  BY <3>3, <4>1
      <4>3. QED  BY <2>3, <4>1, <4>2
    <3> HIDE DEF Z
    <3>5. /\ r.priority[u] = k.priority[u] /\ r.bpriority[u] = k.bpriority[u]
          /\ r.lastmtx[u] = k.lastmtx[u] /\ r.ceilpri = k.ceilpri
          /\ \A x \in MTX : r.wobjatr[x] = k.wobjatr[x]
      BY <2>2
    <3>6. \A x \in MTX : WaitsFor(r, u, x) =>
            WaitsFor(k, u, x) /\ (r.loctsk[x] = k.loctsk[x] \/ r.loctsk[x] \notin {NULL, u})
      BY <3>4
    <3>7. QED  BY <3>1, <3>5, <3>6, CeilKept
  <2>6. QED  BY <2>1, <2>4, <2>5 DEF OwnedBut, CeilOK
<1>3. CASE k.wait_queue[m] # <<>>
  <2> DEFINE t == Head(k.wait_queue[m])
  <2>1. t \in TSK \ X /\ InQueue(k.wait_queue[m], t)
    <3>1. t \in TSK /\ t \notin X  BY <1>1, <1>3, HeadLeaves
    <3>2. k.wait_queue[m] \in Seq(TSK)  BY <1>1 DEF KState
    <3>3. 1 \in DOMAIN k.wait_queue[m] /\ k.wait_queue[m][1] = t  BY <1>3, <3>2
    <3>4. QED  BY <3>1, <3>3 DEF InQueue
  <2> HIDE DEF t
  <2>2. WaitsFor(k, t, m)  BY <2>1, QueueOfMutex
  <2>3. MTX_CEILING(k, m) => k.ceilpri[m] <= k.bpriority[t]
    BY <2>1, <2>2 DEF OwnedBut, CeilOK, CeilBut
  <2>4. Granted(k, mutex_release(k, m), t, m)
    BY <1>1, <1>3, <2>1, ReleaseFields DEF t
  <2>5. QED  BY <1>1, <2>1, <2>3, <2>4, GrantOwned
<1>4. QED  BY <1>2, <1>3

----------------------------------------------------------------------------
(* A task gives a mutex up, or all of them.                                *)

\* The list of t changes.
WithList(k, t, s) == [k EXCEPT !.lastmtx[t] = s]

\* m has left the list of t: it is on its way, and the priority of t may still be its
\* ceiling.
Loses(r, X, t, m) ==
  /\ OwnersOK(r, {m}) /\ (t \notin X => CeilBut(r, t, {m}))
  /\ \A u \in TSK \ (X \cup {t}) : CeilOK(r, u)

LEMMA ListBut ==
  ASSUME NEW k \in KState, NEW X, OwnedBut(k, X, {}), NEW t \in TSK, NEW m \in MTX,
         k.loctsk[m] = t, NEW s, Distinct(s),
         \A x : InQueue(s, x) <=> InQueue(k.lastmtx[t], x) /\ x # m,
         NEW r, r = WithList(k, t, s)
  PROVE  Loses(r, X, t, m)
<1> DEFINE Z == {}
<1>1. /\ r.loctsk = k.loctsk /\ r.ceilpri = k.ceilpri /\ r.priority = k.priority
      /\ r.bpriority = k.bpriority /\ r.wobjatr = k.wobjatr /\ r.tstat = k.tstat
      /\ r.wobj = k.wobj /\ r.lastmtx = [k.lastmtx EXCEPT ![t] = s]
  BY DEF KState, WithList
<1>2. r.lastmtx[t] = s /\ \A u \in TSK \ {t} : r.lastmtx[u] = k.lastmtx[u]
  BY <1>1, MutexTypes
<1>3. \A x : x \in Holds(r, t) <=> x \in Holds(k, t) /\ x # m
  BY <1>2 DEF Holds, InQueue
<1>4. \A u \in TSK \ {t} : Holds(r, u) = Holds(k, u)  BY <1>2 DEF Holds
<1>5. \A u \in TSK, x \in MTX : WaitsFor(r, u, x) <=> WaitsFor(k, u, x)
  BY <1>1 DEF WaitsFor
<1>6. OwnersOK(k, {})  BY DEF OwnedBut
<1>7. OwnersOK(r, {m})
  <2>1. \A u \in TSK : Distinct(r.lastmtx[u])  BY <1>2, <1>6 DEF OwnersOK
  <2>2. ASSUME NEW x \in MTX, NEW u \in TSK
        PROVE  x \in Holds(r, u) <=> x # m /\ r.wobjatr[x] # "TA_NOEXS" /\ r.loctsk[x] = u
    <3>1. x \in Holds(k, u) <=> k.wobjatr[x] # "TA_NOEXS" /\ k.loctsk[x] = u
      BY <1>6 DEF OwnersOK
    <3>2. CASE u = t  BY <1>1, <1>3, <3>1, <3>2
    <3>3. CASE u # t  BY <1>1, <1>4, <3>1, <3>3
    <3>4. QED  BY <3>2, <3>3
  <2>3. QED  BY <2>1, <2>2 DEF OwnersOK
<1>8. ASSUME t \notin X  PROVE CeilBut(r, t, {m})
  <2>1. CeilBut(k, t, Z)  BY <1>8 DEF OwnedBut, CeilOK
  <2>2. \A x \in MTX : MTX_CEILING(r, x) <=> MTX_CEILING(k, x)  BY <1>1 DEF MTX_CEILING
  <2>3. QED  BY <1>1, <1>3, <1>5, <2>1, <2>2 DEF CeilBut
<1>9. ASSUME NEW u \in TSK \ (X \cup {t})  PROVE CeilOK(r, u)
  <2>1. CeilBut(k, u, Z)  BY DEF OwnedBut, CeilOK
  <2> HIDE DEF Z
  <2>2. /\ r.priority[u] = k.priority[u] /\ r.bpriority[u] = k.bpriority[u]
        /\ r.lastmtx[u] = k.lastmtx[u] /\ r.ceilpri = k.ceilpri
        /\ \A x \in MTX : r.wobjatr[x] = k.wobjatr[x]
    BY <1>1, <1>2
  <2>3. \A x \in MTX : WaitsFor(r, u, x) =>
          WaitsFor(k, u, x) /\ (r.loctsk[x] = k.loctsk[x] \/ r.loctsk[x] \notin {NULL, u})
    BY <1>1, <1>5
  <2>4. CeilBut(r, u, Z)  BY <2>1, <2>2, <2>3, CeilKept
  <2>5. QED  BY <2>4 DEF CeilOK, Z
<1>10. QED  BY <1>7, <1>8, <1>9 DEF Loses

\* The last mutex in the list.
LEMMA ListLoses ==
  ASSUME NEW k \in KState, NEW X, OwnedBut(k, X, {}), NEW t \in TSK, k.lastmtx[t] # <<>>,
         NEW m, m = Head(k.lastmtx[t]), NEW r, r = WithList(k, t, Tail(k.lastmtx[t]))
  PROVE  /\ m \in MTX /\ k.loctsk[m] = t /\ r.wobjatr[m] # "TA_NOEXS"
         /\ Loses(r, X, t, m)
<1> DEFINE s == Tail(k.lastmtx[t])
<1>1. k.lastmtx[t] \in Seq(MTX) /\ Distinct(k.lastmtx[t])
  BY MutexTypes DEF OwnedBut, OwnersOK
<1>2. /\ m \in MTX /\ InQueue(k.lastmtx[t], m) /\ Distinct(s)
      /\ \A x : InQueue(s, x) <=> InQueue(k.lastmtx[t], x) /\ x # m
  BY <1>1, QueueTail
<1>3. r = WithList(k, t, s)  OBVIOUS
<1> HIDE DEF s
<1>4. k.loctsk[m] = t /\ k.wobjatr[m] # "TA_NOEXS"
  BY <1>2, MutexTypes DEF OwnedBut, OwnersOK
<1>5. r.wobjatr = k.wobjatr  BY <1>3 DEF KState, WithList
<1>6. Loses(r, X, t, m)
  <2>1. /\ m \in MTX /\ Distinct(s) /\ k.loctsk[m] = t
        /\ \A x : InQueue(s, x) <=> InQueue(k.lastmtx[t], x) /\ x # m
    BY <1>2, <1>4
  <2>2. QED  BY <2>1, <1>3, ListBut
<1>7. QED  BY <1>2, <1>4, <1>5, <1>6

\* mutex_drop_priority: the ceiling of the mutex that is lost is not the reason of the
\* priority any more.
LEMMA DropOwned ==
  ASSUME NEW k \in KState, NEW t \in TSK, NEW m \in MTX, NEW Y, OwnersOK(k, Y),
         CeilBut(k, t, {m}), \A u \in TSK \ {t} : CeilOK(k, u)
  PROVE  LET r == mutex_drop_priority(k, t, m) IN
         /\ OwnedBut(r, {}, Y) /\ r.loctsk = k.loctsk /\ r.wobjatr = k.wobjatr
         /\ \A u \in TSK, x \in MTX : WaitsFor(r, u, x) <=> WaitsFor(k, u, x)
<1> DEFINE p == mutex_calc_priority(k, t)
           c == change_priority(k, t, p, TRUE)
           r == mutex_drop_priority(k, t, m)
           Z == {}
<1>1. /\ p \in {k.bpriority[t]} \cup HeldCeilings(k, t) /\ p \in PRI
      /\ \A q \in {k.bpriority[t]} \cup HeldCeilings(k, t) : p <= q
  BY CalcPriority
<1> HIDE DEF p
<1>2. /\ p <= k.bpriority[t]
      /\ \A x \in MTX : x \in Holds(k, t) /\ MTX_CEILING(k, x) => p <= k.ceilpri[x]
      /\ p = k.bpriority[t] \/ \E x \in MTX : x \in Holds(k, t) /\ MTX_CEILING(k, x) /\ p = k.ceilpri[x]
  BY <1>1, MutexTypes DEF HeldCeilings
<1>3. CASE r = c
  <2>1. /\ c.priority = [k.priority EXCEPT ![t] = p] /\ c.tstat = k.tstat /\ c.wobj = k.wobj
        /\ c.lastmtx = k.lastmtx /\ c.loctsk = k.loctsk /\ Aside(k, c)
    <3>1. p \in PRI /\ TRUE \in BOOLEAN  BY <1>1
    <3>2. QED  BY <3>1, ChangePriorityFields
  <2> HIDE DEF c, r
  <2>2. /\ c.ceilpri = k.ceilpri /\ c.bpriority = k.bpriority /\ c.wobjatr = k.wobjatr
        /\ c.priority[t] = p /\ \A u \in TSK \ {t} : c.priority[u] = k.priority[u]
    BY <2>1, MutexTypes DEF Aside, SameSystem
  <2>3. /\ \A u \in TSK, x \in MTX : WaitsFor(c, u, x) <=> WaitsFor(k, u, x)
        /\ \A x \in MTX : MTX_CEILING(c, x) <=> MTX_CEILING(k, x)
        /\ \A u : Holds(c, u) = Holds(k, u)
    BY <2>1, <2>2 DEF WaitsFor, MTX_CEILING, Holds
  <2>4. OwnersOK(c, Y)  BY <2>1, <2>2, <2>3 DEF OwnersOK
  <2>5. CeilBut(c, t, Z)  BY <1>2, <2>1, <2>2, <2>3 DEF CeilBut
  <2>6. ASSUME NEW u \in TSK \ {t}  PROVE CeilBut(c, u, Z)
    <3>1. CeilBut(k, u, Z)  BY DEF CeilOK
    <3> HIDE DEF Z
    <3>2. /\ c.priority[u] = k.priority[u] /\ c.bpriority[u] = k.bpriority[u]
          /\ c.lastmtx[u] = k.lastmtx[u] /\ c.ceilpri = k.ceilpri
          /\ \A x \in MTX : c.wobjatr[x] = k.wobjatr[x]
      BY <2>1, <2>2
    <3>3. \A x \in MTX : WaitsFor(c, u, x) =>
            WaitsFor(k, u, x) /\ (c.loctsk[x] = k.loctsk[x] \/ c.loctsk[x] \notin {NULL, u})
      BY <2>1, <2>3
    <3>4. QED  BY <3>1, <3>2, <3>3, CeilKept
  <2>7. OwnedBut(c, {}, Y)  BY <2>4, <2>5, <2>6 DEF OwnedBut, CeilOK
  <2>8. QED  BY <1>3, <2>1, <2>2, <2>3, <2>7 DEF r
<1>4. CASE r # c
  <2>1. r = k /\ ~(MTX_CEILING(k, m) /\ k.ceilpri[m] = k.priority[t] /\ p # k.priority[t])
    BY <1>4 DEF mutex_drop_priority, p
  <2> HIDE DEF r, c
  <2>2. CeilBut(k, t, Z)  BY <1>2, <2>1 DEF CeilBut
  <2>3. OwnedBut(k, {}, Y)  BY <2>2 DEF OwnedBut, CeilOK
  <2>4. QED  BY <2>1, <2>3 DEF r
<1>5. QED  BY <1>3, <1>4

\* All the mutexes of a task that is being terminated.
LEMMA ReleaseAllOwned ==
  ASSUME NEW k, NEW t \in TSK, GoodBut(k, {t}), OwnedBut(k, {t}, {})
  PROVE  OwnedBut(mutex_release_all(k, t), {t}, {})
<1> DEFINE q == k.lastmtx[t]
           L == Len(q)
<1>1. k \in KState /\ q \in Seq(MTX) /\ L \in Nat
  <2>1. k \in KState  BY DEF GoodBut, SchedInv
  <2>2. q \in Seq(MTX)  BY <2>1, MutexTypes
  <2>3. QED  BY <2>1, <2>2
<1>2. PICK g : /\ g[0] = k
               /\ \A n \in 1 .. L : g[n] = ReleaseStep(g[n - 1], t, q[n])
               /\ mutex_release_all(k, t) = g[L]
  BY <1>1, ReleaseTable
<1> DEFINE P(n) == /\ GoodBut(g[n], {t}) /\ g[n].lastmtx[t] = SubSeq(q, n + 1, L)
                   /\ OwnedBut(g[n], {t}, {})
           Bad == {n \in 0 .. L : ~P(n)}
<1> HIDE DEF q
<1>3. P(0)
  <2>1. SubSeq(q, 0 + 1, L) = k.lastmtx[t]  BY <1>1 DEF q
  <2>2. QED  BY <1>2, <2>1
<1>4. ASSUME NEW n \in 1 .. L, P(n - 1)  PROVE P(n)
  <2> DEFINE h == g[n - 1]
             m == q[n]
             x == [h EXCEPT !.lastmtx[t] = Tail(@)]
             r == ReleaseStep(h, t, m)
             T == {t}
             E == {}
  <2>1. /\ GoodBut(h, {t}) /\ h.lastmtx[t] = SubSeq(q, n, L) /\ OwnedBut(h, T, E)
    BY <1>4
  <2>2. g[n] = r  BY <1>2
  <2>3. /\ SubSeq(q, n, L) # <<>> /\ Head(SubSeq(q, n, L)) = m
        /\ Tail(SubSeq(q, n, L)) = SubSeq(q, n + 1, L)
    BY <1>1, NextOfList
  <2> HIDE DEF h, m, L
  <2>4. h.lastmtx[t] # <<>> /\ m = Head(h.lastmtx[t])  BY <2>1, <2>3
  <2>5. GoodBut(h, {t}) /\ h \in KState  BY <2>1 DEF GoodBut, SchedInv
  <2>6. /\ m \in MTX /\ GoodBut(x, {t}) /\ r = mutex_release(x, m) /\ GoodBut(r, {t})
        /\ r.lastmtx[t] = Tail(h.lastmtx[t])
    BY <2>4, <2>5, ReleaseStepBut
  <2>7. OwnedBut(h, {t}, {})  BY <2>1
  <2> HIDE DEF r
  <2>8. x = WithList(h, t, Tail(h.lastmtx[t]))  BY DEF WithList
  <2> HIDE DEF x
  <2>9. /\ OwnersOK(x, {m}) /\ x.wobjatr[m] # "TA_NOEXS"
        /\ \A u \in TSK \ (T \cup {t}) : CeilOK(x, u)
    <3>1. OwnedBut(h, T, {})  BY <2>7
    <3>2. /\ h \in KState /\ h.lastmtx[t] # <<>> /\ m = Head(h.lastmtx[t])
          /\ x = WithList(h, t, Tail(h.lastmtx[t]))
      BY <2>4, <2>5, <2>8
    <3> HIDE DEF T
    <3>3. Loses(x, T, t, m)  BY <3>1, <3>2, ListLoses
    <3>4. x.wobjatr[m] # "TA_NOEXS"  BY <3>1, <3>2, <3>3, ListLoses
    <3>5. QED  BY <3>3, <3>4 DEF Loses
  <2>10. OwnedBut(x, {t}, {m})  BY <2>9 DEF OwnedBut
  <2>11. GoodBut(x, T) /\ OwnedBut(x, T, {m})  BY <2>6, <2>10
  <2> HIDE DEF T
  <2>12. OwnedBut(mutex_release(x, m), T, {})
    BY <2>6, <2>9, <2>11, ReleaseOwned
  <2>13. OwnedBut(r, {t}, {})  BY <2>6, <2>12 DEF T
  <2>14. QED  BY <2>1, <2>2, <2>3, <2>6, <2>13
<1>5. Bad = {}
  <2> HIDE DEF P, L
  <2>1. \A n \in Bad : n - 1 \in Bad
    <3> SUFFICES ASSUME NEW n \in Bad PROVE n - 1 \in Bad  OBVIOUS
    <3>1. n # 0 /\ n \in 0 .. L  BY <1>3
    <3>2. n \in 1 .. L /\ n - 1 \in 0 .. L  BY <1>1, <3>1
    <3>3. QED  BY <1>4, <3>2
  <2>2. Bad \in SUBSET Nat  BY <1>1
  <2> HIDE DEF Bad
  <2>3. QED  BY <2>1, <2>2, NoneBad
<1>6. P(L)
  <2> HIDE DEF P
  <2>1. L \in 0 .. L  BY <1>1
  <2>2. QED  BY <1>5, <2>1
<1>7. QED  BY <1>2, <1>6

\* A dormant task has the priority it begins with, and no mutex.
LEMMA DormantOwned ==
  ASSUME NEW k \in KState, NEW t \in TSK, OwnedBut(k, {t}, {}), k.lastmtx[t] = <<>>
  PROVE  Shaped(make_dormant(k, t)) /\ Owned(make_dormant(k, t))
<1> DEFINE r == make_dormant(k, t)
           Z == {}
<1>1. Shaped(k) /\ "ipriority" \in DOMAIN k /\ k.ipriority[t] \in Int
  <2>1. k.ipriority[t] \in PRI  BY DEF KState
  <2>2. k.ipriority[t] \in Int  BY <2>1, MutexTypes
  <2>3. QED  BY <2>2, ShapedType DEF KState
<1>2. /\ Shaped(r) /\ r.loctsk = k.loctsk /\ r.ceilpri = k.ceilpri /\ r.wobjatr = k.wobjatr
      /\ r.lastmtx = k.lastmtx
      /\ r.priority = [k.priority EXCEPT ![t] = k.ipriority[t]]
      /\ r.bpriority = [k.bpriority EXCEPT ![t] = k.ipriority[t]]
      /\ r.tstat = [k.tstat EXCEPT ![t] = TS_DORMANT]
      /\ r.wobj = [k.wobj EXCEPT ![t] = NULL]
  BY <1>1 DEF Shaped, make_dormant
<1> HIDE DEF r
<1>3. /\ r.priority[t] = k.ipriority[t] /\ r.bpriority[t] = k.ipriority[t]
      /\ \A u \in TSK \ {t} : r.priority[u] = k.priority[u] /\ r.bpriority[u] = k.bpriority[u]
  BY <1>2, MutexTypes
<1>4. \A u : Holds(r, u) = Holds(k, u)  BY <1>2 DEF Holds
<1>5. Holds(r, t) = {}  BY <1>2 DEF Holds
<1>6. ASSUME NEW u \in TSK, NEW m \in MTX, WaitsFor(r, u, m)  PROVE u # t /\ WaitsFor(k, u, m)
  <2>1. DOMAIN k.tstat = TSK /\ DOMAIN k.wobj = TSK  BY <1>1 DEF Shaped
  <2>2. u # t  BY <1>2, <1>6, <2>1, StateConstants DEF WaitsFor
  <2>3. QED  BY <1>2, <1>6, <2>1, <2>2 DEF WaitsFor
<1>7. OwnersOK(r, {})  BY <1>2, <1>4 DEF OwnedBut, OwnersOK
<1>8. CeilBut(r, t, Z)  BY <1>1, <1>3, <1>5, <1>6 DEF CeilBut
<1>9. ASSUME NEW u \in TSK, u # t  PROVE CeilBut(r, u, Z)
  <2>1. CeilBut(k, u, Z)  BY <1>9 DEF OwnedBut, CeilOK
  <2> HIDE DEF Z
  <2>2. /\ r.priority[u] = k.priority[u] /\ r.bpriority[u] = k.bpriority[u]
        /\ r.lastmtx[u] = k.lastmtx[u] /\ r.ceilpri = k.ceilpri
        /\ \A x \in MTX : r.wobjatr[x] = k.wobjatr[x]
    BY <1>2, <1>3, <1>9
  <2>3. \A x \in MTX : WaitsFor(r, u, x) =>
          WaitsFor(k, u, x) /\ (r.loctsk[x] = k.loctsk[x] \/ r.loctsk[x] \notin {NULL, u})
    BY <1>2, <1>6
  <2>4. QED  BY <2>1, <2>2, <2>3, CeilKept
<1>10. Owned(r)  BY <1>7, <1>8, <1>9 DEF Owned, CeilOK
<1>11. QED  BY <1>2, <1>10 DEF r

\* task_terminate: the task leaves what it is in, hands its mutexes on, is dormant and,
\* if an activation was queued, runnable again.
LEMMA TerminateOwned ==
  ASSUME NEW k, Good(k), Owned(k), NEW t \in TSK, ~TSTAT_DORMANT(k, t),
         ~k.dspflg => t # k.schedtsk
  PROVE  Shaped(task_terminate(k, t)) /\ Owned(task_terminate(k, t))
<1> DEFINE w == Left(k, t)
           m == IF w.lastmtx[t] # <<>> THEN mutex_release_all(w, t) ELSE w
           E == {}
           T == {t}
<1>1. /\ GoodBut(w, {t}) /\ Aside(k, w) /\ SameOwners(k, w)
      /\ w.tstat = k.tstat /\ w.wobj = k.wobj
  BY LeaveAll
<1>2. k \in KState  BY DEF Good, SchedInv
<1> HIDE DEF w
<1>3. w \in KState /\ FewerWaits(k, w)  BY <1>1 DEF GoodBut, SchedInv, FewerWaits
<1>4. SameMutexes(k, w)  BY <1>1, <1>3, AsideSame
<1>5. Owned(w)  BY <1>2, <1>4, ShapedType, SameOwnedAll
<1>6. OwnedBut(w, {t}, {})  BY <1>5 DEF Owned, OwnedBut
<1>7. GoodBut(m, {t}) /\ OwnedBut(m, {t}, {}) /\ m.lastmtx[t] = <<>>
  <2>1. CASE w.lastmtx[t] # <<>>
    <3>1. m = mutex_release_all(w, t)  BY <2>1
    <3>2. OwnedBut(mutex_release_all(w, t), {t}, {})  BY <1>1, <1>6, ReleaseAllOwned
    <3>3. GoodBut(m, {t}) /\ m.lastmtx[t] = <<>>  BY <1>1, <3>1, MutexReleaseAll
    <3>4. QED  BY <3>1, <3>2, <3>3
  <2>2. CASE w.lastmtx[t] = <<>>  BY <1>1, <1>6, <2>2
  <2>3. QED  BY <2>1, <2>2
<1> DEFINE d == make_dormant(m, t)
           e == [d EXCEPT !.actque[t] = FALSE]
<1>8. task_terminate(k, t) \in {d, make_active(e, t)}
  BY DEF task_terminate, w, Left
<1> HIDE DEF m
<1>9. Shaped(d) /\ Owned(d)
  <2>1. m \in KState  BY <1>7 DEF GoodBut, SchedInv
  <2>2. QED  BY <1>7, <2>1, DormantOwned
<1> HIDE DEF d
<1>10. SameMutexes(d, e)  BY OtherSame
<1> HIDE DEF e
<1>11. SameMutexes(d, make_active(e, t))  BY <1>10, MakeActiveSame, SameTrans
<1>12. Shaped(make_active(e, t)) /\ Owned(make_active(e, t))
  BY <1>9, <1>11, SameOwnedAll
<1>13. QED  BY <1>8, <1>9, <1>12

\* A mutex that is deleted or reset is taken from its owner, and nobody waits for it.
LEMMA TakenBackOwned ==
  ASSUME NEW k, Good(k), Owned(k), NEW m \in MTX, k.wobjatr[m] # "TA_NOEXS"
  PROVE  LET r == TakeBack(k, m) IN
         /\ OwnedBut(r, {}, {m}) /\ \A u \in TSK : ~WaitsFor(r, u, m)
<1> DEFINE w == init_wait_queue(k, m)
           t == w.loctsk[m]
           u == UnlinkMutex(w, t, m)
           r == mutex_drop_priority(u, t, m)
           E == {}
<1>1. m \in OBJ /\ k \in KState  BY DEF OBJ, Good, SchedInv
<1>2. /\ Good(w) /\ w.wait_queue = [k.wait_queue EXCEPT ![m] = <<>>] /\ SameMutexes(k, w)
      /\ Aside(k, w)
  BY <1>1, InitWaitQueue, InitSame
<1>3. w \in KState /\ GoodBut(w, {})  BY <1>2, GoodAll DEF Good, SchedInv
<1>4. Owned(w) /\ w.wobjatr[m] # "TA_NOEXS"
  BY <1>1, <1>2, ShapedType, SameOwnedAll DEF Aside, SameSystem
<1>5. ASSUME NEW x \in TSK  PROVE ~WaitsFor(w, x, m)
  <2>1. w.wait_queue[m] = <<>>  BY <1>1, <1>2 DEF KState
  <2>2. ~InQueue(w.wait_queue[m], x)  BY <2>1 DEF InQueue
  <2>3. x \in TSK \ {}  OBVIOUS
  <2>4. QED  BY <1>3, <2>2, <2>3, QueueOfMutex
<1>6. OwnedBut(w, {}, {})  BY <1>4, OwnedAll
<1>7. CASE t = NULL
  <2>1. TakeBack(k, m) = w  BY <1>7 DEF TakeBack
  <2>2. \A x \in TSK : m \notin Holds(w, x)
    BY <1>4, <1>7, NullAssumption DEF Owned, OwnersOK
  <2> HIDE DEF w
  <2>3. OwnedBut(w, {}, {m})  BY <1>6, <2>2 DEF OwnedBut, OwnersOK
  <2>4. QED  BY <1>5, <2>1, <2>3
<1>8. CASE t # NULL
  <2>1. t \in TSK  BY <1>3, <1>8, MutexTypes
  <2>2. TakeBack(k, m) = r  BY <1>8 DEF TakeBack
  <2>3. w.loctsk[m] = t  OBVIOUS
  <2> HIDE DEF w, t
  <2> DEFINE s == queue_delete(w.lastmtx[t], m)
  <2>4. m \in Holds(w, t)  BY <1>4, <2>1, <2>3 DEF Owned, OwnersOK
  <2>5. /\ w.lastmtx[t] \in Seq(MTX) /\ InQueue(w.lastmtx[t], m) /\ Distinct(w.lastmtx[t])
    BY <1>3, <1>4, <2>1, <2>4, MutexTypes DEF Owned, OwnersOK
  <2>6. /\ Distinct(s) /\ s \in Seq(MTX)
        /\ \A x : InQueue(s, x) <=> InQueue(w.lastmtx[t], x) /\ x # m
    BY <2>5, QueueDelete
  <2>7. u = WithList(w, t, s)  BY <2>4 DEF UnlinkMutex, WithList
  <2> HIDE DEF s, u
  <2>8. u \in KState /\ u.tstat = w.tstat /\ u.wobj = w.wobj
    <3>1. [w.lastmtx EXCEPT ![t] = s] \in [TSK -> Seq(MTX)]  BY <1>3, <2>6, MutexTypes
    <3>2. QED  BY <1>3, <2>7, <3>1, ZenonT(60) DEF WithList, KState
  <2>9. OwnersOK(u, {m}) /\ CeilBut(u, t, {m}) /\ \A x \in TSK \ {t} : CeilOK(u, x)
    <3>1. OwnedBut(w, E, {})  BY <1>6
    <3>2. t \notin E  OBVIOUS
    <3> HIDE DEF E
    <3>3. Loses(u, E, t, m)  BY <1>3, <2>1, <2>3, <2>6, <2>7, <3>1, ListBut
    <3>4. QED  BY <3>2, <3>3 DEF Loses, E
  <2>10. /\ OwnedBut(r, {}, {m})
         /\ \A x \in TSK, y \in MTX : WaitsFor(r, x, y) <=> WaitsFor(u, x, y)
    BY <2>1, <2>8, <2>9, DropOwned
  <2>11. \A x \in TSK : ~WaitsFor(r, x, m)  BY <1>5, <2>8, <2>10 DEF WaitsFor
  <2>12. QED  BY <2>2, <2>10, <2>11
<1>9. QED  BY <1>7, <1>8

\* The data of a mutex nobody has, and nobody waits for, is set: it does not exist, or
\* has no owner.
MutexSet(k, r, m) ==
  /\ Shaped(r) /\ r.lastmtx = k.lastmtx
  /\ r.priority = k.priority /\ r.bpriority = k.bpriority
  /\ r.tstat = k.tstat /\ r.wobj = k.wobj
  /\ \A x \in MTX \ {m} : /\ r.wobjatr[x] = k.wobjatr[x] /\ r.loctsk[x] = k.loctsk[x]
                          /\ r.ceilpri[x] = k.ceilpri[x]
  /\ r.wobjatr[m] = "TA_NOEXS" \/ r.loctsk[m] = NULL

LEMMA MutexChange ==
  ASSUME NEW k, NEW m \in MTX, OwnedBut(k, {}, {m}), \A u \in TSK : ~WaitsFor(k, u, m),
         NEW r, MutexSet(k, r, m)
  PROVE  Owned(r)
<1> DEFINE Z == {}
<1>1. \A u : Holds(r, u) = Holds(k, u)  BY DEF Holds, MutexSet
<1>2. \A u, x : WaitsFor(r, u, x) <=> WaitsFor(k, u, x)  BY DEF WaitsFor, MutexSet
<1>3. OwnersOK(k, {m})  BY DEF OwnedBut
<1>4. \A u \in TSK : m \notin Holds(k, u)  BY <1>3 DEF OwnersOK
<1>5. OwnersOK(r, {})
  <2>1. \A u \in TSK : Distinct(r.lastmtx[u])  BY <1>3 DEF OwnersOK, MutexSet
  <2>2. ASSUME NEW x \in MTX, NEW u \in TSK
        PROVE  x \in Holds(r, u) <=> r.wobjatr[x] # "TA_NOEXS" /\ r.loctsk[x] = u
    <3>1. CASE x = m  BY <1>1, <1>4, <3>1, NullAssumption DEF MutexSet
    <3>2. CASE x # m  BY <1>1, <1>3, <3>2 DEF MutexSet, OwnersOK
    <3>3. QED  BY <3>1, <3>2
  <2>3. QED  BY <2>1, <2>2 DEF OwnersOK
<1>6. \A x \in MTX \ {m} : (MTX_CEILING(r, x) <=> MTX_CEILING(k, x)) /\ r.ceilpri[x] = k.ceilpri[x]
  BY DEF MTX_CEILING, MutexSet
<1>7. ASSUME NEW u \in TSK  PROVE CeilBut(r, u, Z)
  <2>1. CeilBut(k, u, Z) /\ ~WaitsFor(k, u, m) /\ m \notin Holds(k, u)
    BY <1>4 DEF OwnedBut, CeilOK
  <2>2. /\ r.priority[u] = k.priority[u] /\ r.bpriority[u] = k.bpriority[u]
        /\ \A x \in MTX \ {m} : r.loctsk[x] = k.loctsk[x]
    BY DEF MutexSet
  <2>3. /\ r.priority[u] <= r.bpriority[u]
        /\ \A x \in MTX : x \in Holds(r, u) /\ MTX_CEILING(r, x) =>
             r.priority[u] <= r.ceilpri[x] /\ r.ceilpri[x] <= r.bpriority[u]
    BY <1>1, <1>6, <2>1, <2>2 DEF CeilBut
  <2>4. \/ r.priority[u] = r.bpriority[u]
        \/ \E x \in MTX : /\ x \in Holds(r, u) \/ x \in Z
                          /\ MTX_CEILING(r, x) /\ r.priority[u] = r.ceilpri[x]
    BY <1>1, <1>6, <2>1, <2>2 DEF CeilBut
  <2>5. \A x \in MTX : WaitsFor(r, u, x) =>
          r.loctsk[x] \notin {NULL, u} /\ (MTX_CEILING(r, x) => r.ceilpri[x] <= r.bpriority[u])
    BY <1>2, <1>6, <2>1, <2>2 DEF CeilBut
  <2>6. QED  BY <2>3, <2>4, <2>5 DEF CeilBut
<1>8. QED  BY <1>5, <1>7 DEF Owned, CeilOK

----------------------------------------------------------------------------
(* The service calls on mutexes keep the invariant.                        *)

\* What the invariant between two calls gives.
LEMMA Between ==
  ASSUME NEW k, Good(k)
  PROVE  k \in KState /\ Shaped(k) /\ GoodBut(k, {})
<1>1. k \in KState  BY DEF Good, SchedInv
<1>2. QED  BY <1>1, ShapedType, GoodAll

\* A mutex nobody has is on its way to whoever takes it.
LEMMA FreeOwned ==
  ASSUME NEW k, Owned(k), NEW m \in MTX, k.wobjatr[m] = "TA_NOEXS" \/ k.loctsk[m] = NULL
  PROVE  OwnedBut(k, {}, {m})
<1>1. \A t \in TSK : m \notin Holds(k, t)
  BY NullAssumption DEF Owned, OwnersOK
<1>2. OwnersOK(k, {m})  BY <1>1 DEF Owned, OwnersOK
<1>3. QED  BY <1>2 DEF Owned, OwnedBut

LEMMA OwnersType ==
  ASSUME NEW k \in KState, NEW t \in TSK, NEW s \in Seq(MTX),
         NEW lo \in [MTX -> TSK \cup {NULL}]
  PROVE  WithOwners(k, t, s, lo) \in KState
<1>1. [k.lastmtx EXCEPT ![t] = s] \in [TSK -> Seq(MTX)]  BY DEF KState
<1>2. QED  BY <1>1 DEF KState, WithOwners

\* mutex_acquire by a task that waits for nothing.
LEMMA AcquireOwned ==
  ASSUME NEW k \in KState, Owned(k), NEW t \in TSK, ~TSTAT_WAITING(k, t), NEW m \in MTX,
         k.wobjatr[m] # "TA_NOEXS", k.loctsk[m] = NULL,
         MTX_CEILING(k, m) => k.ceilpri[m] <= k.bpriority[t]
  PROVE  Shaped(mutex_acquire(k, t, m)) /\ Owned(mutex_acquire(k, t, m))
<1> DEFINE lo == [k.loctsk EXCEPT ![m] = t]
           s == <<m>> \o k.lastmtx[t]
           a == [k EXCEPT !.loctsk[m] = t, !.lastmtx[t] = <<m>> \o @]
           p == k.ceilpri[m]
           c == change_priority(a, t, p, TRUE)
           r == mutex_acquire(k, t, m)
           E == {}
<1>1. s \in Seq(MTX) /\ lo \in [MTX -> TSK \cup {NULL}] /\ p \in PRI
  <2>1. k.lastmtx[t] \in Seq(MTX) /\ k.loctsk \in [MTX -> TSK \cup {NULL}] /\ p \in PRI
    BY MutexTypes
  <2>2. QED  BY <2>1
<1>2. /\ a.loctsk = lo /\ a.lastmtx = [k.lastmtx EXCEPT ![t] = s]
      /\ a.priority = k.priority /\ a.bpriority = k.bpriority /\ a.ceilpri = k.ceilpri
      /\ a.wobjatr = k.wobjatr /\ a.tstat = k.tstat /\ a.wobj = k.wobj
  BY DEF KState
<1>3. a \in KState
  <2>1. a = WithOwners(k, t, s, lo)  BY DEF KState, WithOwners
  <2> HIDE DEF a, s, lo
  <2>2. QED  BY <1>1, <2>1, OwnersType
<1>4. r = IF MTX_CEILING(k, m) /\ p < k.priority[t] THEN c ELSE a
  BY DEF mutex_acquire
<1> HIDE DEF a, s, lo
<1>5. Granted(k, r, t, m)
  <2>1. ASSUME NEW w, w.tstat = k.tstat, w.wobj = k.wobj, NEW u \in TSK, NEW x \in MTX,
               WaitsFor(w, u, x)
        PROVE  u # t /\ WaitsFor(k, u, x)
    BY <2>1 DEF WaitsFor, TSTAT_WAITING
  <2>2. CASE MTX_CEILING(k, m) /\ p < k.priority[t]
    <3>1. /\ c.priority = [a.priority EXCEPT ![t] = p] /\ c.tstat = a.tstat /\ c.wobj = a.wobj
          /\ c.lastmtx = a.lastmtx /\ c.loctsk = a.loctsk /\ Aside(a, c)
      <4>1. TRUE \in BOOLEAN  OBVIOUS
      <4>2. QED  BY <1>1, <1>3, <4>1, ChangePriorityFields, ZenonT(60)
    <3>2. Shaped(c)
      <4>1. Shaped(a)  BY <1>3, ShapedType
      <4>2. Shaped([a EXCEPT !.priority[t] = p])  BY <4>1 DEF Shaped
      <4>3. /\ Shaped(Requeue([a EXCEPT !.priority[t] = p], t, a.priority[t], p, TRUE))
            /\ Shaped(wobj_change_priority([a EXCEPT !.priority[t] = p], t))
        BY <4>2 DEF Shaped, Requeue, wobj_change_priority
      <4>4. c \in {Requeue([a EXCEPT !.priority[t] = p], t, a.priority[t], p, TRUE),
                   wobj_change_priority([a EXCEPT !.priority[t] = p], t),
                   [a EXCEPT !.priority[t] = p]}
        BY DEF change_priority
      <4>5. QED  BY <4>2, <4>3, <4>4
    <3>3. r = c  BY <1>4, <2>2
    <3> HIDE DEF c, r
    <3>4. c.bpriority = a.bpriority /\ c.ceilpri = a.ceilpri /\ c.wobjatr = a.wobjatr
      BY <3>1 DEF Aside, SameSystem
    <3>5. \A u \in TSK, x \in MTX : WaitsFor(c, u, x) => u # t /\ WaitsFor(k, u, x)
      BY <1>2, <2>1, <3>1
    <3>6. QED  BY <1>2, <2>2, <3>1, <3>2, <3>3, <3>4, <3>5 DEF Granted, lo, s
  <2>3. CASE ~(MTX_CEILING(k, m) /\ p < k.priority[t])
    <3>1. r = a  BY <1>4, <2>3
    <3>2. Shaped(a)  BY <1>3, ShapedType
    <3> HIDE DEF r
    <3>3. [k.priority EXCEPT ![t] = k.priority[t]] = k.priority  BY MutexTypes
    <3>4. QED  BY <1>2, <2>1, <2>3, <3>1, <3>2, <3>3 DEF Granted, lo, s
  <2>4. QED  BY <2>2, <2>3
<1> HIDE DEF r
<1>6. OwnedBut(k, {}, {m})  BY FreeOwned
<1>7. OwnedBut(r, E, {})
  <2>1. OwnedBut(k, E, {m}) /\ t \in TSK \ E  BY <1>6
  <2> HIDE DEF E
  <2>2. QED  BY <1>5, <2>1, GrantOwned
<1>8. Owned(r)  BY <1>7, OwnedAll
<1>9. QED  BY <1>5, <1>8 DEF Granted, r

LEMMA AcquiredOwned ==
  ASSUME IInv, Owned(ker), NEW m \in MTX, nest = 0, Self # NULL, MtxExists(m), CeilingAllows(m),
         ker.loctsk[m] = NULL, Acquired(m)
  PROVE  Owned(ker')
<1> DEFINE k == mutex_acquire(ker, Self, m)
           v == k.failed \/ k.runtsk # k.schedtsk
<1>1. ker \in KState /\ Self \in TSK /\ ~TSTAT_WAITING(ker, Self)
  BY RunningTask, Between DEF IInv
<1>2. MTX_CEILING(ker, m) => ker.ceilpri[m] <= ker.bpriority[Self]
  BY <1>1, MutexTypes DEF CeilingAllows
<1>3. Shaped(k) /\ Owned(k)
  BY <1>1, <1>2, AcquireOwned DEF MtxExists
<1>4. ker' = [k EXCEPT !.failed = @ \/ k.runtsk # k.schedtsk]  BY DEF Acquired
<1> HIDE DEF k
<1>5. SameMutexes(k, ker')
  <2>1. ker' = [k EXCEPT !.failed = v]  BY <1>4
  <2> HIDE DEF v
  <2>2. SameMutexes(k, [k EXCEPT !.failed = v])  BY OtherSame
  <2>3. QED  BY <2>1, <2>2
<1>6. QED  BY <1>3, <1>5, SameOwnedAll

\* The running task begins to wait for a mutex another one has.
LEMMA WaitOwned ==
  ASSUME NEW k \in KState, Owned(k), NEW t \in TSK, t = k.runtsk, NEW m \in MTX,
         k.loctsk[m] \notin {NULL, t}, MTX_CEILING(k, m) => k.ceilpri[m] <= k.bpriority[t],
         NEW r, Waiting(k, r, t, "MTX", [k.wobj EXCEPT ![t] = m])
  PROVE  Owned(r)
<1> DEFINE Z == {}
<1>1. DOMAIN k.tstat = TSK /\ DOMAIN k.wobj = TSK  BY ShapedType DEF Shaped
<1>2. \A u : Holds(r, u) = Holds(k, u)  BY DEF Holds, Waiting
<1>3. OwnersOK(r, {})  BY <1>2 DEF Owned, OwnersOK, Waiting
<1>4. /\ r.wobj[t] = m /\ \A u \in TSK \ {t} : r.wobj[u] = k.wobj[u] /\ r.tstat[u] = k.tstat[u]
  BY <1>1 DEF Waiting
<1>5. \A x \in MTX : MTX_CEILING(r, x) <=> MTX_CEILING(k, x)  BY DEF MTX_CEILING, Waiting
<1>6. CeilBut(r, t, Z)
  <2>1. CeilBut(k, t, Z)  BY DEF Owned, CeilOK
  <2>2. ASSUME NEW x \in MTX, WaitsFor(r, t, x)
        PROVE  r.loctsk[x] \notin {NULL, t} /\ (MTX_CEILING(r, x) => r.ceilpri[x] <= r.bpriority[t])
    <3>1. x = m  BY <1>4, <2>2 DEF WaitsFor
    <3>2. QED  BY <1>5, <3>1 DEF Waiting
  <2>3. QED  BY <1>2, <1>5, <2>1, <2>2 DEF CeilBut, Waiting
<1>7. ASSUME NEW u \in TSK \ {t}  PROVE CeilBut(r, u, Z)
  <2>1. CeilBut(k, u, Z)  BY DEF Owned, CeilOK
  <2> HIDE DEF Z
  <2>2. /\ r.priority[u] = k.priority[u] /\ r.bpriority[u] = k.bpriority[u]
        /\ r.lastmtx[u] = k.lastmtx[u] /\ r.ceilpri = k.ceilpri
        /\ \A x \in MTX : r.wobjatr[x] = k.wobjatr[x]
    BY DEF Waiting
  <2>3. \A x \in MTX : WaitsFor(r, u, x) =>
          WaitsFor(k, u, x) /\ (r.loctsk[x] = k.loctsk[x] \/ r.loctsk[x] \notin {NULL, u})
    BY <1>4 DEF WaitsFor, Waiting
  <2>4. QED  BY <2>1, <2>2, <2>3, CeilKept
<1>8. QED  BY <1>3, <1>6, <1>7 DEF Owned, CeilOK

LEMMA LocMtxOwned ==
  ASSUME IInv, Owned(ker), NEW m \in MTX, NEW tmo \in BOOLEAN, loc_mtx(m, tmo)
  PROVE  Owned(ker')
<1> DEFINE r == wobj_make_wait(ker, m, "MTX", tmo)
<1>1. nest = 0 /\ Self # NULL /\ MtxExists(m) /\ CeilingAllows(m)
  BY DEF loc_mtx, DispatchCall, TaskCall, TaskRuns
<1>2. ker \in KState /\ Self \in TSK  BY <1>1, RunningTask, Between DEF IInv
<1>3. CASE ker.loctsk[m] = NULL /\ Acquired(m)
  BY <1>1, <1>3, AcquiredOwned
<1>4. CASE ker.loctsk[m] \notin {NULL, Self} /\ Return(r)
  <2>1. Self = ker.runtsk /\ Shaped(ker) /\ "runtsk" \in DOMAIN ker
    BY <1>2, ShapedType DEF Self, KState
  <2>2. Waiting(ker, r, Self, "MTX", [ker.wobj EXCEPT ![Self] = m])
    BY <1>2, <2>1, MakeWaitShape
  <2>3. MTX_CEILING(ker, m) => ker.ceilpri[m] <= ker.bpriority[Self]
    BY <1>1, <1>2, MutexTypes DEF CeilingAllows
  <2> HIDE DEF r
  <2>4. Owned(r)  BY <1>2, <1>4, <2>1, <2>2, <2>3, WaitOwned
  <2>5. Shaped(r)  BY <2>2 DEF Waiting
  <2>6. QED  BY <1>4, <2>4, <2>5, ReturnOwned
<1>5. QED  BY <1>3, <1>4 DEF loc_mtx

LEMMA UnlMtxOwned ==
  ASSUME IInv, Owned(ker), NEW m \in MTX, unl_mtx(m)
  PROVE  Owned(ker')
<1> DEFINE t == Self
           s == Tail(ker.lastmtx[t])
           u == [ker EXCEPT !.lastmtx[t] = Tail(@)]
           c == mutex_drop_priority(u, t, m)
           E == {}
<1>1. /\ Good(ker) /\ ker \in KState /\ ker.lastmtx[t] # <<>> /\ m = Head(ker.lastmtx[t])
      /\ t \in TSK /\ ~TSTAT_DORMANT(ker, t)
  BY RunningTask, Between DEF IInv, unl_mtx, TaskCall, TaskRuns
<1>2. Return(mutex_release(c, m))  BY DEF unl_mtx
<1>3. s \in Seq(MTX) /\ ker.loctsk \in [MTX -> TSK \cup {NULL}]
  <2>1. ker.lastmtx[t] \in Seq(MTX)  BY <1>1, MutexTypes
  <2>2. QED  BY <1>1, <2>1, MutexTypes
<1>4. u = WithList(ker, t, s)  BY DEF WithList
<1>5. u = WithOwners(ker, t, s, ker.loctsk)
  BY <1>1 DEF WithOwners, KState
<1> HIDE DEF u, t
<1>6. Good(u)
  <2> HIDE DEF s
  <2>1. QED  BY <1>1, <1>3, <1>5, OwnersChange
<1>7. /\ OwnersOK(u, {m}) /\ CeilBut(u, t, {m}) /\ \A x \in TSK \ {t} : CeilOK(u, x)
      /\ u.wobjatr[m] # "TA_NOEXS"
  <2>1. OwnedBut(ker, E, {}) /\ t \notin E  BY OwnedAll
  <2> HIDE DEF E
  <2>2. Loses(u, E, t, m)  BY <1>1, <1>4, <2>1, ListLoses
  <2>3. u.wobjatr[m] # "TA_NOEXS"  BY <1>1, <1>4, <2>1, <2>2, ListLoses
  <2>4. QED  BY <2>1, <2>2, <2>3 DEF Loses, E
<1>8. u \in KState  BY <1>6, Between
<1>9. OwnedBut(c, {}, {m}) /\ c.wobjatr[m] # "TA_NOEXS"
  <2>1. OwnersOK(u, {m}) /\ CeilBut(u, t, {m}) /\ \A x \in TSK \ {t} : CeilOK(u, x)
    BY <1>7
  <2>2. t \in TSK  BY <1>1
  <2>3. OwnedBut(c, {}, {m}) /\ c.wobjatr = u.wobjatr
    BY <1>8, <2>1, <2>2, DropOwned
  <2>4. QED  BY <1>7, <2>3
<1>10. Good(c)  BY <1>1, <1>6, DropPriority
<1> HIDE DEF c
<1>11. OwnedBut(mutex_release(c, m), E, {})
  <2>1. GoodBut(c, E) /\ OwnedBut(c, E, {m})  BY <1>9, <1>10, GoodAll
  <2> HIDE DEF E
  <2>2. QED  BY <1>9, <2>1, ReleaseOwned
<1>12. Owned(mutex_release(c, m))  BY <1>11, OwnedAll
<1>13. Shaped(mutex_release(c, m))
  <2>1. GoodBut(c, E)  BY <1>10, GoodAll
  <2> HIDE DEF E
  <2>2. GoodBut(mutex_release(c, m), E)  BY <2>1, MutexReleaseBut
  <2>3. mutex_release(c, m) \in KState  BY <2>2 DEF GoodBut, SchedInv
  <2>4. QED  BY <2>3, ShapedType
<1>14. QED  BY <1>2, <1>12, <1>13, ReturnOwned

LEMMA AcreMtxOwned ==
  ASSUME IInv, Owned(ker), NEW m \in MTX, NEW atr \in {"TA_TFIFO", "TA_TPRI", "TA_CEILING"},
         NEW ceil \in PRI, acre_mtx(m, atr, ceil)
  PROVE  Owned(ker')
<1> DEFINE r == [ker EXCEPT !.free_mtxcb = Tail(@), !.wobjatr[m] = atr, !.ceilpri[m] = ceil,
                            !.wait_queue[m] = <<>>, !.loctsk[m] = NULL]
<1>1. /\ Good(ker) /\ ker \in KState /\ ker.free_mtxcb # <<>> /\ GoodBut(ker, {})
      /\ m = Head(ker.free_mtxcb) /\ ker.free_mtxcb \in Seq(MTX) /\ ker' = r
      /\ FreeList(ker.free_mtxcb, MTX, ker.wobjatr) /\ m \in OBJ
  <2>1. Good(ker) /\ ker \in KState /\ GoodBut(ker, {})  BY Between DEF IInv
  <2>2. ker.free_mtxcb # <<>> /\ m = Head(ker.free_mtxcb) /\ ker' = r  BY DEF acre_mtx
  <2>3. QED  BY <2>1, <2>2 DEF Good, SystemOK, KState, OBJ
<1>2. ker.wobjatr[m] = "TA_NOEXS"
  <2>1. Distinct(ker.free_mtxcb)  BY <1>1 DEF FreeList
  <2>2. InQueue(ker.free_mtxcb, m)  BY <1>1, <2>1, QueueTail
  <2>3. QED  BY <1>1, <2>2 DEF FreeList
<1>3. ASSUME NEW x \in TSK  PROVE ~WaitsFor(ker, x, m)
  <2>1. ker.wait_queue[m] = <<>>  BY <1>1, <1>2, NoObjectNoQueue
  <2>2. ~InQueue(ker.wait_queue[m], x)  BY <2>1 DEF InQueue
  <2>3. x \in TSK \ {}  OBVIOUS
  <2>4. QED  BY <1>1, <2>2, <2>3, QueueOfMutex
<1>4. OwnedBut(ker, {}, {m})  BY <1>2, FreeOwned
<1>5. /\ r.lastmtx = ker.lastmtx /\ r.priority = ker.priority /\ r.bpriority = ker.bpriority
      /\ r.tstat = ker.tstat /\ r.wobj = ker.wobj
      /\ r.wobjatr = [ker.wobjatr EXCEPT ![m] = atr]
      /\ r.ceilpri = [ker.ceilpri EXCEPT ![m] = ceil]
      /\ r.loctsk = [ker.loctsk EXCEPT ![m] = NULL]
  BY <1>1 DEF KState
<1>6. Shaped(r)
  <2>1. Shaped(ker)  BY <1>1, ShapedType
  <2>2. QED  BY <2>1 DEF Shaped
<1> HIDE DEF r
<1>7. MutexSet(ker, r, m)
  <2>1. DOMAIN ker.wobjatr = OBJ /\ DOMAIN ker.ceilpri = MTX /\ DOMAIN ker.loctsk = MTX
    BY <1>1 DEF KState
  <2>2. QED  BY <1>5, <1>6, <2>1 DEF MutexSet, OBJ
<1>8. Owned(r)  BY <1>3, <1>4, <1>7, MutexChange
<1>9. QED  BY <1>1, <1>8

LEMMA DelMtxOwned ==
  ASSUME IInv, Owned(ker), NEW m \in MTX, del_mtx(m)
  PROVE  Owned(ker')
<1> DEFINE i == TakeBack(ker, m)
           r == [i EXCEPT !.wobjatr[m] = "TA_NOEXS", !.free_mtxcb = Append(@, m)]
<1>1. Good(ker) /\ ker.wobjatr[m] # "TA_NOEXS" /\ Return(r)
  BY DEF IInv, del_mtx, MtxExists
<1>2. Good(i)  BY <1>1, TakenBack
<1>3. OwnedBut(i, {}, {m}) /\ \A x \in TSK : ~WaitsFor(i, x, m)
  BY <1>1, TakenBackOwned
<1> HIDE DEF i
<1>4. i \in KState /\ Shaped(i)  BY <1>2, Between
<1>5. /\ r.lastmtx = i.lastmtx /\ r.priority = i.priority /\ r.bpriority = i.bpriority
      /\ r.tstat = i.tstat /\ r.wobj = i.wobj /\ r.ceilpri = i.ceilpri /\ r.loctsk = i.loctsk
      /\ r.wobjatr = [i.wobjatr EXCEPT ![m] = "TA_NOEXS"] /\ DOMAIN i.wobjatr = OBJ
  BY <1>4 DEF KState
<1>6. Shaped(r)  BY <1>4 DEF Shaped
<1> HIDE DEF r
<1>7. MutexSet(i, r, m)  BY <1>5, <1>6 DEF MutexSet, OBJ
<1>8. Owned(r)  BY <1>3, <1>7, MutexChange
<1>9. QED  BY <1>1, <1>6, <1>8, ReturnOwned

LEMMA IniMtxOwned ==
  ASSUME IInv, Owned(ker), NEW m \in MTX, ini_mtx(m)
  PROVE  Owned(ker')
<1> DEFINE i == TakeBack(ker, m)
           r == [i EXCEPT !.loctsk[m] = NULL]
<1>1. Good(ker) /\ ker.wobjatr[m] # "TA_NOEXS" /\ Return(r)
  BY DEF IInv, ini_mtx, MtxExists
<1>2. Good(i)  BY <1>1, TakenBack
<1>3. OwnedBut(i, {}, {m}) /\ \A x \in TSK : ~WaitsFor(i, x, m)
  BY <1>1, TakenBackOwned
<1> HIDE DEF i
<1>4. i \in KState /\ Shaped(i)  BY <1>2, Between
<1>5. /\ r.lastmtx = i.lastmtx /\ r.priority = i.priority /\ r.bpriority = i.bpriority
      /\ r.tstat = i.tstat /\ r.wobj = i.wobj /\ r.ceilpri = i.ceilpri
      /\ r.loctsk = [i.loctsk EXCEPT ![m] = NULL] /\ r.wobjatr = i.wobjatr
      /\ DOMAIN i.loctsk = MTX
  BY <1>4 DEF KState
<1>6. Shaped(r)  BY <1>4 DEF Shaped
<1> HIDE DEF r
<1>7. MutexSet(i, r, m)  BY <1>5, <1>6 DEF MutexSet
<1>8. Owned(r)  BY <1>3, <1>7, MutexChange
<1>9. QED  BY <1>1, <1>6, <1>8, ReturnOwned

LEMMA MutexStepOwned ==
  ASSUME IInv, Owned(ker), MutexStep
  PROVE  Owned(ker')
<1>1. ASSUME NEW m \in MTX, NEW atr \in {"TA_TFIFO", "TA_TPRI", "TA_CEILING"},
             NEW ceil \in PRI, acre_mtx(m, atr, ceil)
      PROVE  Owned(ker')
  BY <1>1, AcreMtxOwned
<1>2. ASSUME NEW m \in MTX, ploc_mtx(m)  PROVE Owned(ker')
  BY <1>2, AcquiredOwned DEF ploc_mtx, TaskCall, TaskRuns
<1>3. ASSUME NEW m \in MTX, \/ del_mtx(m) \/ unl_mtx(m) \/ ini_mtx(m)
                            \/ \E tmo \in BOOLEAN : loc_mtx(m, tmo)
      PROVE  Owned(ker')
  BY <1>3, DelMtxOwned, UnlMtxOwned, IniMtxOwned, LocMtxOwned
<1>4. QED  BY <1>1, <1>2, <1>3 DEF MutexStep

----------------------------------------------------------------------------
(* The service calls on tasks keep the invariant.                          *)

\* The base priority changes to one that no ceiling forbids.
LEMMA BaseOwned ==
  ASSUME NEW k, Good(k), Owned(k), NEW t \in TSK, NEW pri \in PRI,
         k.lastmtx[t] # <<>> \/ TSTAT_WAIT_MTX(k, t) => mutex_check_ceilpri(k, t, pri)
  PROVE  /\ Shaped(ChangeBasePriority(k, t, pri))
         /\ Owned(ChangeBasePriority(k, t, pri))
<1> DEFINE b == [k EXCEPT !.bpriority[t] = pri]
           c == change_priority(b, t, pri, FALSE)
           r == ChangeBasePriority(k, t, pri)
           Z == {}
<1>1. k \in KState  BY Between
<1>2. Shaped(r)
  <2>1. Good(r)  BY BasePriority
  <2> HIDE DEF r
  <2>2. QED  BY <2>1, Between
<1>3. r = IF k.lastmtx[t] # <<>> /\ mutex_scan_ceilmtx(b, t) THEN b ELSE c
  BY DEF ChangeBasePriority
<1>4. /\ b \in KState /\ b.lastmtx = k.lastmtx /\ b.loctsk = k.loctsk /\ b.ceilpri = k.ceilpri
      /\ b.priority = k.priority /\ b.bpriority = [k.bpriority EXCEPT ![t] = pri]
      /\ b.wobjatr = k.wobjatr /\ b.tstat = k.tstat /\ b.wobj = k.wobj
  BY <1>1 DEF KState
<1> HIDE DEF b, r
<1>5. /\ c.priority = [k.priority EXCEPT ![t] = pri] /\ c.tstat = k.tstat /\ c.wobj = k.wobj
      /\ c.lastmtx = k.lastmtx /\ c.loctsk = k.loctsk /\ c.ceilpri = k.ceilpri
      /\ c.bpriority = b.bpriority /\ c.wobjatr = k.wobjatr
  <2>1. FALSE \in BOOLEAN /\ b \in KState  BY <1>4
  <2>2. /\ c.priority = [b.priority EXCEPT ![t] = pri] /\ c.tstat = b.tstat /\ c.wobj = b.wobj
        /\ c.lastmtx = b.lastmtx /\ c.loctsk = b.loctsk /\ Aside(b, c)
    BY <2>1, ChangePriorityFields
  <2> HIDE DEF c
  <2>3. QED  BY <1>4, <2>2 DEF Aside, SameSystem
<1> HIDE DEF c
<1>6. /\ r.lastmtx = k.lastmtx /\ r.loctsk = k.loctsk /\ r.ceilpri = k.ceilpri
      /\ r.wobjatr = k.wobjatr /\ r.tstat = k.tstat /\ r.wobj = k.wobj
      /\ r.bpriority = [k.bpriority EXCEPT ![t] = pri]
      /\ r.priority \in {k.priority, [k.priority EXCEPT ![t] = pri]}
  BY <1>3, <1>4, <1>5
<1>7. /\ r.bpriority[t] = pri
      /\ \A u \in TSK \ {t} : r.bpriority[u] = k.bpriority[u] /\ r.priority[u] = k.priority[u]
  BY <1>1, <1>6, MutexTypes
<1>8. /\ \A u : Holds(r, u) = Holds(k, u) /\ Holds(b, u) = Holds(k, u)
      /\ \A m \in MTX : MTX_CEILING(r, m) <=> MTX_CEILING(k, m)
      /\ \A m \in MTX : MTX_CEILING(b, m) <=> MTX_CEILING(k, m)
      /\ \A u, m : WaitsFor(r, u, m) <=> WaitsFor(k, u, m)
  BY <1>4, <1>6 DEF Holds, MTX_CEILING, WaitsFor
<1>9. OwnersOK(r, {})  BY <1>6, <1>8 DEF Owned, OwnersOK
<1>10. CeilBut(r, t, Z)
  <2> DEFINE H == {m \in MTX : m \in Holds(k, t) /\ MTX_CEILING(k, m)}
  <2>1. /\ CeilBut(k, t, Z) /\ k.priority[t] \in Int /\ k.bpriority[t] \in Int /\ pri \in Int
        /\ Holds(k, t) \subseteq MTX /\ \A m \in MTX : k.ceilpri[m] \in Int
    BY <1>1, MutexTypes DEF Owned, CeilOK
  <2>2. \A m \in MTX : m \in Holds(k, t) /\ MTX_CEILING(k, m) => k.ceilpri[m] <= pri
    <3>1. ASSUME NEW m \in MTX, m \in Holds(k, t), MTX_CEILING(k, m)
          PROVE  k.ceilpri[m] <= pri
      <4>1. k.lastmtx[t] # <<>>  BY <3>1 DEF Holds
      <4>2. pri >= k.ceilpri[m]  BY <3>1, <4>1 DEF mutex_check_ceilpri
      <4>3. QED  BY <2>1, <4>2
    <3>2. QED  BY <3>1
  <2>3. ASSUME NEW m \in MTX, WaitsFor(r, t, m)
        PROVE  r.loctsk[m] \notin {NULL, t} /\ (MTX_CEILING(r, m) => r.ceilpri[m] <= r.bpriority[t])
    <3>1. WaitsFor(k, t, m)  BY <1>8, <2>3
    <3>2. k.loctsk[m] \notin {NULL, t}  BY <2>1, <3>1 DEF CeilBut
    <3>3. ASSUME MTX_CEILING(k, m)  PROVE k.ceilpri[m] <= pri
      <4>1. pri >= k.ceilpri[m]
        BY <3>1, <3>3 DEF WaitsFor, mutex_check_ceilpri, TSTAT_WAIT_MTX
      <4>2. QED  BY <2>1, <4>1
    <3>4. QED  BY <1>6, <1>7, <1>8, <3>2, <3>3
  <2>4. CASE H # {}
    <3>1. PICK h \in MTX : h \in Holds(k, t) /\ MTX_CEILING(k, h)  BY <2>4
    <3>2. k.lastmtx[t] # <<>> /\ mutex_scan_ceilmtx(b, t)
      <4>1. k.lastmtx[t] # <<>>  BY <3>1 DEF Holds
      <4>2. h \in Holds(b, t) /\ MTX_CEILING(b, h)  BY <1>8, <3>1
      <4>3. QED  BY <4>1, <4>2 DEF mutex_scan_ceilmtx
    <3>3. r.priority = k.priority  BY <1>3, <1>4, <3>2
    <3>4. k.priority[t] <= k.ceilpri[h] /\ k.ceilpri[h] <= k.bpriority[t]
      BY <2>1, <3>1 DEF CeilBut
    <3>5. k.ceilpri[h] <= pri /\ k.ceilpri[h] \in Int  BY <2>1, <2>2, <3>1
    <3>6. r.priority[t] <= r.bpriority[t]  BY <1>7, <2>1, <3>3, <3>4, <3>5
    <3>7. \E m \in MTX : m \in Holds(k, t) /\ MTX_CEILING(k, m) /\ k.priority[t] = k.ceilpri[m]
      <4>1. CASE k.priority[t] = k.bpriority[t]
        <5>1. k.priority[t] = k.ceilpri[h]  BY <2>1, <3>4, <3>5, <4>1
        <5>2. QED  BY <3>1, <5>1
      <4>2. CASE k.priority[t] # k.bpriority[t]
        BY <2>1, <4>2 DEF CeilBut
      <4>3. QED  BY <4>1, <4>2
    <3>8. QED  BY <1>6, <1>7, <1>8, <2>1, <2>2, <2>3, <3>3, <3>6, <3>7 DEF CeilBut
  <2>5. CASE H = {}
    <3>1. \A m \in MTX : ~(m \in Holds(r, t) /\ MTX_CEILING(r, m))  BY <1>8, <2>5
    <3>2. ~mutex_scan_ceilmtx(b, t)
      BY <1>8, <2>1, <2>5 DEF mutex_scan_ceilmtx
    <3>3. r = c  BY <1>3, <3>2
    <3>4. r.priority[t] = pri  BY <1>1, <1>5, <3>3, MutexTypes
    <3>5. QED  BY <1>7, <2>1, <2>3, <3>1, <3>4 DEF CeilBut
  <2>6. QED  BY <2>4, <2>5
<1>11. ASSUME NEW u \in TSK \ {t}  PROVE CeilBut(r, u, Z)
  <2>1. CeilBut(k, u, Z)  BY DEF Owned, CeilOK
  <2> HIDE DEF Z
  <2>2. /\ r.priority[u] = k.priority[u] /\ r.bpriority[u] = k.bpriority[u]
        /\ r.lastmtx[u] = k.lastmtx[u] /\ r.ceilpri = k.ceilpri
        /\ \A x \in MTX : r.wobjatr[x] = k.wobjatr[x]
    BY <1>6, <1>7
  <2>3. \A x \in MTX : WaitsFor(r, u, x) =>
          WaitsFor(k, u, x) /\ (r.loctsk[x] = k.loctsk[x] \/ r.loctsk[x] \notin {NULL, u})
    BY <1>6, <1>8
  <2>4. QED  BY <2>1, <2>2, <2>3, CeilKept
<1>12. Owned(r)  BY <1>9, <1>10, <1>11 DEF Owned, CeilOK
<1>13. QED  BY <1>2, <1>12 DEF r

LEMMA ChgPriOwned ==
  ASSUME IInv, Owned(ker), NEW t \in TSK, NEW pri \in PRI, chg_pri(t, pri)
  PROVE  Owned(ker')
<1> DEFINE r == ChangeBasePriority(ker, t, pri)
<1>1. Good(ker) /\ ChgPriAccepted(t, pri) /\ Return(r)  BY DEF IInv, chg_pri
<1>2. Shaped(r) /\ Owned(r)  BY <1>1, BaseOwned DEF ChgPriAccepted
<1> HIDE DEF r
<1>3. QED  BY <1>1, <1>2, ReturnOwned

LEMMA ChgPriIniLockedOwned ==
  ASSUME IInv, Owned(ker), chg_pri_ini_locked
  PROVE  Owned(ker')
<1> DEFINE c == ker.pending[Self]
           k == [ker EXCEPT !.pending[Self] = IDLE]
           r == ChangeBasePriority(k, c.tsk, c.pri)
<1>1. /\ Good(ker) /\ ker \in KState /\ nest = 0 /\ Self # NULL /\ c.call # "none"
  BY Between DEF IInv, chg_pri_ini_locked
<1>2. Self \in TSK /\ ~TSTAT_DORMANT(ker, Self)  BY <1>1, RunningTask
<1>3. c.tsk \in TSK /\ c.pri \in PRI  BY <1>1, <1>2, PendingType
<1>4. Good(k)  BY <1>1, <1>2, Pending
<1>5. SameMutexes(ker, k)  BY OtherSame
<1>6. Return(IF ChgPriAccepted(c.tsk, c.pri) THEN r ELSE k)
  BY DEF chg_pri_ini_locked
<1>7. /\ k.lastmtx = ker.lastmtx /\ k.tstat = ker.tstat /\ k.wobjatr = ker.wobjatr
      /\ k.ceilpri = ker.ceilpri /\ k.wobj = ker.wobj
  BY <1>1 DEF KState
<1> HIDE DEF k, c
<1>8. Shaped(k) /\ Owned(k)  BY <1>1, <1>5, ShapedType, SameOwnedAll
<1>9. ASSUME ChgPriAccepted(c.tsk, c.pri)  PROVE Shaped(r) /\ Owned(r)
  <2>1. k.lastmtx[c.tsk] # <<>> \/ TSTAT_WAIT_MTX(k, c.tsk)
          => mutex_check_ceilpri(k, c.tsk, c.pri)
    BY <1>7, <1>9 DEF ChgPriAccepted, TSTAT_WAIT_MTX, mutex_check_ceilpri, Holds, MTX_CEILING
  <2>2. QED  BY <1>3, <1>4, <1>8, <2>1, BaseOwned
<1> HIDE DEF r
<1>10. CASE ChgPriAccepted(c.tsk, c.pri)
  BY <1>6, <1>9, <1>10, ReturnOwned
<1>11. CASE ~ChgPriAccepted(c.tsk, c.pri)
  BY <1>6, <1>8, <1>11, ReturnOwned
<1>12. QED  BY <1>10, <1>11

\* A call that changes nothing of the mutexes.
LEMMA CallSame ==
  ASSUME IInv, Owned(ker), NEW k, SameMutexes(ker, k), Return(k) \/ ExitAndDispatch(k) \/ ker' = k
  PROVE  Owned(ker')
<1>1. Shaped(ker)  BY Between DEF IInv
<1>2. Shaped(k) /\ Owned(k)  BY <1>1, SameOwnedAll
<1>3. QED  BY <1>2, ReturnOwned

\* A task that was waiting is made runnable without the state in between.
LEMMA LeftSame ==
  ASSUME NEW k, NEW t \in TSK, NEW e
  PROVE  SameMutexes(k, [SetWercd(k, t, e) EXCEPT !.tstat[t] = TS_RUNNABLE])
<1> DEFINE d == SetWercd(k, t, e)
           s == TS_RUNNABLE
           r == [d EXCEPT !.tstat[t] = s]
<1>1. s.wai = "none"  BY StateConstants
<1>2. ASSUME Shaped(k)
      PROVE  /\ Shaped(d) /\ d.lastmtx = k.lastmtx /\ d.loctsk = k.loctsk
             /\ d.ceilpri = k.ceilpri /\ d.priority = k.priority /\ d.bpriority = k.bpriority
             /\ d.wobjatr = k.wobjatr /\ d.wobj = [k.wobj EXCEPT ![t] = NULL]
             /\ d.tstat = k.tstat /\ DOMAIN k.tstat = TSK /\ DOMAIN k.wobj = TSK
  BY <1>2 DEF Shaped, SetWercd
<1> HIDE DEF d, s
<1>3. ASSUME Shaped(d)
      PROVE  /\ Shaped(r) /\ r.lastmtx = d.lastmtx /\ r.loctsk = d.loctsk
             /\ r.ceilpri = d.ceilpri /\ r.priority = d.priority /\ r.bpriority = d.bpriority
             /\ r.wobjatr = d.wobjatr /\ r.wobj = d.wobj
             /\ r.tstat = [d.tstat EXCEPT ![t] = s]
  BY <1>3 DEF Shaped
<1> HIDE DEF r
<1>4. SameMutexes(k, r)  BY <1>1, <1>2, <1>3 DEF SameMutexes, WaitsFor
<1>5. QED  BY <1>4 DEF r, d, s

LEMMA AbandonSame ==
  ASSUME NEW k, NEW t \in TSK
  PROVE  SameMutexes(k, AbandonWait(k, t))
<1> DEFINE b == wait_dequeue_wobj(k, t)
           c == wait_dequeue_tmevtb(b, t)
           w == SetWercd(c, t, "E_RASTER")
           d == [w EXCEPT !.tstat[t] = TS_RUNNABLE]
           f == [k EXCEPT !.tstat[t] = TS_RUNNABLE]
<1>1. AbandonWait(k, t) \in {make_runnable(d, t), make_runnable(f, t)}
  BY DEF AbandonWait
<1>2. SameMutexes(k, c)
  <2>1. SameMutexes(k, b) /\ SameMutexes(b, c)  BY DequeueSame
  <2> HIDE DEF b, c
  <2>2. QED  BY <2>1, SameTrans
<1> HIDE DEF c
<1>3. SameMutexes(c, d)  BY LeftSame
<1>4. SameMutexes(k, f)
  <2> DEFINE s == TS_RUNNABLE
  <2>1. s.wai \in {"none", k.tstat[t].wai}  BY StateConstants
  <2> HIDE DEF s
  <2>2. SameMutexes(k, [k EXCEPT !.tstat[t] = s])  BY <2>1, StateSame
  <2>3. QED  BY <2>2 DEF s
<1> HIDE DEF d, f
<1>5. SameMutexes(d, make_runnable(d, t)) /\ SameMutexes(f, make_runnable(f, t))
  BY RunnableSame
<1>6. SameMutexes(k, make_runnable(d, t)) /\ SameMutexes(k, make_runnable(f, t))
  BY <1>2, <1>3, <1>4, <1>5, SameTrans
<1>7. QED  BY <1>1, <1>6

LEMMA AcreTskOwned ==
  ASSUME IInv, Owned(ker), NEW atr \in {"TA_NULL", "TA_NOACTQUE"}, NEW act \in BOOLEAN,
         NEW pri \in PRI, acre_tsk(atr, act, pri)
  PROVE  Owned(ker')
<1> DEFINE t == Head(ker.free_tcb)
           k == [ker EXCEPT !.free_tcb = Tail(@), !.tskatr[t] = atr,
                            !.ipriority[t] = pri, !.actque[t] = FALSE, !.lastmtx[t] = <<>>]
           d == make_dormant(k, t)
<1>1. /\ Good(ker) /\ ker \in KState /\ ker.free_tcb # <<>>
      /\ Distinct(ker.free_tcb) /\ ker.free_tcb \in Seq(TSK)
  BY DEF IInv, Good, SchedInv, SystemOK, FreeList, acre_tsk, KState
<1>2. t \in TSK /\ InQueue(ker.free_tcb, t) /\ Tail(ker.free_tcb) \in Seq(TSK)
  BY <1>1, QueueTail
<1>3. ker.lastmtx[t] = <<>>
  <2>1. ker.tskatr[t] = "TA_NOEXS" /\ TaskOK(ker, t)
    BY <1>1, <1>2 DEF Good, SystemOK, FreeList
  <2>2. QED  BY <2>1 DEF TaskOK
<1>4. Return(IF act THEN make_active(d, t) ELSE d)
  BY DEF acre_tsk
<1> HIDE DEF t
<1>5. k \in KState
  <2>1. [ker.tskatr EXCEPT ![t] = atr] \in [TSK -> {"TA_NOEXS", "TA_NULL", "TA_NOACTQUE"}]
    BY <1>1, <1>2 DEF KState
  <2>2. [ker.ipriority EXCEPT ![t] = pri] \in [TSK -> PRI]  BY <1>1, <1>2 DEF KState
  <2>3. [ker.actque EXCEPT ![t] = FALSE] \in [TSK -> BOOLEAN]  BY <1>1, <1>2 DEF KState
  <2>4. [ker.lastmtx EXCEPT ![t] = <<>>] \in [TSK -> Seq(MTX)]  BY <1>1, <1>2 DEF KState
  <2>5. QED  BY <1>1, <1>2, <2>1, <2>2, <2>3, <2>4, ZenonT(60) DEF KState
<1>6. /\ k.lastmtx = ker.lastmtx /\ k.loctsk = ker.loctsk /\ k.ceilpri = ker.ceilpri
      /\ k.priority = ker.priority /\ k.bpriority = ker.bpriority
      /\ k.wobjatr = ker.wobjatr /\ k.tstat = ker.tstat /\ k.wobj = ker.wobj
  <2>1. [ker.lastmtx EXCEPT ![t] = <<>>] = ker.lastmtx  BY <1>1, <1>2, <1>3, MutexTypes
  <2>2. QED  BY <1>1, <2>1 DEF KState
<1> HIDE DEF k
<1>7. SameMutexes(ker, k)
  BY <1>5, <1>6, ShapedType DEF SameMutexes, WaitsFor
<1>8. Owned(k)  BY <1>1, <1>7, ShapedType, SameOwnedAll
<1>9. OwnedBut(k, {t}, {}) /\ k.lastmtx[t] = <<>>
  BY <1>3, <1>6, <1>8 DEF Owned, OwnedBut
<1>10. Shaped(d) /\ Owned(d)  BY <1>2, <1>5, <1>9, DormantOwned
<1> HIDE DEF d
<1>11. Shaped(make_active(d, t)) /\ Owned(make_active(d, t))
  BY <1>2, <1>10, MakeActiveSame, SameOwnedAll
<1>12. QED  BY <1>4, <1>10, <1>11, ReturnOwned

LEMMA DelTskOwned ==
  ASSUME IInv, Owned(ker), NEW t \in TSK, del_tsk(t)
  PROVE  Owned(ker')
<1> DEFINE v == "TA_NOEXS"
           w == Append(ker.free_tcb, t)
<1>1. ker' = [ker EXCEPT !.tskatr[t] = v, !.free_tcb = w]  BY DEF del_tsk
<1> HIDE DEF v, w
<1>2. SameMutexes(ker, [ker EXCEPT !.tskatr[t] = v, !.free_tcb = w])  BY OtherSame
<1>3. QED  BY <1>1, <1>2, CallSame

LEMMA ActTskOwned ==
  ASSUME IInv, Owned(ker), NEW t \in TSK, act_tsk(t)
  PROVE  Owned(ker')
<1>1. SameMutexes(ker, make_active(ker, t))  BY MakeActiveSame
<1>2. SameMutexes(ker, [ker EXCEPT !.actque[t] = TRUE])  BY OtherSame
<1>3. Return(make_active(ker, t)) \/ ker' = [ker EXCEPT !.actque[t] = TRUE]
  BY DEF act_tsk
<1>4. QED  BY <1>1, <1>2, <1>3, CallSame

LEMMA CanActOwned ==
  ASSUME IInv, Owned(ker), NEW t \in TSK, can_act(t)
  PROVE  Owned(ker')
<1>1. SameMutexes(ker, [ker EXCEPT !.actque[t] = FALSE])  BY OtherSame
<1>2. QED  BY <1>1, CallSame DEF can_act

LEMMA ChgPriIniOwned ==
  ASSUME IInv, Owned(ker), NEW t \in TSK, chg_pri_ini(t)
  PROVE  Owned(ker')
<1> DEFINE v == [call |-> "chg_pri", tsk |-> t, pri |-> ker.ipriority[t]]
<1>1. ker' = [ker EXCEPT !.pending[Self] = v]  BY DEF chg_pri_ini
<1> HIDE DEF v
<1>2. SameMutexes(ker, [ker EXCEPT !.pending[Self] = v])  BY OtherSame
<1>3. QED  BY <1>1, <1>2, CallSame

LEMMA SlpTskOwned ==
  ASSUME IInv, Owned(ker), NEW tmo \in BOOLEAN, slp_tsk(tmo) \/ dly_tsk
  PROVE  Owned(ker')
<1>1. ker \in KState /\ nest = 0 /\ Self # NULL
  BY Between DEF IInv, slp_tsk, dly_tsk, DispatchCall, TaskCall, TaskRuns
<1>2. ker.runtsk \in TSK  BY <1>1, RunningTask DEF Self
<1>3. "SLP" \in FACTOR /\ "DLY" \in FACTOR /\ "SLP" # "MTX" /\ "DLY" # "MTX"  BY DEF FACTOR
<1>4. SameMutexes(ker, make_wait(ker, "SLP", tmo)) /\ SameMutexes(ker, make_wait(ker, "DLY", TRUE))
  BY <1>1, <1>2, <1>3, MakeWaitSame
<1>5. SameMutexes(ker, [ker EXCEPT !.wupque[Self] = FALSE])  BY OtherSame
<1>6. \/ Return(make_wait(ker, "SLP", tmo)) \/ Return(make_wait(ker, "DLY", TRUE))
      \/ ker' = [ker EXCEPT !.wupque[Self] = FALSE]
  BY DEF slp_tsk, dly_tsk
<1>7. QED  BY <1>4, <1>5, <1>6, CallSame

LEMMA WupTskOwned ==
  ASSUME IInv, Owned(ker), NEW t \in TSK, wup_tsk(t) \/ can_wup(t)
  PROVE  Owned(ker')
<1>1. SameMutexes(ker, wait_complete(ker, t))
  BY EndedSame DEF wait_complete
<1>2. SameMutexes(ker, [ker EXCEPT !.wupque[t] = TRUE])  BY OtherSame
<1>3. SameMutexes(ker, [ker EXCEPT !.wupque[t] = FALSE])  BY OtherSame
<1>4. \/ Return(wait_complete(ker, t)) \/ ker' = [ker EXCEPT !.wupque[t] = TRUE]
      \/ ker' = [ker EXCEPT !.wupque[t] = FALSE]
  BY DEF wup_tsk, can_wup
<1>5. QED  BY <1>1, <1>2, <1>3, <1>4, CallSame

LEMMA RelWaiOwned ==
  ASSUME IInv, Owned(ker), NEW t \in TSK, rel_wai(t)
  PROVE  Owned(ker')
<1>1. SameMutexes(ker, make_non_wait(EndedWait(ker, t, "E_RLWAI"), t))  BY EndedSame
<1>2. Return(make_non_wait(EndedWait(ker, t, "E_RLWAI"), t))  BY DEF rel_wai, EndedWait
<1>3. QED  BY <1>1, <1>2, CallSame

LEMMA SusTskOwned ==
  ASSUME IInv, Owned(ker), NEW t \in TSK, sus_tsk(t) \/ rsm_tsk(t)
  PROVE  Owned(ker')
<1> DEFINE S(s) == [ker EXCEPT !.tstat[t] = s]
           a == [ker.tstat[t] EXCEPT !.sus = TRUE]
           b == [ker.tstat[t] EXCEPT !.sus = FALSE]
<1>1. ker.tstat[t] \in TSTAT  BY Between DEF IInv, KState
<1>2. a.wai = ker.tstat[t].wai /\ b.wai = ker.tstat[t].wai
  BY <1>1 DEF TSTAT
<1>3. /\ [ker EXCEPT !.tstat[t].sus = TRUE] = S(a)
      /\ [ker EXCEPT !.tstat[t].sus = FALSE] = S(b)
  OBVIOUS
<1> HIDE DEF a, b
<1>4. ASSUME NEW s, s.wai \in {"none", ker.tstat[t].wai}
      PROVE  /\ SameMutexes(ker, S(s)) /\ SameMutexes(ker, make_runnable(S(s), t))
             /\ SameMutexes(ker, make_non_runnable(S(s), t))
  <2>1. SameMutexes(ker, S(s))  BY <1>4, StateSame
  <2> HIDE DEF S
  <2>2. QED  BY <2>1, RunnableSame, SameTrans
<1>5. TS_SUSPENDED.wai = "none" /\ TS_RUNNABLE.wai = "none"  BY StateConstants
<1>6. \/ Return(make_non_runnable(S(TS_SUSPENDED), t)) \/ Return(S(a)) \/ Return(S(b))
      \/ Return(make_runnable(S(TS_RUNNABLE), t))
  BY <1>3 DEF sus_tsk, rsm_tsk
<1> HIDE DEF S
<1>7. /\ SameMutexes(ker, make_non_runnable(S(TS_SUSPENDED), t))
      /\ SameMutexes(ker, S(a)) /\ SameMutexes(ker, S(b))
      /\ SameMutexes(ker, make_runnable(S(TS_RUNNABLE), t))
  BY <1>2, <1>4, <1>5
<1>8. QED  BY <1>6, <1>7, CallSame

LEMMA RasTerOwned ==
  ASSUME IInv, Owned(ker), NEW t \in TSK, ras_ter(t) \/ ter_tsk(t)
  PROVE  Owned(ker')
<1> DEFINE k == [ker EXCEPT !.raster[t] = TRUE]
<1>1. /\ Good(ker) /\ nest = 0 /\ Self # NULL /\ t # Self /\ ~TSTAT_DORMANT(ker, t)
  BY DEF IInv, ras_ter, ter_tsk, TaskCall, TaskRuns
<1>2. \/ Return(task_terminate(ker, t)) \/ Return(k) \/ Return(AbandonWait(k, t))
  BY DEF ras_ter, ter_tsk
<1>3. t # ker.schedtsk  BY <1>1, RunningTask
<1>4. Shaped(task_terminate(ker, t)) /\ Owned(task_terminate(ker, t))
  BY <1>1, <1>3, TerminateOwned
<1>5. SameMutexes(ker, k)  BY OtherSame
<1> HIDE DEF k
<1>6. SameMutexes(ker, AbandonWait(k, t))  BY <1>5, AbandonSame, SameTrans
<1>7. QED  BY <1>2, <1>4, <1>5, <1>6, CallSame, ReturnOwned

\* Dispatching becomes possible again, and the running task may end.
LEMMA EnabledOwned ==
  ASSUME IInv, Owned(ker), nest = 0, Self # NULL, NEW k \in KState,
         k = [ker EXCEPT !.enadsp = TRUE, !.ipm = FALSE]
  PROVE  LET s == set_dspflg(k) IN
         /\ Shaped(s) /\ Owned(s)
         /\ Shaped(task_terminate(s, Self)) /\ Owned(task_terminate(s, Self))
<1> DEFINE s == set_dspflg(k)
<1>1. Good(s) /\ s.dspflg /\ s.tstat = ker.tstat  BY Enable
<1>2. Self \in TSK /\ ~TSTAT_DORMANT(s, Self)
  BY <1>1, RunningTask DEF TSTAT_DORMANT
<1>3. SameMutexes(ker, s)
  <2> DEFINE v == TRUE
             w == FALSE
  <2>1. SameMutexes(ker, [ker EXCEPT !.enadsp = v, !.ipm = w])  BY OtherSame
  <2>2. SameMutexes(ker, k)  BY <2>1
  <2>3. QED  BY <2>2, RotateSame, SameTrans
<1>4. Shaped(ker)  BY Between DEF IInv
<1> HIDE DEF s
<1>5. Shaped(s) /\ Owned(s)  BY <1>3, <1>4, SameOwnedAll
<1>6. Shaped(task_terminate(s, Self)) /\ Owned(task_terminate(s, Self))
  BY <1>1, <1>2, <1>5, TerminateOwned
<1>7. QED  BY <1>5, <1>6 DEF s

LEMMA ReenableOwned ==
  ASSUME IInv, Owned(ker), nest = 0, Self # NULL, NEW k \in KState,
         k = [ker EXCEPT !.enadsp = TRUE, !.ipm = FALSE], Reenable(k)
  PROVE  Owned(ker')
<1> DEFINE s == set_dspflg(k)
<1>1. /\ Shaped(s) /\ Owned(s)
      /\ Shaped(task_terminate(s, Self)) /\ Owned(task_terminate(s, Self))
  BY EnabledOwned
<1>2. ExitAndDispatch(task_terminate(s, Self)) \/ Return(s)
  BY DEF Reenable
<1> HIDE DEF s
<1>3. QED  BY <1>1, <1>2, ReturnOwned

LEMMA EnaDspOwned ==
  ASSUME IInv, Owned(ker), ena_dsp
  PROVE  Owned(ker')
<1> DEFINE k == [ker EXCEPT !.enadsp = TRUE]
<1>1. /\ nest = 0 /\ Self # NULL /\ ker \in KState /\ ker.ipm \in BOOLEAN
  BY DEF IInv, Good, SchedInv, ena_dsp, TaskCall, TaskRuns, KState
<1>2. k \in KState  BY <1>1 DEF KState
<1>3. CASE ker.ipm
  <2>1. ker' = k  BY <1>3 DEF ena_dsp
  <2>2. SameMutexes(ker, k)  BY OtherSame
  <2>3. QED  BY <2>1, <2>2, CallSame
<1>4. CASE ~ker.ipm
  <2>1. Reenable(k)  BY <1>4 DEF ena_dsp
  <2>2. k = [ker EXCEPT !.enadsp = TRUE, !.ipm = FALSE]
    BY <1>1, <1>4 DEF KState
  <2> HIDE DEF k
  <2>3. QED  BY <1>1, <1>2, <2>1, <2>2, ReenableOwned
<1>5. QED  BY <1>3, <1>4

LEMMA ChgIpmOwned ==
  ASSUME IInv, Owned(ker), NEW mask \in BOOLEAN, chg_ipm(mask)
  PROVE  Owned(ker')
<1> DEFINE k == [ker EXCEPT !.ipm = mask]
<1>1. /\ nest = 0 /\ Self # NULL /\ ker \in KState /\ ker.enadsp \in BOOLEAN
  BY DEF IInv, Good, SchedInv, chg_ipm, TaskCall, TaskRuns, KState
<1>2. k \in KState  BY <1>1 DEF KState
<1>3. CASE ~mask /\ ker.enadsp
  <2>1. Reenable(k)  BY <1>3 DEF chg_ipm
  <2>2. k = [ker EXCEPT !.enadsp = TRUE, !.ipm = FALSE]
    BY <1>1, <1>3 DEF KState
  <2> HIDE DEF k
  <2>3. QED  BY <1>1, <1>2, <2>1, <2>2, ReenableOwned
<1>4. CASE ~(~mask /\ ker.enadsp)
  <2>1. ker' = [k EXCEPT !.dspflg = FALSE]  BY <1>4 DEF chg_ipm
  <2>2. SameMutexes(ker, k)  BY OtherSame
  <2> HIDE DEF k
  <2>3. SameMutexes(k, [k EXCEPT !.dspflg = FALSE])  BY OtherSame
  <2>4. SameMutexes(ker, [k EXCEPT !.dspflg = FALSE])  BY <2>2, <2>3, SameTrans
  <2>5. QED  BY <2>1, <2>4, CallSame
<1>5. QED  BY <1>3, <1>4

LEMMA ExtTskOwned ==
  ASSUME IInv, Owned(ker), ext_tsk
  PROVE  Owned(ker')
<1> DEFINE e == [ker EXCEPT !.enadsp = TRUE, !.ipm = FALSE]
<1>1. /\ nest = 0 /\ Self # NULL /\ ker \in KState /\ Good(ker)
  BY Between DEF IInv, ext_tsk, TaskRuns
<1>2. Self \in TSK /\ ~TSTAT_DORMANT(ker, Self)  BY <1>1, RunningTask
<1>3. e \in KState  BY <1>1 DEF KState
<1>4. CASE ker.dspflg
  <2>1. ExitAndDispatch(task_terminate(ker, Self))  BY <1>4 DEF ext_tsk
  <2>2. Shaped(task_terminate(ker, Self)) /\ Owned(task_terminate(ker, Self))
    BY <1>1, <1>2, <1>4, TerminateOwned
  <2>3. QED  BY <2>1, <2>2, ReturnOwned
<1>5. CASE ~ker.dspflg
  <2>1. ExitAndDispatch(task_terminate(set_dspflg(e), Self))  BY <1>5 DEF ext_tsk
  <2> HIDE DEF e
  <2>2. /\ Shaped(task_terminate(set_dspflg(e), Self))
        /\ Owned(task_terminate(set_dspflg(e), Self))
    BY <1>1, <1>3, EnabledOwned DEF e
  <2>3. QED  BY <2>1, <2>2, ReturnOwned
<1>6. QED  BY <1>4, <1>5

LEMMA EnaTerOwned ==
  ASSUME IInv, Owned(ker), ena_ter \/ dis_ter
  PROVE  Owned(ker')
<1>1. Good(ker) /\ nest = 0 /\ Self # NULL
  BY DEF IInv, ena_ter, dis_ter, TaskCall, TaskRuns
<1>2. Self \in TSK /\ ~TSTAT_DORMANT(ker, Self)  BY <1>1, RunningTask
<1>3. CASE ena_ter /\ ker.raster[Self] /\ ker.dspflg
  <2>1. ExitAndDispatch(task_terminate(ker, Self))  BY <1>3 DEF ena_ter
  <2>2. Shaped(task_terminate(ker, Self)) /\ Owned(task_terminate(ker, Self))
    BY <1>1, <1>2, <1>3, TerminateOwned
  <2>3. QED  BY <2>1, <2>2, ReturnOwned
<1>4. CASE ~(ena_ter /\ ker.raster[Self] /\ ker.dspflg)
  <2>1. ker' = [ker EXCEPT !.enater[Self] = TRUE] \/ ker' = [ker EXCEPT !.enater[Self] = FALSE]
    BY <1>4 DEF ena_ter, dis_ter
  <2>2. SameMutexes(ker, [ker EXCEPT !.enater[Self] = TRUE])  BY OtherSame
  <2>3. SameMutexes(ker, [ker EXCEPT !.enater[Self] = FALSE])  BY OtherSame
  <2>4. QED  BY <2>1, <2>2, <2>3, CallSame
<1>5. QED  BY <1>3, <1>4

LEMMA RotRdqOwned ==
  ASSUME IInv, Owned(ker), (\E pri \in PRI : rot_rdq(pri)) \/ rot_rdq_self \/ rot_rdq_self_locked
  PROVE  Owned(ker')
<1>1. ASSUME NEW pri \in PRI, rot_rdq(pri)  PROVE Owned(ker')
  <2>1. SameMutexes(ker, rotate_ready_queue(ker, pri))  BY RotateSame
  <2>2. QED  BY <1>1, <2>1, CallSame DEF rot_rdq
<1>2. CASE rot_rdq_self
  <2> DEFINE v == [call |-> "rot_rdq", tsk |-> Self, pri |-> ker.bpriority[Self]]
  <2>1. ker' = [ker EXCEPT !.pending[Self] = v]  BY <1>2 DEF rot_rdq_self
  <2> HIDE DEF v
  <2>2. SameMutexes(ker, [ker EXCEPT !.pending[Self] = v])  BY OtherSame
  <2>3. QED  BY <2>1, <2>2, CallSame
<1>3. CASE rot_rdq_self_locked
  <2> DEFINE k == [ker EXCEPT !.pending[Self] = IDLE]
             p == ker.pending[Self].pri
  <2>1. Return(rotate_ready_queue(k, p))  BY <1>3 DEF rot_rdq_self_locked
  <2>2. SameMutexes(ker, k)  BY OtherSame
  <2> HIDE DEF k, p
  <2>3. SameMutexes(ker, rotate_ready_queue(k, p))  BY <2>2, RotateSame, SameTrans
  <2>4. QED  BY <2>1, <2>3, CallSame
<1>4. QED  BY <1>1, <1>2, <1>3

LEMMA FlagsOwned ==
  ASSUME IInv, Owned(ker), loc_cpu \/ unl_cpu \/ dis_dsp
  PROVE  Owned(ker')
<1>1. CASE loc_cpu \/ unl_cpu
  <2>1. ker' = ker  BY <1>1 DEF loc_cpu, unl_cpu
  <2>2. QED  BY <2>1
<1>2. CASE dis_dsp
  <2> DEFINE v == FALSE
  <2>1. ker' = [ker EXCEPT !.enadsp = v, !.dspflg = v]  BY <1>2 DEF dis_dsp
  <2>2. SameMutexes(ker, [ker EXCEPT !.enadsp = v, !.dspflg = v])  BY OtherSame
  <2>3. QED  BY <2>1, <2>2, CallSame
<1>3. QED  BY <1>1, <1>2

LEMMA TaskStepOwned ==
  ASSUME IInv, Owned(ker), TaskStep
  PROVE  Owned(ker')
<1>1. CASE \E atr \in {"TA_NULL", "TA_NOACTQUE"}, act \in BOOLEAN, pri \in PRI :
             acre_tsk(atr, act, pri)
  BY <1>1, AcreTskOwned
<1>2. ASSUME NEW t \in TSK,
             \/ del_tsk(t) \/ act_tsk(t) \/ can_act(t) \/ wup_tsk(t) \/ can_wup(t) \/ rel_wai(t)
             \/ sus_tsk(t) \/ rsm_tsk(t) \/ ras_ter(t) \/ ter_tsk(t)
      PROVE  Owned(ker')
  BY <1>2, DelTskOwned, ActTskOwned, CanActOwned, WupTskOwned, RelWaiOwned, SusTskOwned,
     RasTerOwned
<1>3. ASSUME NEW t \in TSK, chg_pri_ini(t) \/ \E pri \in PRI : chg_pri(t, pri)
      PROVE  Owned(ker')
  BY <1>3, ChgPriIniOwned, ChgPriOwned
<1>4. CASE chg_pri_ini_locked  BY <1>4, ChgPriIniLockedOwned
<1>5. CASE (\E tmo \in BOOLEAN : slp_tsk(tmo)) \/ dly_tsk  BY <1>5, SlpTskOwned
<1>6. CASE ext_tsk \/ dis_ter \/ ena_ter  BY <1>6, ExtTskOwned, EnaTerOwned
<1>7. CASE (\E pri \in PRI : rot_rdq(pri)) \/ rot_rdq_self \/ rot_rdq_self_locked
  BY <1>7, RotRdqOwned
<1>8. CASE loc_cpu \/ unl_cpu \/ dis_dsp \/ ena_dsp \/ \E mask \in BOOLEAN : chg_ipm(mask)
  BY <1>8, FlagsOwned, EnaDspOwned, ChgIpmOwned
<1>9. QED
  BY <1>1, <1>2, <1>3, <1>4, <1>5, <1>6, <1>7, <1>8 DEF TaskStep

LEMMA InterruptOwned ==
  ASSUME IInv, Owned(ker), InterruptStep
  PROVE  Owned(ker')
<1>1. CASE IntEnter  BY <1>1 DEF IntEnter
<1>2. CASE IntExit
  <2>1. ker' \in {ker, dispatch(ker)}  BY <1>2 DEF IntExit
  <2>2. SameMutexes(ker, dispatch(ker))  BY RotateSame
  <2>3. QED  BY <2>1, <2>2, CallSame
<1>3. ASSUME NEW t \in TSK, Timeout(t)  PROVE Owned(ker')
  <2> DEFINE k == [ker EXCEPT !.tmevt = @ \ {t}]
  <2>1. SameMutexes(ker, k)
    <3> DEFINE v == ker.tmevt \ {t}
    <3>1. SameMutexes(ker, [ker EXCEPT !.tmevt = v])  BY OtherSame
    <3>2. QED  BY <3>1
  <2>2. ker' \in {wait_tmout_ok(k, t), wait_tmout(k, t)}  BY <1>3 DEF Timeout
  <2> HIDE DEF k
  <2>3. SameMutexes(k, wait_tmout_ok(k, t))  BY EndSame DEF wait_tmout_ok
  <2>4. SameMutexes(k, wait_tmout(k, t))  BY EndedSame DEF wait_tmout
  <2>5. SameMutexes(ker, wait_tmout_ok(k, t)) /\ SameMutexes(ker, wait_tmout(k, t))
    BY <2>1, <2>3, <2>4, SameTrans
  <2>6. QED  BY <2>2, <2>5, CallSame
<1>4. QED  BY <1>1, <1>2, <1>3 DEF InterruptStep

----------------------------------------------------------------------------
(* Semaphores are no mutexes.                                              *)

\* The data of a semaphore changes.
LEMMA SemaphoreSame ==
  ASSUME NEW k, NEW s \in SEM, NEW atr, NEW list, NEW isem, NEW lim, NEW q, NEW cnt
  PROVE  /\ SameMutexes(k, [k EXCEPT !.free_semcb = list, !.wobjatr[s] = atr,
                                     !.isemcnt[s] = isem, !.maxsem[s] = lim,
                                     !.wait_queue[s] = q, !.semcnt[s] = cnt])
         /\ SameMutexes(k, [k EXCEPT !.wobjatr[s] = atr, !.free_semcb = list])
<1>1. s \notin MTX /\ MTX \subseteq OBJ  BY ObjectAssumption DEF OBJ
<1> DEFINE a == [k EXCEPT !.free_semcb = list, !.wobjatr[s] = atr,
                          !.isemcnt[s] = isem, !.maxsem[s] = lim,
                          !.wait_queue[s] = q, !.semcnt[s] = cnt]
           b == [k EXCEPT !.wobjatr[s] = atr, !.free_semcb = list]
<1>2. ASSUME Shaped(k), NEW r \in {a, b}
      PROVE  /\ Shaped(r) /\ r.lastmtx = k.lastmtx /\ r.loctsk = k.loctsk
             /\ r.ceilpri = k.ceilpri /\ r.priority = k.priority /\ r.bpriority = k.bpriority
             /\ r.wobjatr = [k.wobjatr EXCEPT ![s] = atr]
             /\ r.tstat = k.tstat /\ r.wobj = k.wobj
  <2>1. CASE r = a  BY <1>2, <2>1 DEF Shaped
  <2>2. CASE r = b  BY <1>2, <2>2 DEF Shaped
  <2>3. QED  BY <1>2, <2>1, <2>2
<1> HIDE DEF a, b
<1>3. ASSUME Shaped(k), NEW m \in MTX
      PROVE  [k.wobjatr EXCEPT ![s] = atr][m] = k.wobjatr[m]
  BY <1>1, <1>3 DEF Shaped
<1>4. \A r \in {a, b} : SameMutexes(k, r)  BY <1>2, <1>3 DEF SameMutexes, WaitsFor
<1>5. QED  BY <1>4 DEF a, b

LEMMA SemStepOwned ==
  ASSUME IInv, Owned(ker), SemStep
  PROVE  Owned(ker')
<1>1. Good(ker) /\ ker \in KState /\ SEM \subseteq OBJ  BY Between DEF IInv, OBJ
<1>2. ASSUME NEW s \in SEM, NEW atr \in {"TA_TFIFO", "TA_TPRI"}, NEW isem \in 0 .. MAXSEM,
             NEW lim \in 1 .. MAXSEM, acre_sem(s, atr, isem, lim)
      PROVE  Owned(ker')
  <2> DEFINE list == Tail(ker.free_semcb)
             q == <<>>
  <2>1. ker' = [ker EXCEPT !.free_semcb = list, !.wobjatr[s] = atr,
                           !.isemcnt[s] = isem, !.maxsem[s] = lim,
                           !.wait_queue[s] = q, !.semcnt[s] = isem]
    BY <1>2 DEF acre_sem
  <2> HIDE DEF list, q
  <2>2. SameMutexes(ker, [ker EXCEPT !.free_semcb = list, !.wobjatr[s] = atr,
                                     !.isemcnt[s] = isem, !.maxsem[s] = lim,
                                     !.wait_queue[s] = q, !.semcnt[s] = isem])
    BY SemaphoreSame
  <2>3. QED  BY <2>1, <2>2, CallSame
<1>3. ASSUME NEW s \in SEM, del_sem(s)  PROVE Owned(ker')
  <2> DEFINE i == init_wait_queue(ker, s)
             list == Append(i.free_semcb, s)
             v == "TA_NOEXS"
             r == [i EXCEPT !.wobjatr[s] = v, !.free_semcb = list]
  <2>1. Return(r)  BY <1>3 DEF del_sem
  <2>2. SameMutexes(ker, i)  BY <1>1, InitSame
  <2> HIDE DEF i, list, v
  <2>3. SameMutexes(i, r)  BY SemaphoreSame
  <2> HIDE DEF r
  <2>4. SameMutexes(ker, r)  BY <2>2, <2>3, SameTrans
  <2>5. QED  BY <2>1, <2>4, CallSame
<1>4. ASSUME NEW s \in SEM, sig_sem(s)  PROVE Owned(ker')
  <2>1. CASE ker.wait_queue[s] # <<>>
    <3> DEFINE v == Tail(ker.wait_queue[s])
               k == [ker EXCEPT !.wait_queue[s] = v]
               t == Head(ker.wait_queue[s])
    <3>1. Return(wait_complete(k, t))  BY <1>4, <2>1 DEF sig_sem
    <3>2. t \in TSK
      <4>1. ker.wait_queue[s] \in Seq(TSK)  BY <1>1 DEF KState
      <4>2. QED  BY <2>1, <4>1
    <3> HIDE DEF v, t
    <3>3. SameMutexes(ker, k)  BY OtherSame
    <3> HIDE DEF k
    <3>4. SameMutexes(k, wait_complete(k, t))  BY <3>2, EndedSame DEF wait_complete
    <3>5. SameMutexes(ker, wait_complete(k, t))  BY <3>3, <3>4, SameTrans
    <3>6. QED  BY <3>1, <3>5, CallSame
  <2>2. CASE ker.wait_queue[s] = <<>>
    <3> DEFINE v == ker.semcnt[s] + 1
    <3>1. ker' = [ker EXCEPT !.semcnt[s] = v]  BY <1>4, <2>2 DEF sig_sem
    <3> HIDE DEF v
    <3>2. SameMutexes(ker, [ker EXCEPT !.semcnt[s] = v])  BY OtherSame
    <3>3. QED  BY <3>1, <3>2, CallSame
  <2>3. QED  BY <2>1, <2>2
<1>5. ASSUME NEW s \in SEM, pol_sem(s) \/ \E tmo \in BOOLEAN : wai_sem(s, tmo)
      PROVE  Owned(ker')
  <2> DEFINE v == ker.semcnt[s] - 1
  <2>1. \/ ker' = [ker EXCEPT !.semcnt[s] = v]
        \/ \E tmo \in BOOLEAN : wai_sem(s, tmo) /\ Return(wobj_make_wait(ker, s, "SEM", tmo))
    BY <1>5 DEF pol_sem, wai_sem
  <2> HIDE DEF v
  <2>2. SameMutexes(ker, [ker EXCEPT !.semcnt[s] = v])  BY OtherSame
  <2>3. ASSUME NEW tmo \in BOOLEAN, wai_sem(s, tmo), Return(wobj_make_wait(ker, s, "SEM", tmo))
        PROVE  Owned(ker')
    <3>1. nest = 0 /\ Self # NULL  BY <2>3 DEF wai_sem, DispatchCall, TaskCall, TaskRuns
    <3>2. ker.runtsk \in TSK  BY <3>1, RunningTask DEF Self
    <3>3. "SEM" \in FACTOR /\ "SEM" # "MTX"  BY DEF FACTOR
    <3>4. SameMutexes(ker, wobj_make_wait(ker, s, "SEM", tmo))
      BY <1>1, <3>2, <3>3, MakeWaitSame
    <3>5. QED  BY <2>3, <3>4, CallSame
  <2>4. QED  BY <2>1, <2>2, <2>3, CallSame
<1>6. ASSUME NEW s \in SEM, ini_sem(s)  PROVE Owned(ker')
  <2> DEFINE i == init_wait_queue(ker, s)
             v == ker.isemcnt[s]
             r == [i EXCEPT !.semcnt[s] = v]
  <2>1. Return(r)  BY <1>6 DEF ini_sem
  <2>2. SameMutexes(ker, i)  BY <1>1, InitSame
  <2> HIDE DEF i, v
  <2>3. SameMutexes(i, r)  BY OtherSame
  <2> HIDE DEF r
  <2>4. SameMutexes(ker, r)  BY <2>2, <2>3, SameTrans
  <2>5. QED  BY <2>1, <2>4, CallSame
<1>7. QED
  BY <1>2, <1>3, <1>4, <1>5, <1>6 DEF SemStep

----------------------------------------------------------------------------
(* The owners of the mutexes at the start, and in every step.              *)

LEMMA InitOwned ==
  ASSUME Init
  PROVE  Owned(ker)
<1>a. PICK c \in CFG : \E rdq, ftsk, fsem, fmtx : ker = InitialKState(c, rdq, ftsk, fsem, fmtx)
  BY DEF Init
<1>1. PICK rdq, ftsk, fsem, fmtx : ker = InitialKState(c, rdq, ftsk, fsem, fmtx)
  BY <1>a
<1>2. ker \in KState  BY InitInvariant, Between DEF IInv
<1>3. /\ ker.lastmtx = [t \in TSK |-> <<>>] /\ ker.loctsk = [m \in MTX |-> NULL]
      /\ ker.priority = ker.bpriority
      /\ ker.tstat = [t \in TSK |-> IF t \in STSK(c) /\ TSKINI(c)[t].act
                                    THEN TS_RUNNABLE ELSE TS_DORMANT]
  BY <1>1 DEF InitialKState
<1>4. OwnersOK(ker, {})
  BY <1>3, NullAssumption DEF OwnersOK, Holds, Distinct
<1>5. ASSUME NEW t \in TSK  PROVE CeilOK(ker, t)
  <2>1. Holds(ker, t) = {}  BY <1>3 DEF Holds
  <2>2. ker.tstat[t].wai = "none"  BY <1>3, StateConstants
  <2>3. ker.priority[t] \in Int  BY <1>2, MutexTypes
  <2>4. QED  BY <1>3, <2>1, <2>2, <2>3 DEF CeilOK, CeilBut, WaitsFor
<1>6. QED  BY <1>4, <1>5 DEF Owned

LEMMA StepOwned ==
  ASSUME IInv, Owned(ker), [Next]_vars
  PROVE  Owned(ker')
<1>1. CASE UNCHANGED vars  BY <1>1 DEF vars
<1>2. CASE Next
  BY <1>2, SemStepOwned, MutexStepOwned, TaskStepOwned, InterruptOwned DEF Next
<1>3. QED  BY <1>1, <1>2

\* The two invariants together are inductive.
OwnersInv == IInv /\ Owned(ker)

LEMMA OwnersInvariance ==
  Spec => []OwnersInv
<1>1. Init => OwnersInv  BY InitInvariant, InitOwned DEF OwnersInv
<1>2. OwnersInv /\ [Next]_vars => OwnersInv'
  <2>1. ASSUME OwnersInv, [Next]_vars  PROVE IInv' /\ Owned(ker)'
    BY <2>1, StepKeeps, StepOwned DEF OwnersInv
  <2>2. QED  BY <2>1 DEF OwnersInv
<1>3. QED  BY <1>1, <1>2, PTL DEF Spec

\* What the invariant says of the lists and the queues,
LEMMA OwnersMutex ==
  ASSUME OwnersInv
  PROVE  MutexOK
<1>1. GoodBut(ker, {}) /\ ker \in KState /\ Owned(ker)
  BY Between DEF OwnersInv, IInv
<1>2. ASSUME NEW m \in MTX, ker.wait_queue[m] # <<>>
      PROVE  ker.loctsk[m] # NULL /\ ~InQueue(ker.wait_queue[m], ker.loctsk[m])
  <2> DEFINE q == ker.wait_queue[m]
  <2>1. \A t \in TSK : InQueue(q, t) <=> WaitsFor(ker, t, m)
    <3>1. ASSUME NEW t \in TSK  PROVE InQueue(q, t) <=> WaitsFor(ker, t, m)
      <4>1. t \in TSK \ {}  OBVIOUS
      <4>2. QED  BY <1>1, <4>1, QueueOfMutex
    <3>2. QED  BY <3>1
  <2>2. \A t \in TSK : InQueue(q, t) => ker.loctsk[m] \notin {NULL, t}
    BY <1>1, <2>1 DEF Owned, CeilOK, CeilBut
  <2>3. q \in Seq(TSK) /\ m \in OBJ  BY <1>1 DEF KState, OBJ
  <2>4. q[1] \in TSK /\ InQueue(q, q[1])  BY <1>2, <2>3 DEF InQueue
  <2>5. ker.loctsk[m] \in TSK \cup {NULL}  BY <1>1, MutexTypes
  <2> HIDE DEF q
  <2>6. ker.loctsk[m] # NULL  BY <2>2, <2>4
  <2>7. ~InQueue(q, ker.loctsk[m])  BY <2>2, <2>5, <2>6
  <2>8. QED  BY <2>6, <2>7 DEF q
<1>3. QED
  BY <1>1, <1>2 DEF MutexOK, Owned, OwnersOK, MtxExists

\* and of the priorities.
LEMMA OwnersCeiling ==
  ASSUME OwnersInv
  PROVE  CeilingOK
<1>1. ker \in KState /\ Owned(ker) /\ Good(ker)
  BY Between DEF OwnersInv, IInv
<1>2. ASSUME NEW t \in TSK
      PROVE  /\ ker.priority[t] = mutex_calc_priority(ker, t)
             /\ mutex_check_ceilpri(ker, t, ker.bpriority[t])
  <2> DEFINE p == ker.priority[t]
             b == ker.bpriority[t]
             q == mutex_calc_priority(ker, t)
             Z == {}
  <2>1. CeilBut(ker, t, Z)  BY <1>1 DEF Owned, CeilOK
  <2>2. /\ p \in Int /\ b \in Int /\ Holds(ker, t) \subseteq MTX
        /\ \A m \in MTX : ker.ceilpri[m] \in Int
    BY <1>1, MutexTypes
  <2>3. /\ q \in {b} \cup HeldCeilings(ker, t)
        /\ \A x \in {b} \cup HeldCeilings(ker, t) : q <= x
    BY <1>1, CalcPriority
  <2>4. \A x \in {b} \cup HeldCeilings(ker, t) : p <= x /\ x \in Int
    BY <2>1, <2>2 DEF CeilBut, HeldCeilings
  <2>5. p \in {b} \cup HeldCeilings(ker, t)
    BY <2>1, <2>2 DEF CeilBut, HeldCeilings
  <2>6. p = q
    <3>1. p <= q /\ q <= p /\ q \in Int  BY <2>3, <2>4, <2>5
    <3> HIDE DEF p, q
    <3>2. QED  BY <2>2, <3>1
  <2>7. ASSUME NEW m \in Holds(ker, t), MTX_CEILING(ker, m)  PROVE b >= ker.ceilpri[m]
    <3>1. m \in MTX /\ ker.ceilpri[m] <= b  BY <2>1, <2>2, <2>7 DEF CeilBut
    <3>2. QED  BY <2>2, <3>1
  <2>8. ASSUME TSTAT_WAIT_MTX(ker, t), MTX_CEILING(ker, ker.wobj[t])
        PROVE  b >= ker.ceilpri[ker.wobj[t]]
    <3>1. ker.wobj[t] \in MTX
      BY <1>1, <2>8 DEF Good, TaskOK, WaitOK, TSTAT_WAIT_MTX
    <3>2. WaitsFor(ker, t, ker.wobj[t])  BY <2>8 DEF WaitsFor, TSTAT_WAIT_MTX
    <3>3. ker.ceilpri[ker.wobj[t]] <= b  BY <2>1, <2>8, <3>1, <3>2 DEF CeilBut
    <3>4. QED  BY <2>2, <3>1, <3>3
  <2>9. QED  BY <2>6, <2>7, <2>8 DEF mutex_check_ceilpri
<1>3. QED  BY <1>2 DEF CeilingOK

\* Owners, their lists and the priorities that follow from them agree after every call,
\* also when a mutex changes hands by termination, reset, deletion or a timeout, and when
\* the base priority of an owner or of a waiting task changes (mutex.c, chg_pri).
THEOREM MutexesCorrect ==
  Spec => []MutexesOK
<1>1. OwnersInv => MutexesOK  BY OwnersMutex, OwnersCeiling DEF MutexesOK
<1>2. QED  BY <1>1, OwnersInvariance, PTL
=============================================================================
