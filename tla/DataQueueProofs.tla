-------------------------- MODULE DataQueueProofs --------------------------
(***************************************************************************)
(* The ring of a data queue is a bounded queue, for every size, and the    *)
(* rings of the data queues are in order in every reachable state, for     *)
(* every number of queues, entries, tasks and priorities.                  *)
(***************************************************************************)
EXTENDS DataQueue, SequenceTheorems, TLAPS

(* One ring.  V is the set of the values that can be in it.                *)

Ring(c, V) ==
  /\ c \in [cnt : Nat, buf : [0 .. c.cnt - 1 -> V], count : Nat, head : Nat, tail : Nat]
  /\ RingOK(c)

\* A ring without entries in use is in order.
LEMMA EmptyRingOK ==
  ASSUME NEW V, NEW cnt \in Nat, NEW g \in V
  PROVE  Ring(EmptyRing(cnt, g), V)
BY DEF Ring, EmptyRing, RingOK, Slot

\* The values in use are the contents, one after the other.
LEMMA RingContents ==
  ASSUME NEW V, NEW c, Ring(c, V)
  PROVE  /\ Contents(c) \in Seq(V) /\ Len(Contents(c)) = c.count
         /\ \A i \in 1 .. c.count : Slot(c, i) \in 0 .. c.cnt - 1 /\ Contents(c)[i] = c.buf[Slot(c, i)]
<1>1. \A i \in 1 .. c.count : Slot(c, i) \in 0 .. c.cnt - 1
  BY DEF Ring, RingOK, Slot
<1>2. Contents(c) \in [1 .. c.count -> V] /\ c.count \in Nat
  BY <1>1 DEF Contents, Ring, RingOK
<1> QED
  BY <1>1, <1>2 DEF Contents

\* The new value is the last one (enqueue_data).
LEMMA EnqueueAppends ==
  ASSUME NEW V, NEW c, Ring(c, V), NEW x \in V, c.count < c.cnt
  PROVE  /\ Ring(enqueue_data(c, x), V)
         /\ Contents(enqueue_data(c, x)) = Append(Contents(c), x)
<1> DEFINE d == enqueue_data(c, x)
<1>1. /\ d.cnt = c.cnt /\ d.buf = [c.buf EXCEPT ![c.tail] = x]
      /\ d.count = c.count + 1 /\ d.head = c.head /\ d.tail = Step(c, c.tail)
  BY DEF enqueue_data, Ring
<1>2. /\ c.cnt \in Nat \ {0} /\ c.count \in 0 .. c.cnt - 1 /\ c.head \in 0 .. c.cnt - 1
      /\ c.tail = Slot(c, c.count + 1) /\ c.tail \in 0 .. c.cnt - 1
  BY DEF Ring, RingOK, Slot
<1>3. d.buf \in [0 .. c.cnt - 1 -> V] /\ d.buf[c.tail] = x
  BY <1>1, <1>2 DEF Ring
<1>4. Ring(d, V)
  <2>1. d \in [cnt : Nat, buf : [0 .. c.cnt - 1 -> V], count : Nat, head : Nat, tail : Nat]
    <3>1. Step(c, c.tail) \in Nat /\ [c.buf EXCEPT ![c.tail] = x] \in [0 .. c.cnt - 1 -> V]
      BY <1>2 DEF Step, Ring
    <3>2. c \in [cnt : Nat, buf : [0 .. c.cnt - 1 -> V], count : Nat, head : Nat, tail : Nat]
      BY DEF Ring
    <3>3. d.count \in Nat
      BY <1>1, <1>2
    <3> QED
      BY <1>1, <3>1, <3>2, <3>3 DEF enqueue_data
  <2> HIDE DEF d
  <2>2. DOMAIN d.buf = 0 .. d.cnt - 1
    BY <1>1, <1>3
  <2>3. d.tail = Slot(d, d.count + 1)
    BY <1>1, <1>2 DEF Slot, Step
  <2>4. RingOK(d)
    BY <1>1, <1>2, <2>2, <2>3 DEF RingOK
  <2> QED
    BY <1>1, <2>1, <2>4 DEF Ring
<1>5. \A i \in 1 .. c.count : Slot(d, i) = Slot(c, i) /\ Slot(c, i) # c.tail
  BY <1>1, <1>2 DEF Slot
<1>6. Slot(d, d.count) = c.tail
  BY <1>1, <1>2 DEF Slot
<1> HIDE DEF d
<1>7. \A i \in 1 .. d.count : Contents(d)[i] = d.buf[Slot(d, i)]
  BY <1>4, RingContents
<1>8. /\ \A i \in 1 .. c.count : Contents(d)[i] = Contents(c)[i]
      /\ Contents(d)[c.count + 1] = x
  <2>1. \A i \in 1 .. c.count : Slot(c, i) \in 0 .. c.cnt - 1 /\ Contents(c)[i] = c.buf[Slot(c, i)]
    BY RingContents
  <2>2. \A i \in 1 .. c.count : d.buf[Slot(c, i)] = c.buf[Slot(c, i)]
    BY <1>1, <1>5, <2>1 DEF Ring
  <2>3. \A i \in 1 .. d.count : i \in 1 .. c.count \/ i = c.count + 1
    BY <1>1, <1>2
  <2>4. c.count + 1 = d.count /\ d.count \in 1 .. d.count
    BY <1>1, <1>2
  <2>5. Contents(d)[c.count + 1] = x
    BY <1>3, <1>6, <1>7, <2>4
  <2>6. ASSUME NEW i \in 1 .. c.count
        PROVE  Contents(d)[i] = Contents(c)[i]
    <3>1. i \in 1 .. d.count
      BY <1>1, <1>2
    <3>2. Contents(d)[i] = d.buf[Slot(c, i)]
      BY <1>5, <1>7, <3>1
    <3> QED
      BY <2>1, <2>2, <3>2
  <2> QED
    BY <2>5, <2>6
<1>9. Contents(c) \in Seq(V) /\ Len(Contents(c)) = c.count
  BY RingContents
<1>10. Contents(d) \in Seq(V) /\ Len(Contents(d)) = c.count + 1
  BY <1>1, <1>2, <1>4, RingContents
<1>11. \A i \in 1 .. Len(Contents(d)) : Contents(d)[i] = Append(Contents(c), x)[i]
  BY <1>2, <1>8, <1>9, <1>10, AppendProperties
<1>12. Contents(d) = Append(Contents(c), x)
  <2>1. Append(Contents(c), x) \in Seq(V) /\ Len(Append(Contents(c), x)) = Len(Contents(d))
    BY <1>2, <1>9, <1>10, AppendProperties
  <2> QED
    BY <1>10, <1>11, <2>1, SeqEqual
<1> QED
  BY <1>4, <1>12 DEF d

\* The first value is returned and taken away (dequeue_data).
LEMMA DequeueTakesFirst ==
  ASSUME NEW V, NEW c, Ring(c, V), c.count > 0
  PROVE  /\ Ring(dequeue_data(c), V)
         /\ FirstData(c) = Head(Contents(c)) /\ FirstData(c) \in V
         /\ Contents(dequeue_data(c)) = Tail(Contents(c))
<1> DEFINE d == dequeue_data(c)
<1>1. /\ d.cnt = c.cnt /\ d.buf = c.buf /\ d.count = c.count - 1
      /\ d.head = Step(c, c.head) /\ d.tail = c.tail
  BY DEF dequeue_data, Ring
<1>2. /\ c.cnt \in Nat \ {0} /\ c.count \in 1 .. c.cnt /\ c.head \in 0 .. c.cnt - 1
      /\ c.tail = Slot(c, c.count + 1) /\ c.tail \in 0 .. c.cnt - 1
  BY DEF Ring, RingOK, Slot
<1>3. Ring(d, V)
  <2>1. d \in [cnt : Nat, buf : [0 .. c.cnt - 1 -> V], count : Nat, head : Nat, tail : Nat]
    <3>1. Step(c, c.head) \in Nat /\ c.buf \in [0 .. c.cnt - 1 -> V]
      BY <1>2 DEF Step, Ring
    <3>2. c \in [cnt : Nat, buf : [0 .. c.cnt - 1 -> V], count : Nat, head : Nat, tail : Nat]
      BY DEF Ring
    <3>3. d.count \in Nat
      BY <1>1, <1>2
    <3> QED
      BY <1>1, <3>1, <3>2, <3>3 DEF dequeue_data
  <2> HIDE DEF d
  <2>2. RingOK(d)
    BY <1>1, <1>2 DEF Ring, RingOK, Slot, Step
  <2> QED
    BY <1>1, <2>1, <2>2 DEF Ring
<1> HIDE DEF d
<1>4. \A i \in 1 .. d.count : Slot(d, i) = Slot(c, i + 1)
  BY <1>1, <1>2 DEF Slot, Step
<1>5. Slot(c, 1) = c.head
  BY <1>2 DEF Slot
<1>6. /\ Contents(c) \in Seq(V) /\ Len(Contents(c)) = c.count
      /\ \A i \in 1 .. c.count : Contents(c)[i] = c.buf[Slot(c, i)]
  BY RingContents
<1>7. /\ Contents(d) \in Seq(V) /\ Len(Contents(d)) = c.count - 1
      /\ \A i \in 1 .. c.count - 1 : Contents(d)[i] = c.buf[Slot(c, i + 1)]
  BY <1>1, <1>2, <1>3, <1>4, RingContents
<1>8. FirstData(c) = Head(Contents(c)) /\ FirstData(c) \in V
  BY <1>2, <1>5, <1>6 DEF FirstData, Ring
<1>9. Contents(d) = Tail(Contents(c))
  <2>1. /\ Tail(Contents(c)) \in Seq(V) /\ Len(Tail(Contents(c))) = c.count - 1
        /\ \A i \in 1 .. c.count - 1 : Tail(Contents(c))[i] = Contents(c)[i + 1]
    BY <1>2, <1>6, HeadTailProperties
  <2>2. \A i \in 1 .. Len(Contents(d)) : Contents(d)[i] = Tail(Contents(c))[i]
    BY <1>2, <1>6, <1>7, <2>1
  <2> QED
    BY <1>7, <2>1, <2>2, SeqEqual
<1> QED
  BY <1>3, <1>8, <1>9 DEF d

\* A full ring drops its first value for the new one (force_enqueue_data).
LEMMA ForceDropsFirst ==
  ASSUME NEW V, NEW c, Ring(c, V), NEW x \in V, c.cnt > 0
  PROVE  /\ Ring(force_enqueue_data(c, x), V)
         /\ c.count < c.cnt => Contents(force_enqueue_data(c, x)) = Append(Contents(c), x)
         /\ c.count = c.cnt => Contents(force_enqueue_data(c, x)) = Append(Tail(Contents(c)), x)
<1>1. /\ c.cnt \in Nat \ {0} /\ c.count \in 0 .. c.cnt /\ c.head \in 0 .. c.cnt - 1
      /\ c.tail = Slot(c, c.count + 1) /\ c.tail \in 0 .. c.cnt - 1
  BY DEF Ring, RingOK, Slot
<1>2. CASE c.count < c.cnt
  <2>1. force_enqueue_data(c, x) = enqueue_data(c, x)
    BY <1>2 DEF force_enqueue_data, enqueue_data, Ring, Step
  <2> QED
    BY <1>1, <1>2, <2>1, EnqueueAppends
<1>3. CASE c.count = c.cnt
  \* The same as taking the first value and then storing the new one.
  <2> DEFINE b == dequeue_data(c)
  <2>1. b.count < b.cnt /\ Ring(b, V) /\ Contents(b) = Tail(Contents(c))
    <3>1. b.cnt = c.cnt /\ b.count = c.count - 1
      BY DEF dequeue_data, Ring
    <3>2. c.count > 0
      BY <1>1, <1>3
    <3>3. b.count < b.cnt
      BY <1>1, <1>3, <3>1
    <3> QED
      BY <3>2, <3>3, DequeueTakesFirst
  <2>2. c.tail = c.head
    BY <1>1, <1>3 DEF Slot
  <2>3. force_enqueue_data(c, x) = enqueue_data(b, x)
    <3> DEFINE T == [cnt : Nat, buf : [0 .. c.cnt - 1 -> V], count : Nat, head : Nat, tail : Nat]
               next == Step(c, c.head)
               new == [c.buf EXCEPT ![c.head] = x]
               e == [c EXCEPT !.buf = new, !.head = next, !.tail = next]
    <3>1. c \in T /\ next \in Nat /\ new \in [0 .. c.cnt - 1 -> V]
      BY <1>1 DEF Ring, Step
    <3>2. e \in T
      BY <3>1
    <3>3. force_enqueue_data(c, x) = e
      <4> DEFINE g == [c EXCEPT !.buf[c.tail] = x, !.tail = Step(c, c.tail)]
      <4>1. g = [c EXCEPT !.buf = new, !.tail = next]
        BY <2>2
      <4>2. g \in T /\ g.count = c.count /\ g.cnt = c.cnt /\ g.tail = next /\ [g EXCEPT !.head = next] = e
        BY <3>1, <4>1
      <4>3. force_enqueue_data(c, x) = IF g.count < g.cnt THEN [g EXCEPT !.count = @ + 1] ELSE [g EXCEPT !.head = g.tail]
        BY DEF force_enqueue_data
      <4> HIDE DEF g
      <4> QED
        BY <1>1, <1>3, <4>2, <4>3
    <3>4. enqueue_data(b, x) = e
      <4>1. b \in T /\ b = [c EXCEPT !.count = c.count - 1, !.head = next]
        <5>1. b = [c EXCEPT !.count = c.count - 1, !.head = next]
          BY DEF dequeue_data
        <5>2. c.count - 1 \in Nat
          BY <1>1, <1>3
        <5> HIDE DEF next, b
        <5> QED
          BY <3>1, <5>1, <5>2
      <4>2. /\ b.cnt = c.cnt /\ b.buf = c.buf /\ b.count = c.count - 1 /\ b.head = next /\ b.tail = c.head
        BY <2>2, <3>1, <4>1
      <4>3. Step(b, b.tail) = next /\ b.count + 1 = c.count /\ [b.buf EXCEPT ![b.tail] = x] = new
        BY <1>1, <1>3, <4>2 DEF Step
      <4>4. enqueue_data(b, x) = [b EXCEPT !.buf = new, !.count = c.count, !.tail = next]
        BY <4>3 DEF enqueue_data
      <4> HIDE DEF b
      <4> QED
        BY <3>1, <4>1, <4>2, <4>4
    <3> QED
      BY <3>3, <3>4
  <2> HIDE DEF b
  <2>4. Ring(enqueue_data(b, x), V) /\ Contents(enqueue_data(b, x)) = Append(Contents(b), x)
    BY <2>1, EnqueueAppends
  <2> QED
    BY <1>1, <1>3, <2>1, <2>3, <2>4
<1> QED
  BY <1>1, <1>2, <1>3

----------------------------------------------------------------------------
(* The rings of the data queues.                                           *)

\* A ring with whatever values.
Values(c) == {c.buf[i] : i \in 0 .. c.cnt - 1}
AnyRing(c) == Ring(c, Values(c))

DtqInv == dtq = [q \in QUEUES |-> dtq[q]] /\ \A q \in DTQ : AnyRing(dtq[q])

\* Which set the values are taken from does not matter.
LEMMA RingIsAny ==
  ASSUME NEW V, NEW c, Ring(c, V)
  PROVE  AnyRing(c)
<1>1. c \in [cnt : Nat, buf : [0 .. c.cnt - 1 -> V], count : Nat, head : Nat, tail : Nat] /\ RingOK(c)
  BY DEF Ring
<1>2. c.buf \in [0 .. c.cnt - 1 -> Values(c)]
  BY <1>1 DEF Values
<1>3. c \in [cnt : Nat, buf : [0 .. c.cnt - 1 -> Values(c)], count : Nat, head : Nat, tail : Nat]
  BY <1>1, <1>2
<1> QED
  BY <1>1, <1>3 DEF AnyRing, Ring

\* More values may be in it.
LEMMA RingOfMore ==
  ASSUME NEW c, NEW x, AnyRing(c)
  PROVE  Ring(c, Values(c) \cup {x})
<1> DEFINE V == Values(c)
<1>1. c \in [cnt : Nat, buf : [0 .. c.cnt - 1 -> V], count : Nat, head : Nat, tail : Nat] /\ RingOK(c)
  BY DEF Ring, AnyRing
<1> HIDE DEF V
<1>2. c \in [cnt : Nat, buf : [0 .. c.cnt - 1 -> V \cup {x}], count : Nat, head : Nat, tail : Nat]
  <2>1. c.buf \in [0 .. c.cnt - 1 -> V]
    BY <1>1
  <2>2. c.buf \in [0 .. c.cnt - 1 -> V \cup {x}]
    BY <2>1
  <2> QED
    BY <1>1, <2>2
<1>3. Ring(c, V \cup {x})
  BY <1>1, <1>2 DEF Ring
<1> QED
  BY <1>3 DEF V

\* The operations on a ring leave a ring.
LEMMA RingOperations ==
  ASSUME NEW c, AnyRing(c), NEW x
  PROVE  /\ c.count < c.cnt => AnyRing(enqueue_data(c, x))
         /\ c.count > 0 => /\ AnyRing(dequeue_data(c))
                           /\ dequeue_data(c).count < dequeue_data(c).cnt
         /\ c.cnt > 0 => AnyRing(force_enqueue_data(c, x))
<1>1. Ring(c, Values(c) \cup {x}) /\ x \in Values(c) \cup {x}
  BY RingOfMore
<1>2. c.count < c.cnt => AnyRing(enqueue_data(c, x))
  BY <1>1, EnqueueAppends, RingIsAny
<1>3. c.cnt > 0 => AnyRing(force_enqueue_data(c, x))
  BY <1>1, ForceDropsFirst, RingIsAny
<1>4. c.count > 0 => AnyRing(dequeue_data(c))
  BY <1>1, DequeueTakesFirst, RingIsAny
<1>5. c.count > 0 => dequeue_data(c).count < dequeue_data(c).cnt
  <2>1. dequeue_data(c).count = c.count - 1 /\ dequeue_data(c).cnt = c.cnt
    BY <1>1 DEF dequeue_data, Ring
  <2> QED
    BY <1>1, <2>1 DEF Ring, RingOK
<1> QED
  BY <1>2, <1>3, <1>4, <1>5

\* A reset queue has a ring without entries.
LEMMA EmptyIsRing ==
  ASSUME NEW q \in DTQ, NEW cnt \in Nat
  PROVE  AnyRing(Empty(q, cnt))
<1>1. Ring(EmptyRing(cnt, NULL), {NULL})
  BY EmptyRingOK
<1> QED
  BY <1>1, RingIsAny DEF Empty

\* One queue changes, and its ring stays in order.
LEMMA OneRing ==
  ASSUME DtqInv, NEW q, NEW c, q \in DTQ => AnyRing(c), dtq' = [dtq EXCEPT ![q] = c]
  PROVE  DtqInv'
BY DEF DtqInv, QUEUES, AnyRing, Ring, Values, RingOK, Slot

\* A send keeps the rings in order.
LEMMA SendKeeps ==
  ASSUME DtqInv, NEW q \in QUEUES, NEW x, send_data(q, x)
  PROVE  DtqInv'
<1>1. CASE UNCHANGED dtq
  BY <1>1 DEF DtqInv, AnyRing, Ring, Values, RingOK, Slot
<1>2. CASE dtq[q].count < dtq[q].cnt /\ dtq' = [dtq EXCEPT ![q] = Enqueue(q, dtq[q], x)]
  <2>1. q \in DTQ => AnyRing(Enqueue(q, dtq[q], x))
    BY <1>2, RingOperations DEF DtqInv, Enqueue
  <2> QED
    BY <1>2, <2>1, OneRing
<1> QED
  BY <1>1, <1>2 DEF send_data, PassOn

\* A receive keeps the rings in order, also when a waiting sender moves up.
LEMMA ReceiveKeeps ==
  ASSUME DtqInv, NEW q \in QUEUES, receive_data(q)
  PROVE  DtqInv'
<1> DEFINE c == dtq[q]
           x == winfo_dtq[Head(ker.wait_queue[q])]
<1>1. CASE UNCHANGED dtq
  BY <1>1 DEF DtqInv, AnyRing, Ring, Values, RingOK, Slot
<1>2. CASE c.count > 0 /\ dtq' = [dtq EXCEPT ![q] = Dequeue(q, c)]
  <2>1. q \in DTQ => AnyRing(Dequeue(q, c))
    BY <1>2, RingOperations DEF DtqInv, Dequeue
  <2> QED
    BY <1>2, <2>1, OneRing
<1>3. CASE c.count > 0 /\ dtq' = [dtq EXCEPT ![q] = Enqueue(q, Dequeue(q, c), x)]
  <2>1. q \in DTQ => AnyRing(Dequeue(q, c)) /\ Dequeue(q, c).count < Dequeue(q, c).cnt
    BY <1>3, RingOperations DEF DtqInv, Dequeue
  <2>2. q \in DTQ => AnyRing(Enqueue(q, Dequeue(q, c), x))
    BY <2>1, RingOperations DEF Enqueue
  <2> QED
    BY <1>3, <2>2, OneRing
<1> QED
  BY <1>1, <1>2, <1>3 DEF receive_data

\* The data queues start with rings in order.
LEMMA DtqInvInit == DtqInit => DtqInv
<1> SUFFICES ASSUME DtqInit PROVE DtqInv
  OBVIOUS
<1>1. \A q \in DTQ : dtq[q] = Empty(q, IF q \in DOMAIN DTQINI(ker.cfg) THEN DTQINI(ker.cfg)[q] ELSE 0)
  BY DEF DtqInit, QUEUES
<1>4. ker.cfg \in CFG
  <2>1. PICK c \in CFG : \E rdq, ftsk, fsem, fmtx : ker = InitialKState(c, rdq, ftsk, fsem, fmtx)
    BY DEF DtqInit, Init
  <2>2. PICK rdq, ftsk, fsem, fmtx : ker = InitialKState(c, rdq, ftsk, fsem, fmtx)
    BY <2>1
  <2>3. ker.cfg = c
    BY <2>2, SMTT(60) DEF InitialKState
  <2> QED
    BY <2>1, <2>3
<1>2. \A q \in DTQ : (IF q \in DOMAIN DTQINI(ker.cfg) THEN DTQINI(ker.cfg)[q] ELSE 0) \in Nat
  <2> DEFINE ini == DTQINI(ker.cfg)
  <2>1. ini \in [DOMAIN ini -> 0 .. MAXCNT]
    BY <1>4, QueuesAssumption
  <2> HIDE DEF ini
  <2>2. \A q \in DOMAIN ini : ini[q] \in Nat
    BY <2>1
  <2> QED
    BY <2>2 DEF ini
<1>3. \A q \in DTQ : AnyRing(dtq[q])
  BY <1>1, <1>2, EmptyIsRing
<1> QED
  BY <1>3 DEF DtqInit, DtqInv

\* Every step keeps the rings in order.
LEMMA DtqInvNext == DtqInv /\ [DtqNext]_dtqvars => DtqInv'
<1> SUFFICES ASSUME DtqInv, [DtqNext]_dtqvars PROVE DtqInv'
  OBVIOUS
<1>1. CASE UNCHANGED dtq
  BY <1>1 DEF DtqInv, AnyRing, Ring, Values, RingOK, Slot
<1>2. ASSUME NEW kind \in {"DTQ", "PDQ"}, NEW atr \in {"TA_TFIFO", "TA_TPRI"}, NEW cnt \in CNTS(ker.cfg) \cap (0 .. MAXCNT),
             acre_dtq(kind, atr, cnt)
      PROVE  DtqInv'
  <2> DEFINE q == Head(free_dtq[kind])
  <2>1. dtq' = [dtq EXCEPT ![q] = Empty(q, cnt)]
    BY <1>2 DEF acre_dtq
  <2>2. q \in DTQ => AnyRing(Empty(q, cnt))
    BY EmptyIsRing
  <2> QED
    BY <2>1, <2>2, OneRing
<1>3. ASSUME NEW q \in QUEUES, ini_dtq(q)
      PROVE  DtqInv'
  <2>1. q \in DTQ => AnyRing(Empty(q, dtq[q].cnt))
    BY EmptyIsRing DEF DtqInv, AnyRing, Ring
  <2> QED
    BY <1>3, <2>1, OneRing DEF ini_dtq
<1>4. ASSUME NEW q \in QUEUES, NEW x \in ToSend(q), NEW tmo \in BOOLEAN,
             snd_dtq(q, x, tmo) \/ psnd_dtq(q, x)
      PROVE  DtqInv'
  BY <1>1, <1>4, SendKeeps DEF snd_dtq, psnd_dtq
<1>5. ASSUME NEW q \in QUEUES, NEW tmo \in BOOLEAN, rcv_dtq(q, tmo) \/ prcv_dtq(q)
      PROVE  DtqInv'
  BY <1>1, <1>5, ReceiveKeeps DEF rcv_dtq, prcv_dtq
<1>6. ASSUME NEW q \in DTQ, NEW x \in ToSend(q), fsnd_dtq(q, x)
      PROVE  DtqInv'
  <2>1. UNCHANGED dtq \/ dtq' = [dtq EXCEPT ![q] = force_enqueue_data(dtq[q], x)]
    BY <1>6 DEF fsnd_dtq, force_send_data, PassOn
  <2>2. AnyRing(force_enqueue_data(dtq[q], x))
    BY <1>6, RingOperations DEF fsnd_dtq, DtqInv
  <2> QED
    BY <1>1, <2>1, <2>2, OneRing
<1>7. ASSUME NEW q \in QUEUES, del_dtq(q)
      PROVE  DtqInv'
  BY <1>1, <1>7 DEF del_dtq
<1>8. CASE DtqStep
  BY <1>2, <1>3, <1>4, <1>5, <1>6, <1>7, <1>8 DEF DtqStep
<1>9. CASE Next /\ winfo_dtq' = Returned /\ UNCHANGED <<dtq, free_dtq>>
  BY <1>1, <1>9
<1>10. CASE UNCHANGED dtqvars
  BY <1>1, <1>10 DEF dtqvars
<1> QED
  BY <1>8, <1>9, <1>10 DEF DtqNext

\* The rings of all data queues stay in order whatever is sent, received, reset
\* or created, and whoever waits.
THEOREM RingsStayOK == DtqSpec => []RingsOK
<1>1. DtqInv => RingsOK
  BY DEF DtqInv, AnyRing, Ring, RingsOK
<1> QED
  BY DtqInvInit, DtqInvNext, <1>1, PTL DEF DtqSpec
=============================================================================
