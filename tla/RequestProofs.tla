--------------------------- MODULE RequestProofs ---------------------------
(***************************************************************************)
(* What the application asks of the IoT Hub client is in one place or told *)
(* of once, for all messages, requests for the twin and reported states,   *)
(* whatever the scenes let fail, and whatever the limits are.              *)
(***************************************************************************)
EXTENDS TransportProofs, WellFoundedInduction

----------------------------------------------------------------------------
(* Lists of which entries are taken out.                                   *)

\* A set of numbers that is not empty has a least member.
LEMMA LeastOf ==
  ASSUME NEW S \in SUBSET Nat, S # {}
  PROVE  \E x \in S : \A y \in S : x <= y
<1>1. IsWellFoundedOn(OpToRel(<, Nat), Nat)  BY NatLessThanWellFounded
<1>2. PICK x \in S : \A y \in S : <<y, x>> \notin OpToRel(<, Nat)
  BY <1>1, WFMin, Zenon
<1>3. \A y \in S : ~ (y < x)  BY <1>2 DEF OpToRel
<1>4. QED  BY <1>3

\* r is q without some of its entries: f tells where those that stay were.
IsPart(r, q, f) ==
  /\ f \in [1 .. Len(r) -> 1 .. Len(q)]
  /\ \A a, b \in 1 .. Len(r) : a < b => f[a] < f[b]
  /\ \A a \in 1 .. Len(r) : r[a] = q[f[a]]

\* Only selects the entries in S, in their order.
LEMMA OnlyPart ==
  ASSUME NEW q, IsSeq(q), NEW S
  PROVE  \E f : /\ IsPart(Only(q, S), q, f)
                /\ \A i \in 1 .. Len(q) : q[i] \in S <=> \E a \in 1 .. Len(Only(q, S)) : f[a] = i
<1> DEFINE kept == {i \in 1 .. Len(q) : q[i] \in S}
           n == Cardinality(kept)
           upto(i) == kept \cap 1 .. i
           c == [i \in kept |-> Cardinality(upto(i))]
           place(k) == CHOOSE i \in kept : Cardinality(upto(i)) = k
           f == [k \in 1 .. n |-> place(k)]
           r == [k \in 1 .. n |-> q[place(k)]]
<1>1. Len(q) \in Nat /\ kept \subseteq Nat  BY DEF IsSeq
<1>2. IsFiniteSet(kept) /\ n \in Nat
  <2>1. IsFiniteSet(1 .. Len(q))  BY <1>1, FS_Interval
  <2>2. IsFiniteSet(kept)  BY <2>1, FS_Subset
  <2>3. QED  BY <2>2, FS_CardinalityType
<1>3. Only(q, S) = r  BY DEF Only
<1>31. \A i \in kept : i \in 1 .. Len(q) /\ q[i] \in S  OBVIOUS
<1>32. \A i \in 1 .. Len(q) : q[i] \in S => i \in kept  OBVIOUS
<1> HIDE DEF kept
<1>4. ASSUME NEW i \in kept
      PROVE  c[i] \in 1 .. n
  <2>0. i \in Nat /\ i > 0  BY <1>1, <1>31
  <2>1. upto(i) \subseteq kept /\ i \in upto(i)  BY <2>0
  <2>2. IsFiniteSet(upto(i)) /\ Cardinality(upto(i)) <= n  BY <1>2, <2>1, FS_Subset
  <2>3. Cardinality(upto(i)) \in Nat /\ Cardinality(upto(i)) # 0
    BY <2>1, <2>2, FS_CardinalityType, FS_EmptySet
  <2>4. QED  BY <1>2, <2>2, <2>3
<1>5. ASSUME NEW i \in kept, NEW j \in kept, i < j
      PROVE  c[i] < c[j]
  <2>1. upto(i) \subseteq upto(j) /\ j \in upto(j) /\ j \notin upto(i)  BY <1>1, <1>5
  <2>2. IsFiniteSet(upto(j))
    <3>1. upto(j) \subseteq kept  OBVIOUS
    <3>2. QED  BY <1>2, <3>1, FS_Subset
  <2>3. /\ Cardinality(upto(i)) <= Cardinality(upto(j))
        /\ Cardinality(upto(j)) = Cardinality(upto(i)) => upto(j) = upto(i)
    BY <2>1, <2>2, FS_Subset
  <2>4. Cardinality(upto(j)) # Cardinality(upto(i))  BY <2>1, <2>3
  <2>5. c[i] \in 1 .. n /\ c[j] \in 1 .. n  BY <1>4
  <2>6. QED  BY <1>2, <2>3, <2>4, <2>5
<1>6. c \in Injection(kept, 1 .. n)
  <2>1. c \in [kept -> 1 .. n]  BY <1>4
  <2> HIDE DEF c
  <2>2. \A i, j \in kept : c[i] = c[j] => i = j
    <3> SUFFICES ASSUME NEW i \in kept, NEW j \in kept, c[i] = c[j], i # j PROVE FALSE  OBVIOUS
    <3>1. i \in Nat /\ j \in Nat /\ c[i] \in Nat /\ c[j] \in Nat  BY <1>1, <1>2, <2>1
    <3>2. i < j \/ j < i  BY <3>1
    <3>3. QED  BY <1>5, <3>1, <3>2
  <2>3. QED  BY <2>1, <2>2 DEF Injection, IsInjective
<1>7. c \in Surjection(kept, 1 .. n)
  <2>1. IsFiniteSet(1 .. n) /\ Cardinality(1 .. n) = n  BY <1>2, FS_Interval
  <2> HIDE DEF c
  <2>2. QED  BY <1>6, <2>1, FS_Injection
<1>8. ASSUME NEW k \in 1 .. n
      PROVE  place(k) \in kept /\ c[place(k)] = k
  <2>1. \E i \in kept : c[i] = k  BY <1>7 DEF Surjection
  <2>2. \E i \in kept : Cardinality(upto(i)) = k  BY <2>1
  <2>3. place(k) \in kept /\ Cardinality(upto(place(k))) = k  BY <2>2
  <2>4. QED  BY <2>3
<1>9. ASSUME NEW i \in kept
      PROVE  c[i] \in 1 .. n /\ place(c[i]) = i
  <2>1. c[i] \in 1 .. n  BY <1>4
  <2>2. place(c[i]) \in kept /\ c[place(c[i])] = c[i]  BY <1>8, <2>1
  <2> HIDE DEF c, place
  <2>3. \A x, y \in kept : c[x] = c[y] => x = y  BY <1>6 DEF Injection, IsInjective
  <2>4. QED  BY <2>1, <2>2, <2>3
<1> HIDE DEF c, place
<1>10. r \in Seq({q[place(k)] : k \in 1 .. n}) /\ Len(r) = n  BY <1>2
<1>11. IsPart(r, q, f)
  <2>1. f \in [1 .. n -> 1 .. Len(q)]  BY <1>8, <1>31
  <2>2. ASSUME NEW a \in 1 .. n, NEW b \in 1 .. n, a < b  PROVE f[a] < f[b]
    <3>1. place(a) \in kept /\ place(b) \in kept /\ c[place(a)] = a /\ c[place(b)] = b
      BY <1>8
    <3>2. place(a) \in Nat /\ place(b) \in Nat  BY <1>1, <3>1
    <3>3. ~(place(b) < place(a)) /\ place(a) # place(b)  BY <1>2, <1>5, <2>2, <3>1
    <3>4. QED  BY <3>2, <3>3
  <2>3. \A a \in 1 .. n : r[a] = q[f[a]]  OBVIOUS
  <2> HIDE DEF f, r
  <2>4. QED  BY <1>10, <2>1, <2>2, <2>3 DEF IsPart
<1>12. ASSUME NEW i \in 1 .. Len(q)
       PROVE  q[i] \in S <=> \E a \in 1 .. n : f[a] = i
  <2>1. ASSUME q[i] \in S PROVE \E a \in 1 .. n : f[a] = i
    <3>1. i \in kept  BY <1>32, <2>1
    <3>2. c[i] \in 1 .. n /\ f[c[i]] = i  BY <1>9, <3>1
    <3>3. QED  BY <3>2
  <2>2. ASSUME NEW a \in 1 .. n, f[a] = i PROVE q[i] \in S
    BY <1>8, <1>31, <2>2
  <2>3. QED  BY <2>1, <2>2
<1> HIDE DEF r, f, n
<1>13. QED  BY <1>3, <1>10, <1>11, <1>12

\* RemoveAt takes one entry out.
LEMMA RemovePart ==
  ASSUME NEW q, IsSeq(q), NEW i \in 1 .. Len(q)
  PROVE  /\ IsSeq(RemoveAt(q, i))
         /\ \E f : /\ IsPart(RemoveAt(q, i), q, f)
                   /\ \A j \in 1 .. Len(q) : j # i <=> \E a \in 1 .. Len(RemoveAt(q, i)) : f[a] = j
<1> DEFINE n == Len(q)
           s == SubSeq(q, 1, i - 1)
           t == SubSeq(q, i + 1, n)
           r == s \o t
           S == ToSet(q)
           f == [a \in 1 .. n - 1 |-> IF a < i THEN a ELSE a + 1]
<1>1. n \in Nat /\ q \in Seq(S) /\ i \in Nat /\ i > 0 /\ i <= n  BY DEF IsSeq
<1>2. \A j \in 1 .. n : q[j] \in S  BY <1>1
<1> HIDE DEF S
<1>3. s \in Seq(S) /\ Len(s) = i - 1 /\ \A a \in 1 .. i - 1 : s[a] = q[a]
  <2>1. \A j \in 1 .. i - 1 : q[j] \in S  BY <1>1, <1>2
  <2>2. i - 1 \in Int /\ 1 \in Int  BY <1>1
  <2>3. /\ s \in Seq(S) /\ Len(s) = (IF 1 <= i - 1 THEN (i - 1) - 1 + 1 ELSE 0)
        /\ \A a \in 1 .. (i - 1) - 1 + 1 : s[a] = q[1 + a - 1]
    BY <2>1, <2>2, SubSeqProperties
  <2>4. QED  BY <1>1, <2>3
<1>4. t \in Seq(S) /\ Len(t) = n - i /\ \A a \in 1 .. n - i : t[a] = q[i + a]
  <2>1. \A j \in i + 1 .. n : q[j] \in S  BY <1>1, <1>2
  <2>2. i + 1 \in Int /\ n \in Int  BY <1>1
  <2> HIDE DEF n
  <2>3. /\ t \in Seq(S) /\ Len(t) = (IF i + 1 <= n THEN n - (i + 1) + 1 ELSE 0)
        /\ \A a \in 1 .. n - (i + 1) + 1 : t[a] = q[(i + 1) + a - 1]
    BY <2>1, <2>2, SubSeqProperties
  <2>4. n - (i + 1) + 1 = n - i /\ \A a \in 1 .. n - i : (i + 1) + a - 1 = i + a  BY <1>1
  <2>5. QED  BY <1>1, <2>3, <2>4
<1> HIDE DEF s, t, n
<1>5. r \in Seq(S) /\ Len(r) = n - 1
  <2>1. r \in Seq(S) /\ Len(r) = Len(s) + Len(t)
    BY <1>3, <1>4, ConcatProperties
  <2>2. QED  BY <1>1, <1>3, <1>4, <2>1
<1>6. \A a \in 1 .. n - 1 : r[a] = q[f[a]]
  <2> SUFFICES ASSUME NEW a \in 1 .. n - 1 PROVE r[a] = q[f[a]]  OBVIOUS
  <2>1. CASE a < i
    <3>1. r[a] = s[a] /\ f[a] = a /\ a \in 1 .. i - 1  BY <1>1, <1>3, <1>4, <2>1
    <3>2. QED  BY <1>3, <3>1
  <2>2. CASE ~(a < i)
    <3>1. a > Len(s) /\ a <= Len(s) + Len(t) /\ a - Len(s) = a - (i - 1)  BY <1>1, <1>3, <1>4, <2>2
    <3>2. r[a] = t[a - (i - 1)]  BY <1>1, <1>3, <1>4, <3>1
    <3>3. a - (i - 1) \in 1 .. n - i /\ i + (a - (i - 1)) = a + 1  BY <1>1, <2>2
    <3>4. f[a] = a + 1  BY <2>2
    <3>5. QED  BY <1>4, <3>2, <3>3, <3>4
  <2>3. QED  BY <2>1, <2>2
<1>7. f \in [1 .. n - 1 -> 1 .. n] /\ \A a, b \in 1 .. n - 1 : a < b => f[a] < f[b]  BY <1>1
<1>8. ASSUME NEW j \in 1 .. n
      PROVE  j # i <=> \E a \in 1 .. n - 1 : f[a] = j
  <2>1. CASE j < i
    <3>1. j \in 1 .. n - 1 /\ f[j] = j  BY <1>1, <2>1
    <3>2. QED  BY <2>1, <3>1
  <2>2. CASE j > i
    <3>1. j - 1 \in 1 .. n - 1 /\ f[j - 1] = j  BY <1>1, <2>2
    <3>2. QED  BY <2>2, <3>1
  <2>3. CASE j = i
    <3>1. \A a \in 1 .. n - 1 : f[a] # i  BY <1>1
    <3>2. QED  BY <2>3, <3>1
  <2>4. QED  BY <1>1, <2>1, <2>2, <2>3
<1>9. RemoveAt(q, i) = r  BY DEF RemoveAt, s, t, n
<1> HIDE DEF r, f
<1>10. IsPart(r, q, f)  BY <1>5, <1>6, <1>7 DEF IsPart, n
<1>11. \A j \in 1 .. Len(q) : j # i <=> \E a \in 1 .. Len(r) : f[a] = j  BY <1>5, <1>8 DEF n
<1>12. IsSeq(r)
  <2>1. \A x \in 1 .. Len(r) : r[x] \in ToSet(r)  BY <1>5 DEF ToSet
  <2>2. QED  BY <1>5, <2>1 DEF IsSeq
<1>13. QED  BY <1>9, <1>10, <1>11, <1>12

----------------------------------------------------------------------------
(* What is asked for is in one place: the inductive invariant.             *)

\* Messages, requests and reported states are looked for in the lists by these.
MsgEntries(q) == IsSeq(q) /\ \A i \in 1 .. Len(q) : "msg" \in DOMAIN q[i] /\ q[i].msg \in Msgs
TwinEntries(q) == IsSeq(q) /\ \A i \in 1 .. Len(q) : DOMAIN q[i] = {"pid", "kind", "id", "age"}
HasMsg(q, m) == \E i \in 1 .. Len(q) : q[i].msg = m
HasTwin(q, kind, id) == \E i \in 1 .. Len(q) : q[i].kind = kind /\ q[i].id = id
HasValue(q, r) == \E i \in 1 .. Len(q) : q[i] = r

\* None is in a list twice.
MsgsOnce(q) == \A i, j \in 1 .. Len(q) : q[i].msg = q[j].msg => i = j
TwinsOnce(q, kind) ==
  \A i, j \in 1 .. Len(q) : q[i].kind = kind /\ q[j].kind = kind /\ q[i].id = q[j].id => i = j
ValuesOnce(q) == \A i, j \in 1 .. Len(q) : q[i] = q[j] => i = j

\* A message waits, or is in flight, or the application was told.
InHand(m) == HasMsg(core.waiting, m) \/ HasMsg(tr.inflight, m)
MessagesInv ==
  /\ told.conf \in [Msgs -> Seq({"ok", "error", "timeout", "destroy"})]
  /\ MsgEntries(core.waiting) /\ MsgEntries(tr.inflight)
  /\ MsgsOnce(core.waiting) /\ MsgsOnce(tr.inflight)
  /\ \A m \in Msgs :
       /\ ~(HasMsg(core.waiting, m) /\ HasMsg(tr.inflight, m))
       /\ InHand(m) => m \in told.asked
       /\ Len(told.conf[m]) = IF m \in told.asked /\ ~InHand(m) THEN 1 ELSE 0

\* A request for the twin is queued in one of two lists, or was answered, or dropped.
Apart(q, p) ==
  \A i \in 1 .. Len(q), j \in 1 .. Len(p) :
    q[i].kind = "demand" /\ p[j].kind = "demand" => q[i].id # p[j].id
Queued(g) == HasTwin(tr.twinAck, "demand", g) \/ HasTwin(tr.twinPend, "demand", g)
GetsInv ==
  /\ told.answers \in [Gets -> Nat]
  /\ TwinEntries(tr.twinAck) /\ TwinEntries(tr.twinPend)
  /\ \A i \in 1 .. Len(tr.twinPend) : tr.twinPend[i].kind = "demand"
  /\ TwinsOnce(tr.twinAck, "demand") /\ TwinsOnce(tr.twinPend, "demand")
  /\ Apart(tr.twinAck, tr.twinPend)
  /\ \A g \in Gets :
       /\ Queued(g) => g \in told.asked
       /\ told.answers[g] \in {0, 1}
       /\ Queued(g) \/ g \notin told.asked => told.answers[g] = 0

\* A reported state waits to be published, or for its answer in both lists in the same
\* order, or the application was told, or it was dropped.
SameOrder(acks, twins) ==
  /\ \A p \in 1 .. Len(twins) : twins[p].kind = "report" => HasValue(acks, twins[p].id)
  /\ \A i \in 1 .. Len(acks) : HasTwin(twins, "report", acks[i])
  /\ \A i, j \in 1 .. Len(acks), p, q \in 1 .. Len(twins) :
       /\ twins[p].kind = "report" /\ twins[p].id = acks[i]
       /\ twins[q].kind = "report" /\ twins[q].id = acks[j]
       /\ i <= j
       => p <= q
RepsInv ==
  /\ told.reps \in [Reps -> Nat]
  /\ core.acks \in Seq(Reps) /\ core.reports \in Seq(Reps)
  /\ TwinsOnce(tr.twinAck, "report") /\ ValuesOnce(core.acks) /\ ValuesOnce(core.reports)
  /\ SameOrder(core.acks, tr.twinAck)
  /\ \A r \in Reps :
       /\ ~(HasValue(core.acks, r) /\ HasValue(core.reports, r))
       /\ told.reps[r] \in {0, 1}
       /\ HasValue(core.acks, r) \/ HasValue(core.reports, r) => r \in told.asked /\ told.reps[r] = 0
       /\ r \notin told.asked => told.reps[r] = 0

Fields == DOMAIN told = {"asked", "conf", "answers", "reps", "toggles", "whole", "early"}
PlaceRight == pc.i \in Nat \ {0} /\ (pc.at = "gone" => core.waiting = <<>> /\ tr.inflight = <<>>)
OnceInv == Fields /\ MessagesInv /\ GetsInv /\ RepsInv /\ PlaceRight

----------------------------------------------------------------------------
(* What becomes of the entries of a list.                                  *)

\* Of two places of a part, the lesser is that of the earlier entry.
LEMMA PartOrder ==
  ASSUME NEW r, NEW q, NEW f, IsPart(r, q, f), Len(r) \in Nat, Len(q) \in Nat,
         NEW a \in 1 .. Len(r), NEW b \in 1 .. Len(r), f[a] <= f[b]
  PROVE  a <= b
<1>1. f[a] \in 1 .. Len(q) /\ f[b] \in 1 .. Len(q)  BY DEF IsPart
<1>2. b < a => f[b] < f[a]  BY DEF IsPart
<1>3. QED  BY <1>1, <1>2

\* Two places of a part are not those of one entry.
LEMMA PartOnce ==
  ASSUME NEW r, NEW q, NEW f, IsPart(r, q, f), Len(r) \in Nat, Len(q) \in Nat,
         NEW a \in 1 .. Len(r), NEW b \in 1 .. Len(r), f[a] = f[b]
  PROVE  a = b
<1>1. f[a] \in 1 .. Len(q) /\ f[b] \in 1 .. Len(q)  BY DEF IsPart
<1>2. a <= b /\ b <= a  BY <1>1, PartOrder
<1>3. QED  BY <1>2

\* A part of a list of messages; those that are not in it are the ones of T.
MsgsBut(r, q, f, T) == \A i \in 1 .. Len(q) : q[i].msg \notin T <=> \E a \in 1 .. Len(r) : f[a] = i

\* A part of a list of messages is one, without the messages of T.
LEMMA MsgsPart ==
  ASSUME NEW r, NEW q, NEW f, IsPart(r, q, f), IsSeq(r), MsgEntries(q), MsgsOnce(q), NEW T,
         MsgsBut(r, q, f, T)
  PROVE  /\ MsgEntries(r) /\ MsgsOnce(r)
         /\ \A m : HasMsg(r, m) <=> HasMsg(q, m) /\ m \notin T
<1>1. Len(r) \in Nat /\ Len(q) \in Nat  BY LenIsNat DEF MsgEntries
<1>2. \A a \in 1 .. Len(r) : f[a] \in 1 .. Len(q) /\ r[a] = q[f[a]]  BY DEF IsPart
<1>3. MsgEntries(r)  BY <1>2 DEF MsgEntries
<1>4. ASSUME NEW a \in 1 .. Len(r), NEW b \in 1 .. Len(r), r[a].msg = r[b].msg  PROVE a = b
  <2>1. f[a] \in 1 .. Len(q) /\ f[b] \in 1 .. Len(q) /\ q[f[a]].msg = q[f[b]].msg  BY <1>2, <1>4
  <2>2. f[a] = f[b]  BY <2>1 DEF MsgsOnce
  <2>3. QED  BY <1>1, <2>2, PartOnce
<1>5. ASSUME NEW m  PROVE HasMsg(r, m) <=> HasMsg(q, m) /\ m \notin T
  BY <1>2 DEF HasMsg, MsgsBut
<1>6. QED  BY <1>3, <1>4, <1>5 DEF MsgsOnce

\* Messages that are selected from a list: those of the others are in T.
LEMMA MsgsOnly ==
  ASSUME NEW q, MsgEntries(q), MsgsOnce(q), NEW S, NEW T,
         \A i \in 1 .. Len(q) : q[i].msg \in T <=> q[i] \notin S
  PROVE  /\ MsgEntries(Only(q, S)) /\ MsgsOnce(Only(q, S))
         /\ \A m : HasMsg(Only(q, S), m) <=> HasMsg(q, m) /\ m \notin T
<1>1. IsSeq(q)  BY DEF MsgEntries
<1>2. PICK f : /\ IsPart(Only(q, S), q, f)
               /\ \A i \in 1 .. Len(q) : q[i] \in S <=> \E a \in 1 .. Len(Only(q, S)) : f[a] = i
  BY <1>1, OnlyPart
<1>3. IsSeq(Only(q, S))  BY <1>1, OnlyIsSeq
<1> DEFINE r == Only(q, S)
<1> HIDE DEF r
<1>4. IsPart(r, q, f) /\ IsSeq(r) /\ MsgsBut(r, q, f, T)  BY <1>2, <1>3 DEF r, MsgsBut
<1>5. /\ MsgEntries(r) /\ MsgsOnce(r)
      /\ \A m : HasMsg(r, m) <=> HasMsg(q, m) /\ m \notin T
  BY <1>4, MsgsPart
<1>6. QED  BY <1>5 DEF r

\* A message that is taken out.
LEMMA MsgsRemove ==
  ASSUME NEW q, MsgEntries(q), MsgsOnce(q), NEW i \in 1 .. Len(q)
  PROVE  LET r == RemoveAt(q, i)
         IN  /\ MsgEntries(r) /\ MsgsOnce(r)
             /\ \A m : HasMsg(r, m) <=> HasMsg(q, m) /\ m \notin {q[i].msg}
<1> DEFINE r == RemoveAt(q, i)
<1>1. IsSeq(q)  BY DEF MsgEntries
<1>2. IsSeq(r)  BY <1>1, RemovePart
<1>3. PICK f : IsPart(r, q, f) /\ \A j \in 1 .. Len(q) : j # i <=> \E a \in 1 .. Len(r) : f[a] = j
  BY <1>1, RemovePart
<1> HIDE DEF r
<1>4. MsgsBut(r, q, f, {q[i].msg})  BY <1>3 DEF MsgsOnce, MsgsBut
<1>5. /\ MsgEntries(r) /\ MsgsOnce(r)
      /\ \A m : HasMsg(r, m) <=> HasMsg(q, m) /\ m \notin {q[i].msg}
  BY <1>2, <1>3, <1>4, MsgsPart
<1>6. QED  BY <1>5 DEF r

\* Entries of which nothing but the age or the number of attempts changed.
LEMMA MsgsMapped ==
  ASSUME NEW q, MsgEntries(q), MsgsOnce(q), NEW r, IsSeq(r), Len(r) = Len(q),
         \A i \in 1 .. Len(q) : "msg" \in DOMAIN r[i] /\ r[i].msg = q[i].msg
  PROVE  /\ MsgEntries(r) /\ MsgsOnce(r)
         /\ \A m : HasMsg(r, m) <=> HasMsg(q, m)
BY DEF MsgEntries, MsgsOnce, HasMsg

\* r is q and then x.
Joined(r, q, x) ==
  /\ IsSeq(r) /\ Len(r) = Len(q) + Len(x)
  /\ \A i \in 1 .. Len(q) : r[i] = q[i]
  /\ \A i \in 1 .. Len(x) : r[Len(q) + i] = x[i]

\* Concatenation joins two lists.
LEMMA ConcatJoins ==
  ASSUME NEW q, IsSeq(q), NEW x, IsSeq(x)
  PROVE  Joined(q \o x, q, x)
<1> DEFINE S == ToSet(q) \cup ToSet(x)
           r == q \o x
<1>1. q \in Seq(ToSet(q)) /\ x \in Seq(ToSet(x))  BY DEF IsSeq
<1>2. q \in Seq(S) /\ x \in Seq(S)  BY <1>1
<1> HIDE DEF S
<1>3. Len(q) \in Nat /\ Len(x) \in Nat  BY <1>1
<1>4. /\ r \in Seq(S) /\ Len(r) = Len(q) + Len(x)
      /\ \A i \in 1 .. Len(q) + Len(x) : r[i] = IF i <= Len(q) THEN q[i] ELSE x[i - Len(q)]
  BY <1>2, ConcatProperties
<1> HIDE DEF r
<1>5. IsSeq(r)  BY <1>4, SeqIsSeq
<1>6. ASSUME NEW i \in 1 .. Len(q)  PROVE r[i] = q[i]
  BY <1>3, <1>4
<1>7. ASSUME NEW i \in 1 .. Len(x)  PROVE r[Len(q) + i] = x[i]
  <2>1. /\ Len(q) + i \in 1 .. Len(q) + Len(x)
        /\ ~(Len(q) + i <= Len(q)) /\ (Len(q) + i) - Len(q) = i
    BY <1>3
  <2>2. QED  BY <1>4, <2>1
<1>8. Joined(r, q, x)  BY <1>4, <1>5, <1>6, <1>7 DEF Joined
<1>9. QED  BY <1>8 DEF r

\* So does Append, one of which is a single entry.
LEMMA AppendJoins ==
  ASSUME NEW q, IsSeq(q), NEW e
  PROVE  /\ IsSeq(<<e>>) /\ Len(<<e>>) = 1 /\ <<e>>[1] = e
         /\ Joined(Append(q, e), q, <<e>>)
<1>1. <<e>> \in Seq({e}) /\ Len(<<e>>) = 1 /\ <<e>>[1] = e  OBVIOUS
<1>2. IsSeq(<<e>>)
  <2> DEFINE x == <<e>>
  <2>1. x \in Seq({e})  BY <1>1
  <2> HIDE DEF x
  <2>2. IsSeq(x)  BY <2>1, SeqIsSeq
  <2>3. QED  BY <2>2 DEF x
<1>3. q \in Seq(ToSet(q))  BY DEF IsSeq
<1>4. IsSeq(Append(q, e))  BY AppendIsSeq
<1>5. /\ Len(Append(q, e)) = Len(q) + 1
      /\ \A i \in 1 .. Len(q) : Append(q, e)[i] = q[i]
      /\ Append(q, e)[Len(q) + 1] = e
  BY <1>3
<1>6. QED  BY <1>1, <1>2, <1>4, <1>5 DEF Joined

\* An entry of the whole is one of q or one of x.
LEMMA JoinedPlaces ==
  ASSUME NEW r, NEW q, NEW x, IsSeq(q), IsSeq(x), Joined(r, q, x), NEW i \in 1 .. Len(r)
  PROVE  \/ i \in 1 .. Len(q) /\ r[i] = q[i]
         \/ \E j \in 1 .. Len(x) : i = Len(q) + j /\ r[i] = x[j]
<1>1. Len(q) \in Nat /\ Len(x) \in Nat  BY LenIsNat
<1>2. CASE i <= Len(q)  BY <1>1, <1>2 DEF Joined
<1>3. CASE ~(i <= Len(q))
  <2>1. i - Len(q) \in 1 .. Len(x) /\ i = Len(q) + (i - Len(q))  BY <1>1, <1>3 DEF Joined
  <2>2. QED  BY <2>1 DEF Joined
<1>4. QED  BY <1>2, <1>3

\* From entry j + 1 to entry k.
LEMMA Slice ==
  ASSUME NEW q, IsSeq(q), NEW j \in Nat, NEW k \in Nat, k <= Len(q)
  PROVE  LET r == SubSeq(q, j + 1, k)
         IN  /\ IsSeq(r) /\ r \in Seq(ToSet(q)) /\ Len(r) = IF j <= k THEN k - j ELSE 0
             /\ \A a \in 1 .. Len(r) : a + j \in 1 .. k /\ r[a] = q[a + j]
<1> DEFINE r == SubSeq(q, j + 1, k)
<1>1. Len(q) \in Nat /\ q \in Seq(ToSet(q))  BY DEF IsSeq
<1>2. \A i \in j + 1 .. k : q[i] \in ToSet(q)  BY <1>1
<1>3. j + 1 \in Int /\ k \in Int  OBVIOUS
<1>4. /\ r \in Seq(ToSet(q)) /\ Len(r) = (IF j + 1 <= k THEN k - (j + 1) + 1 ELSE 0)
      /\ \A a \in 1 .. k - (j + 1) + 1 : r[a] = q[(j + 1) + a - 1]
  BY <1>2, <1>3, SubSeqProperties
<1> HIDE DEF r
<1>5. IsSeq(r)  BY <1>4, SeqIsSeq
<1>6. Len(r) = IF j <= k THEN k - j ELSE 0  BY <1>4
<1>7. ASSUME NEW a \in 1 .. Len(r)  PROVE a + j \in 1 .. k /\ r[a] = q[a + j]
  <2>1. a \in 1 .. k - (j + 1) + 1 /\ (j + 1) + a - 1 = a + j /\ a + j \in 1 .. k
    BY <1>6
  <2>2. QED  BY <1>4, <2>1
<1>8. QED  BY <1>4, <1>5, <1>6, <1>7 DEF r

\* Lists of messages with none in common make a list of messages.
LEMMA MsgsJoin ==
  ASSUME NEW r, NEW q, NEW x, Joined(r, q, x), MsgEntries(q), MsgEntries(x), MsgsOnce(q), MsgsOnce(x),
         \A m : ~(HasMsg(q, m) /\ HasMsg(x, m))
  PROVE  /\ MsgEntries(r) /\ MsgsOnce(r)
         /\ \A m : HasMsg(r, m) <=> HasMsg(q, m) \/ HasMsg(x, m)
<1>1. IsSeq(q) /\ IsSeq(x) /\ IsSeq(r)  BY DEF MsgEntries, Joined
<1>2. Len(q) \in Nat /\ Len(x) \in Nat  BY <1>1, LenIsNat
<1> DEFINE InQ(i) == i \in 1 .. Len(q) /\ r[i] = q[i]
           InX(i) == \E j \in 1 .. Len(x) : i = Len(q) + j /\ r[i] = x[j]
<1>3. \A i \in 1 .. Len(r) : InQ(i) \/ InX(i)  BY <1>1, JoinedPlaces
<1>4. MsgEntries(r)  BY <1>1, <1>3 DEF MsgEntries
<1>5. ASSUME NEW i \in 1 .. Len(r), NEW j \in 1 .. Len(r), r[i].msg = r[j].msg  PROVE i = j
  <2>1. CASE InQ(i) /\ InQ(j)  BY <1>5, <2>1 DEF MsgsOnce
  <2>2. CASE InX(i) /\ InX(j)
    <3>1. PICK a \in 1 .. Len(x) : i = Len(q) + a /\ r[i] = x[a]  BY <2>2
    <3>2. PICK b \in 1 .. Len(x) : j = Len(q) + b /\ r[j] = x[b]  BY <2>2
    <3>3. a = b  BY <1>5, <3>1, <3>2 DEF MsgsOnce
    <3>4. QED  BY <3>1, <3>2, <3>3
  <2>3. CASE InQ(i) /\ InX(j)  BY <1>5, <2>3 DEF HasMsg
  <2>4. CASE InX(i) /\ InQ(j)  BY <1>5, <2>4 DEF HasMsg
  <2>5. QED  BY <1>3, <2>1, <2>2, <2>3, <2>4
<1>6. ASSUME NEW m  PROVE HasMsg(r, m) <=> HasMsg(q, m) \/ HasMsg(x, m)
  <2>1. ASSUME HasMsg(r, m) PROVE HasMsg(q, m) \/ HasMsg(x, m)  BY <1>3, <2>1 DEF HasMsg
  <2>2. ASSUME HasMsg(q, m) PROVE HasMsg(r, m)
    <3>1. PICK i \in 1 .. Len(q) : q[i].msg = m  BY <2>2 DEF HasMsg
    <3>2. i \in 1 .. Len(r) /\ r[i] = q[i]  BY <1>2 DEF Joined
    <3>3. QED  BY <3>1, <3>2 DEF HasMsg
  <2>3. ASSUME HasMsg(x, m) PROVE HasMsg(r, m)
    <3>1. PICK i \in 1 .. Len(x) : x[i].msg = m  BY <2>3 DEF HasMsg
    <3>2. Len(q) + i \in 1 .. Len(r) /\ r[Len(q) + i] = x[i]  BY <1>2 DEF Joined
    <3>3. QED  BY <3>1, <3>2 DEF HasMsg
  <2>4. QED  BY <2>1, <2>2, <2>3
<1>7. QED  BY <1>4, <1>5, <1>6 DEF MsgsOnce

----------------------------------------------------------------------------
(* Messages.                                                               *)

\* What keeps the messages in one place: those of T leave the lists and are told of.
LEMMA MessagesMove ==
  ASSUME MessagesInv, NEW T, NEW result \in {"ok", "error", "timeout", "destroy"},
         told'.conf = SendComplete(told, T, result).conf, DOMAIN told = DOMAIN told',
         "conf" \in DOMAIN told,
         \A m \in Msgs : m \in told'.asked <=> m \in told.asked,
         MsgEntries(core'.waiting), MsgEntries(tr'.inflight),
         MsgsOnce(core'.waiting), MsgsOnce(tr'.inflight),
         \A m \in Msgs : ~(HasMsg(core'.waiting, m) /\ HasMsg(tr'.inflight, m)),
         \A m \in Msgs : HasMsg(core'.waiting, m) \/ HasMsg(tr'.inflight, m) <=> InHand(m) /\ m \notin T,
         \A m \in Msgs \cap T : InHand(m)
  PROVE  MessagesInv'
<1> DEFINE R == {"ok", "error", "timeout", "destroy"}
           c == told.conf
           d == [m \in Msgs |-> IF m \in T THEN Append(c[m], result) ELSE c[m]]
<1>1. c \in [Msgs -> Seq(R)]  BY DEF MessagesInv
<1>2. told'.conf = d  BY DEF SendComplete
<1> HIDE DEF c, R
<1>3. d \in [Msgs -> Seq(R)]  BY <1>1 DEF R
<1>4. ASSUME NEW m \in Msgs
      PROVE  /\ ~(HasMsg(core'.waiting, m) /\ HasMsg(tr'.inflight, m))
             /\ InHand(m)' => m \in told'.asked
             /\ Len(d[m]) = IF m \in told'.asked /\ ~InHand(m)' THEN 1 ELSE 0
  <2>1. InHand(m)' <=> InHand(m) /\ m \notin T  BY DEF InHand
  <2>2. /\ InHand(m) => m \in told.asked
        /\ Len(c[m]) = IF m \in told.asked /\ ~InHand(m) THEN 1 ELSE 0
    BY DEF MessagesInv, c
  <2>3. CASE m \in T
    <3>1. InHand(m) /\ m \in told.asked /\ Len(c[m]) = 0  BY <2>2, <2>3
    <3>2. d[m] = Append(c[m], result) /\ c[m] \in Seq(R)  BY <1>1, <2>3
    <3>3. Len(d[m]) = 1  BY <3>1, <3>2
    <3>4. QED  BY <2>1, <2>3, <3>1, <3>3
  <2>4. CASE m \notin T
    <3>1. d[m] = c[m]  BY <2>4
    <3>2. QED  BY <2>1, <2>2, <2>4, <3>1
  <2>5. QED  BY <2>3, <2>4
<1> HIDE DEF d
<1>5. told.conf' \in [Msgs -> Seq(R)]  BY <1>2, <1>3
<1>6. QED  BY <1>2, <1>4, <1>5 DEF MessagesInv, R

\* Steps that leave the lists of messages alone.
LEMMA MessagesStay ==
  ASSUME MessagesInv, core'.waiting = core.waiting, tr'.inflight = tr.inflight,
         told'.conf = told.conf, \A m \in Msgs : m \in told'.asked <=> m \in told.asked
  PROVE  MessagesInv'
BY DEF MessagesInv, InHand

\* The same lists with other ages.
LEMMA MessagesMapped ==
  ASSUME MessagesInv, told'.conf = told.conf, told'.asked = told.asked,
         NEW w, NEW v, core'.waiting = w, tr'.inflight = v,
         IsSeq(w), Len(w) = Len(core.waiting), IsSeq(v), Len(v) = Len(tr.inflight),
         \A i \in 1 .. Len(w) : "msg" \in DOMAIN w[i] /\ w[i].msg = core.waiting[i].msg,
         \A i \in 1 .. Len(v) : "msg" \in DOMAIN v[i] /\ v[i].msg = tr.inflight[i].msg
  PROVE  MessagesInv'
<1>1. /\ MsgEntries(core.waiting) /\ MsgEntries(tr.inflight)
      /\ MsgsOnce(core.waiting) /\ MsgsOnce(tr.inflight)
  BY DEF MessagesInv
<1>2. /\ MsgEntries(w) /\ MsgsOnce(w) /\ \A m : HasMsg(w, m) <=> HasMsg(core.waiting, m)
  BY <1>1, MsgsMapped
<1>3. /\ MsgEntries(v) /\ MsgsOnce(v) /\ \A m : HasMsg(v, m) <=> HasMsg(tr.inflight, m)
  BY <1>1, MsgsMapped
<1>4. QED  BY <1>2, <1>3 DEF MessagesInv, InHand

\* Nothing is waited for any more.
LEMMA NoMsgs ==
  /\ MsgEntries(<<>>) /\ MsgsOnce(<<>>) /\ \A m : ~HasMsg(<<>>, m)
<1>1. IsSeq(<<>>)  BY EmptyWithout
<1>2. \A i \in 1 .. Len(<<>>) : FALSE  OBVIOUS
<1>3. QED  BY <1>1, <1>2 DEF MsgEntries, MsgsOnce, HasMsg

\* SendEventAsync: a new message waits.
LEMMA SendEventMsgs ==
  ASSUME ConnInv, OnceInv, NEW mm \in Msgs, SendEventAsync(mm)
  PROVE  MessagesInv'
<1> DEFINE e == [msg |-> mm, age |-> 0]
           w == Append(core.waiting, e)
<1>1. MessagesInv /\ DOMAIN told = {"asked", "conf", "answers", "reps", "toggles", "whole", "early"}
  BY DEF OnceInv, Fields
<1>2. /\ core'.waiting = w /\ tr' = tr /\ told'.asked = told.asked \cup {mm} /\ told'.conf = told.conf
      /\ mm \notin told.asked
  BY <1>1 DEF SendEventAsync, ConnInv, Shapes
<1>3. /\ MsgEntries(core.waiting) /\ MsgsOnce(core.waiting) /\ IsSeq(core.waiting)
      /\ ~InHand(mm) /\ Len(told.conf[mm]) = 0
  BY <1>1, <1>2 DEF MessagesInv, MsgEntries
<1>4. /\ IsSeq(<<e>>) /\ Len(<<e>>) = 1 /\ <<e>>[1] = e /\ Joined(w, core.waiting, <<e>>)
  BY <1>3, AppendJoins
<1>5. e.msg = mm /\ "msg" \in DOMAIN e  OBVIOUS
<1> DEFINE x == <<e>>
<1> HIDE DEF e, w, x
<1>6. /\ MsgEntries(x) /\ MsgsOnce(x) /\ \A m : HasMsg(x, m) <=> m = mm
  BY <1>4, <1>5 DEF MsgEntries, MsgsOnce, HasMsg, x
<1>7. \A m : ~(HasMsg(core.waiting, m) /\ HasMsg(x, m))  BY <1>3, <1>6 DEF InHand
<1>8. /\ MsgEntries(w) /\ MsgsOnce(w)
      /\ \A m : HasMsg(w, m) <=> HasMsg(core.waiting, m) \/ m = mm
  BY <1>3, <1>4, <1>6, <1>7, MsgsJoin DEF x
<1>9. QED
  <2>1. \A m \in Msgs : InHand(m)' <=> InHand(m) \/ m = mm  BY <1>2, <1>8 DEF InHand
  <2>2. \A m \in Msgs : ~(HasMsg(w, m) /\ HasMsg(tr.inflight, m))
    BY <1>1, <1>3, <1>8 DEF MessagesInv, InHand
  <2>3. ASSUME NEW m \in Msgs
        PROVE  /\ InHand(m)' => m \in told'.asked
               /\ Len(told'.conf[m]) = IF m \in told'.asked /\ ~InHand(m)' THEN 1 ELSE 0
    BY <1>1, <1>2, <1>3, <2>1 DEF MessagesInv
  <2>4. QED  BY <1>1, <1>2, <1>8, <2>2, <2>3 DEF MessagesInv

\* What telling the application changes.
LEMMA Completes ==
  ASSUME Fields, NEW T, NEW result
  PROVE  LET td == SendComplete(told, T, result)
         IN  /\ DOMAIN td = DOMAIN told /\ td.asked = told.asked /\ td.answers = told.answers
             /\ td.reps = told.reps
BY DEF Fields, SendComplete

\* The lists of the transport, which most of the parts of the handlers leave alone.
SameLists(u, t) ==
  DOMAIN u = TrFields /\ u.inflight = t.inflight /\ u.twinAck = t.twinAck /\ u.twinPend = t.twinPend

\* The parts of the handlers that leave the lists alone.
LEMMA ListsStay ==
  ASSUME NEW t, DOMAIN t = TrFields
  PROVE  /\ SameLists(mqtt_error_callback(t), t)
         /\ \A topic : SameLists(SubscribeTopic(t, topic), t)
         /\ \A o \in DisconnectFromClient(t) : SameLists(o.tr, t)
<1> USE DEF SameLists, TrFields
<1>1. SameLists(mqtt_error_callback(t), t)  BY DEF mqtt_error_callback
<1>2. \A topic : SameLists(SubscribeTopic(t, topic), t)
  BY DEF SubscribeTopic, changeStateToSubscribeIfAllowed
<1>3. ASSUME NEW o \in DisconnectFromClient(t)  PROVE SameLists(o.tr, t)
  <2> DEFINE u == mqtt_error_callback(t)
             drop(v) == [v EXCEPT !.getSent = FALSE, !.status = "NOT_CONNECTED", !.pkt = "DISCONNECT"]
  <2>1. SameLists(drop(t), t)  OBVIOUS
  <2>2. SameLists(drop(u), t)
    <3> HIDE DEF u
    <3>1. QED  BY <1>1 DEF u
  <2>3. o.tr = t \/ o.tr = drop(t) \/ o.tr = drop(u)
    BY DEF DisconnectFromClient
  <2> HIDE DEF drop, u
  <2>4. QED  BY <2>1, <2>2, <2>3
<1>4. QED  BY <1>1, <1>2, <1>3

\* OnPuback.
LEMMA PubackMsgs ==
  ASSUME ConnInv, OnceInv, NEW pid, OnPuback(pid)
  PROVE  MessagesInv' /\ Fields'
<1> DEFINE q == tr.inflight
           S == {e \in ToSet(q) : ~Acknowledged(e, pid)}
           T == {e.msg : e \in {x \in ToSet(q) : Acknowledged(x, pid)}}
           v == Only(q, S)
<1>1. MessagesInv /\ Fields  BY DEF OnceInv
<1>2. /\ told' = SendComplete(told, T, "ok") /\ tr'.inflight = v /\ core' = core
  BY DEF OnPuback, ConnInv, Shapes
<1>3. told'.asked = told.asked /\ DOMAIN told' = DOMAIN told /\ "conf" \in DOMAIN told
  BY <1>1, <1>2, Completes DEF Fields
<1>4. /\ MsgEntries(q) /\ MsgsOnce(q) /\ MsgEntries(core.waiting) /\ MsgsOnce(core.waiting)
      /\ \A m \in Msgs : ~(HasMsg(core.waiting, m) /\ HasMsg(q, m))
  BY <1>1 DEF MessagesInv
<1>5. DOMAIN q = 1 .. Len(q)  BY <1>4 DEF MsgEntries, IsSeq
<1>6. \A i \in 1 .. Len(q) : q[i].msg \in T <=> q[i] \notin S
  <2> SUFFICES ASSUME NEW i \in 1 .. Len(q) PROVE q[i].msg \in T <=> q[i] \notin S  OBVIOUS
  <2>1. q[i] \in ToSet(q)  BY <1>5 DEF ToSet
  <2>2. ASSUME q[i].msg \in T PROVE q[i] \notin S
    <3>1. PICK e \in ToSet(q) : Acknowledged(e, pid) /\ e.msg = q[i].msg  BY <2>2
    <3>2. PICK j \in 1 .. Len(q) : e = q[j]  BY <1>5 DEF ToSet
    <3>3. e = q[i]  BY <1>4, <3>1, <3>2 DEF MsgsOnce
    <3>4. QED  BY <3>1, <3>3
  <2>3. QED  BY <2>1, <2>2
<1>7. \A m \in T : HasMsg(q, m)  BY <1>5 DEF HasMsg, ToSet
<1> HIDE DEF q, T, S, v
<1>8. MsgEntries(v) /\ MsgsOnce(v) /\ \A m : HasMsg(v, m) <=> HasMsg(q, m) /\ m \notin T
  BY <1>4, <1>6, MsgsOnly DEF v
<1>9. \A m \in Msgs : ~(HasMsg(core.waiting, m) /\ m \in T)  BY <1>4, <1>7
<1>10. /\ \A m \in Msgs : HasMsg(core'.waiting, m) \/ HasMsg(tr'.inflight, m) <=> InHand(m) /\ m \notin T
       /\ \A m \in Msgs \cap T : InHand(m)
  BY <1>2, <1>7, <1>8, <1>9 DEF InHand, q
<1>11. MessagesInv'
  BY <1>1, <1>2, <1>3, <1>4, <1>8, <1>10, MessagesMove
<1>12. QED  BY <1>1, <1>3, <1>11 DEF Fields

\* A message is given up.
LEMMA GivenUpMsgs ==
  ASSUME ConnInv, OnceInv, NEW i \in 1 .. Len(tr.inflight), NEW result \in {"error", "timeout"},
         told' = SendComplete(told, {tr.inflight[i].msg}, result), core' = core,
         tr'.inflight = RemoveAt(tr.inflight, i)
  PROVE  MessagesInv' /\ Fields'
<1> DEFINE q == tr.inflight
           T == {q[i].msg}
           v == RemoveAt(q, i)
<1>1. MessagesInv /\ Fields  BY DEF OnceInv
<1>3. told'.asked = told.asked /\ DOMAIN told' = DOMAIN told /\ "conf" \in DOMAIN told
  BY <1>1, Completes DEF Fields
<1>4. /\ MsgEntries(q) /\ MsgsOnce(q) /\ MsgEntries(core.waiting) /\ MsgsOnce(core.waiting)
      /\ \A m \in Msgs : ~(HasMsg(core.waiting, m) /\ HasMsg(q, m))
  BY <1>1 DEF MessagesInv
<1>7. \A m \in T : HasMsg(q, m)  BY DEF HasMsg
<1>8. MsgEntries(v) /\ MsgsOnce(v) /\ \A m : HasMsg(v, m) <=> HasMsg(q, m) /\ m \notin T
  BY <1>4, MsgsRemove
<1>2. told' = SendComplete(told, T, result) /\ tr'.inflight = v  OBVIOUS
<1> HIDE DEF q, T, v
<1>9. \A m \in Msgs : ~(HasMsg(core.waiting, m) /\ m \in T)  BY <1>4, <1>7
<1>10. /\ \A m \in Msgs : HasMsg(core'.waiting, m) \/ HasMsg(tr'.inflight, m) <=> InHand(m) /\ m \notin T
       /\ \A m \in Msgs \cap T : InHand(m)
  BY <1>2, <1>7, <1>8, <1>9 DEF InHand, q
<1>11. MessagesInv'
  BY <1>1, <1>2, <1>3, <1>4, <1>8, <1>10, MessagesMove
<1>12. QED  BY <1>1, <1>3, <1>11 DEF Fields

\* DoTimeouts.
LEMMA CoreMsgs ==
  ASSUME ConnInv, OnceInv, CoreDoWork, tr'.inflight = tr.inflight
  PROVE  MessagesInv' /\ Fields'
<1> DEFINE q == core.waiting
           S == {e \in ToSet(q) : ~Late(e)}
           T == {e.msg : e \in {x \in ToSet(q) : Late(x)}}
           v == Only(q, S)
<1>1. MessagesInv /\ Fields  BY DEF OnceInv
<1>2. /\ told' = SendComplete(told, T, "timeout") /\ core'.waiting = v
  BY DEF CoreDoWork, ConnInv, Shapes
<1>3. told'.asked = told.asked /\ DOMAIN told' = DOMAIN told /\ "conf" \in DOMAIN told
  BY <1>1, <1>2, Completes DEF Fields
<1>4. /\ MsgEntries(q) /\ MsgsOnce(q) /\ MsgEntries(tr.inflight) /\ MsgsOnce(tr.inflight)
      /\ \A m \in Msgs : ~(HasMsg(tr.inflight, m) /\ HasMsg(q, m))
  BY <1>1 DEF MessagesInv
<1>5. DOMAIN q = 1 .. Len(q)  BY <1>4 DEF MsgEntries, IsSeq
<1>6. \A i \in 1 .. Len(q) : q[i].msg \in T <=> q[i] \notin S
  <2> SUFFICES ASSUME NEW i \in 1 .. Len(q) PROVE q[i].msg \in T <=> q[i] \notin S  OBVIOUS
  <2>1. q[i] \in ToSet(q)  BY <1>5 DEF ToSet
  <2>2. ASSUME q[i].msg \in T PROVE q[i] \notin S
    <3>1. PICK e \in ToSet(q) : Late(e) /\ e.msg = q[i].msg  BY <2>2
    <3>2. PICK j \in 1 .. Len(q) : e = q[j]  BY <1>5 DEF ToSet
    <3>3. e = q[i]  BY <1>4, <3>1, <3>2 DEF MsgsOnce
    <3>4. QED  BY <3>1, <3>3
  <2>3. QED  BY <2>1, <2>2
<1>7. \A m \in T : HasMsg(q, m)  BY <1>5 DEF HasMsg, ToSet
<1> HIDE DEF q, T, S, v
<1>8. MsgEntries(v) /\ MsgsOnce(v) /\ \A m : HasMsg(v, m) <=> HasMsg(q, m) /\ m \notin T
  BY <1>4, <1>6, MsgsOnly DEF v
<1>9. \A m \in Msgs : ~(HasMsg(tr.inflight, m) /\ m \in T)  BY <1>4, <1>7
<1>10. /\ \A m \in Msgs : HasMsg(core'.waiting, m) \/ HasMsg(tr'.inflight, m) <=> InHand(m) /\ m \notin T
       /\ \A m \in Msgs \cap T : InHand(m)
  BY <1>2, <1>7, <1>8, <1>9 DEF InHand, q
<1>11. MessagesInv'
  BY <1>1, <1>2, <1>3, <1>4, <1>8, <1>10, MessagesMove
<1>12. QED  BY <1>1, <1>3, <1>11 DEF Fields

\* Of the messages that wait, the first k are in flight afterwards.
LEMMA PublishMsgs ==
  ASSUME ConnInv, OnceInv, PublishAll
  PROVE  MessagesInv' /\ Fields'
<1> DEFINE w == core.waiting
           n == Len(w)
           all == n + Len(tr.twinPend)
           entry(i) == [msg |-> w[i].msg, pid |-> PidAfter(tr.pid, i), retry |-> 1, age |-> 0]
<1>1. MessagesInv /\ Fields /\ DOMAIN tr = TrFields /\ IsSeq(tr.twinPend) /\ IsSeq(w)
  BY TransportFacts DEF OnceInv
<1>2. PICK k \in Accepted(all) :
        LET m == IF k < n THEN k ELSE n
            t == [tr EXCEPT !.pid = PidAfter(@, n), !.twinPend = <<>>,
                            !.inflight = @ \o [i \in 1 .. m |-> entry(i)],
                            !.twinAck = @ \o SubSeq(tr.twinPend, 1, k - m),
                            !.getSent = @ \/ k > n]
        IN  /\ tr' = IF Breaks(k, all) THEN mqtt_error_callback(t) ELSE t
            /\ told' = SendComplete(told, {w[i].msg : i \in m + 1 .. n}, "error")
            /\ core' = [core EXCEPT !.waiting = PublishWaiting(k, n)]
  BY DEF PublishAll
<1> DEFINE m == IF k < n THEN k ELSE n
           x == [i \in 1 .. m |-> entry(i)]
           T == {w[i].msg : i \in m + 1 .. n}
           v == tr.inflight \o x
           t == [tr EXCEPT !.pid = PidAfter(@, n), !.twinPend = <<>>,
                           !.inflight = v, !.twinAck = @ \o SubSeq(tr.twinPend, 1, k - m),
                           !.getSent = @ \/ k > n]
<1>3. n \in Nat /\ all \in Nat
  <2>1. n \in Nat /\ Len(tr.twinPend) \in Nat  BY <1>1, LenIsNat
  <2> DEFINE p == Len(tr.twinPend)
  <2> HIDE DEF n, p
  <2>2. n + p \in Nat  BY <2>1 DEF p
  <2>3. QED  BY <2>1, <2>2 DEF p
<1>4. k \in 0 .. all /\ m \in 0 .. n
  <2>1. k \in 0 .. all
    <3> HIDE DEF all
    <3>1. QED  BY <1>3 DEF Accepted
  <2>2. k \in Nat  BY <1>3, <2>1
  <2> HIDE DEF n
  <2>3. m \in 0 .. n  BY <1>3, <2>2
  <2>4. QED  BY <2>1, <2>3 DEF n
<1>5. told' = SendComplete(told, T, "error") /\ core'.waiting = <<>>
  BY <1>2 DEF PublishWaiting, ConnInv, Shapes
<1>6. DOMAIN t = TrFields /\ t.inflight = v  BY <1>1 DEF TrFields
<1>7. tr'.inflight = v
  <2>1. tr' = IF Breaks(k, all) THEN mqtt_error_callback(t) ELSE t  BY <1>2
  <2> HIDE DEF t, v, x, m, all, n
  <2>2. QED  BY <1>6, <2>1, ListsStay DEF SameLists
<1>8. told'.asked = told.asked /\ DOMAIN told' = DOMAIN told /\ "conf" \in DOMAIN told
  BY <1>1, <1>5, Completes DEF Fields
<1>9. /\ MsgEntries(w) /\ MsgsOnce(w) /\ MsgEntries(tr.inflight) /\ MsgsOnce(tr.inflight)
      /\ \A mm \in Msgs : ~(HasMsg(w, mm) /\ HasMsg(tr.inflight, mm))
  BY <1>1 DEF MessagesInv
<1>10. IsSeq(x) /\ Len(x) = m
  <2>1. x \in Seq({entry(i) : i \in 1 .. m}) /\ Len(x) = m
    <3>1. m \in Nat  BY <1>3, <1>4
    <3> HIDE DEF m, entry
    <3> DEFINE F == {entry(i) : i \in 1 .. m}
    <3>2. \A i \in 1 .. m : entry(i) \in F  OBVIOUS
    <3> HIDE DEF F
    <3>3. [i \in 1 .. m |-> entry(i)] \in Seq(F) /\ Len([i \in 1 .. m |-> entry(i)]) = m
      BY <3>1, <3>2
    <3>4. QED  BY <3>3 DEF F
  <2> HIDE DEF x
  <2>2. QED  BY <2>1, SeqIsSeq
<1>11. \A i \in 1 .. m : "msg" \in DOMAIN x[i] /\ x[i].msg = w[i].msg /\ i \in 1 .. n
  BY <1>3, <1>4
<1>12. \A mm : HasMsg(x, mm) <=> \E i \in 1 .. m : w[i].msg = mm
  BY <1>10, <1>11 DEF HasMsg
<1> HIDE DEF x, all, t
<1>13. MsgEntries(x)  BY <1>9, <1>10, <1>11 DEF MsgEntries
<1>14. MsgsOnce(x)  BY <1>9, <1>10, <1>11 DEF MsgsOnce
<1>15. \A mm : HasMsg(x, mm) => HasMsg(w, mm) /\ mm \in Msgs
  BY <1>9, <1>11, <1>12 DEF HasMsg, MsgEntries
<1>16. \A mm : HasMsg(w, mm) <=> HasMsg(x, mm) \/ mm \in T
  <2>1. \A i \in 1 .. n : i \in 1 .. m \/ i \in m + 1 .. n  BY <1>3, <1>4
  <2>2. \A i \in m + 1 .. n : i \in 1 .. n  BY <1>3, <1>4
  <2> HIDE DEF n, m
  <2>3. QED  BY <1>11, <1>12, <2>1, <2>2 DEF HasMsg, n
<1>17. \A mm : ~(HasMsg(x, mm) /\ mm \in T)
  <2> SUFFICES ASSUME NEW mm, HasMsg(x, mm), mm \in T PROVE FALSE  OBVIOUS
  <2>1. PICK i \in 1 .. m : w[i].msg = mm  BY <1>12
  <2>2. PICK j \in m + 1 .. n : w[j].msg = mm  OBVIOUS
  <2>3. i \in 1 .. Len(w) /\ j \in 1 .. Len(w) /\ i # j  BY <1>3, <1>4
  <2>4. QED  BY <1>9, <2>1, <2>2, <2>3 DEF MsgsOnce
<1>18. Joined(v, tr.inflight, x)  BY <1>9, <1>10, ConcatJoins DEF MsgEntries
<1> HIDE DEF T, v, w, n, m
<1>19. \A mm : ~(HasMsg(tr.inflight, mm) /\ HasMsg(x, mm))  BY <1>9, <1>15
<1>20. /\ MsgEntries(v) /\ MsgsOnce(v)
       /\ \A mm : HasMsg(v, mm) <=> HasMsg(tr.inflight, mm) \/ HasMsg(x, mm)
  BY <1>9, <1>13, <1>14, <1>18, <1>19, MsgsJoin
<1>21. \A mm \in Msgs : ~(HasMsg(core'.waiting, mm) /\ HasMsg(tr'.inflight, mm))
  BY <1>5, NoMsgs
<1>22. ASSUME NEW mm \in Msgs
       PROVE  /\ HasMsg(core'.waiting, mm) \/ HasMsg(tr'.inflight, mm) <=> InHand(mm) /\ mm \notin T
              /\ mm \in T => InHand(mm)
  BY <1>5, <1>7, <1>9, <1>16, <1>17, <1>20, NoMsgs DEF InHand, w
<1>23. MsgEntries(core'.waiting) /\ MsgsOnce(core'.waiting)  BY <1>5, NoMsgs
<1>24. MessagesInv'
  BY <1>1, <1>5, <1>7, <1>8, <1>20, <1>21, <1>22, <1>23, MessagesMove
<1>25. QED  BY <1>1, <1>8, <1>24 DEF Fields

\* IoTHubClientCore_LL_Destroy.
LEMMA DestroyMsgs ==
  ASSUME ConnInv, OnceInv, NEW td,
         td = SendComplete(told, {e.msg : e \in ToSet(core.waiting) \cup ToSet(tr.inflight)}, "destroy"),
         told'.conf = td.conf, told'.asked = told.asked, DOMAIN told' = DOMAIN told,
         core'.waiting = <<>>, tr'.inflight = <<>>
  PROVE  MessagesInv' /\ Fields'
<1> DEFINE T == {e.msg : e \in ToSet(core.waiting) \cup ToSet(tr.inflight)}
<1>1. MessagesInv /\ Fields  BY DEF OnceInv
<1>2. \A m : m \in T <=> InHand(m)
  <2>1. /\ DOMAIN core.waiting = 1 .. Len(core.waiting)
        /\ DOMAIN tr.inflight = 1 .. Len(tr.inflight)
    BY <1>1 DEF MessagesInv, MsgEntries, IsSeq
  <2>2. QED  BY <2>1 DEF InHand, HasMsg, ToSet
<1> HIDE DEF T
<1>3. /\ MsgEntries(core'.waiting) /\ MsgEntries(tr'.inflight)
      /\ MsgsOnce(core'.waiting) /\ MsgsOnce(tr'.inflight)
      /\ \A m : ~HasMsg(core'.waiting, m) /\ ~HasMsg(tr'.inflight, m)
  BY NoMsgs
<1>4. told'.conf = SendComplete(told, T, "destroy").conf  BY DEF T
<1>5. "conf" \in DOMAIN told  BY <1>1 DEF Fields
<1>6. MessagesInv'  BY <1>1, <1>2, <1>3, <1>4, <1>5, MessagesMove
<1>7. QED  BY <1>1, <1>6 DEF Fields

\* An attempt counts: one entry gets another number and age.
LEMMA AgainMsgs ==
  ASSUME ConnInv, OnceInv, NEW i \in 1 .. Len(tr.inflight), core' = core, told' = told,
         tr' = [tr EXCEPT !.inflight[i].retry = @ + 1, !.inflight[i].age = 0]
  PROVE  MessagesInv' /\ Fields' /\ SameLists(tr', [tr EXCEPT !.inflight = tr'.inflight])
<1> DEFINE q == tr.inflight
           e == [[q[i] EXCEPT !.retry = @ + 1] EXCEPT !.age = 0]
           v == [q EXCEPT ![i] = e]
<1>1. MessagesInv /\ Fields /\ DOMAIN tr = TrFields  BY TransportFacts DEF OnceInv
<1>2. MsgEntries(q) /\ MsgEntries(core.waiting)  BY <1>1 DEF MessagesInv
<1>3. q \in Seq(ToSet(q)) /\ DOMAIN q = 1 .. Len(q)  BY <1>2 DEF MsgEntries, IsSeq
<1>4. DOMAIN tr' = TrFields /\ tr'.inflight = v /\ tr'.twinAck = tr.twinAck /\ tr'.twinPend = tr.twinPend
  BY <1>1, <1>3 DEF TrFields
<1>5. "msg" \in DOMAIN e /\ e.msg = q[i].msg  BY <1>2 DEF MsgEntries
<1> HIDE DEF e
<1>6. /\ v \in Seq(ToSet(q) \cup {e}) /\ Len(v) = Len(q)
      /\ \A j \in 1 .. Len(q) : v[j] = IF j = i THEN e ELSE q[j]
  BY <1>3
<1> HIDE DEF v
<1>7. IsSeq(v)  BY <1>6, SeqIsSeq
<1>8. \A j \in 1 .. Len(v) : "msg" \in DOMAIN v[j] /\ v[j].msg = q[j].msg
  BY <1>2, <1>5, <1>6 DEF MsgEntries
<1>9. /\ IsSeq(core.waiting)
      /\ \A j \in 1 .. Len(core.waiting) : "msg" \in DOMAIN core.waiting[j]
  BY <1>2 DEF MsgEntries
<1>10. MessagesInv'
  BY <1>1, <1>4, <1>6, <1>7, <1>8, <1>9, MessagesMapped
<1>11. SameLists(tr', [tr EXCEPT !.inflight = tr'.inflight])
  BY <1>1, <1>4 DEF SameLists, TrFields
<1>12. QED  BY <1>1, <1>10, <1>11 DEF Fields

\* Messages that get older.
AllOlder(q, max) == [i \in 1 .. Len(q) |-> Older(q[i], max)]
LEMMA OlderMsgs ==
  ASSUME NEW q, MsgEntries(q), NEW max
  PROVE  /\ IsSeq(AllOlder(q, max)) /\ Len(AllOlder(q, max)) = Len(q)
         /\ \A i \in 1 .. Len(AllOlder(q, max)) :
              /\ "msg" \in DOMAIN AllOlder(q, max)[i]
              /\ AllOlder(q, max)[i].msg = q[i].msg
<1> DEFINE n == Len(q)
           older(i) == Older(q[i], max)
           r == AllOlder(q, max)
<1>1. n \in Nat  BY LenIsNat DEF MsgEntries
<1>2. \A i \in 1 .. n : "msg" \in DOMAIN older(i) /\ older(i).msg = q[i].msg
  BY DEF MsgEntries, Older
<1>0. r = [i \in 1 .. n |-> older(i)]  BY DEF AllOlder
<1> HIDE DEF n, older, r
<1>3. r \in Seq({older(i) : i \in 1 .. n}) /\ Len(r) = n /\ \A i \in 1 .. n : r[i] = older(i)
  BY <1>0, <1>1
<1>4. IsSeq(r)  BY <1>3, SeqIsSeq
<1>5. QED  BY <1>2, <1>3, <1>4 DEF n, older, r

\* Time passes for the messages.
LEMMA TickMsgs ==
  ASSUME ConnInv, OnceInv, Tick
  PROVE  MessagesInv' /\ Fields'
<1> DEFINE v == [i \in 1 .. Len(tr.inflight) |-> Older(tr.inflight[i], RESEND + 1)]
           late == [i \in 1 .. Len(core.waiting) |-> Older(core.waiting[i], MSGTIMEOUT + 1)]
           w == IF MSGTIMEOUT = 0 THEN core.waiting ELSE late
<1>1. MessagesInv /\ Fields /\ DOMAIN tr = TrFields  BY TransportFacts DEF OnceInv
<1>2. MsgEntries(tr.inflight) /\ MsgEntries(core.waiting)  BY <1>1 DEF MessagesInv
<1>3. told' = told /\ tr'.inflight = v  BY <1>1 DEF Tick, TrFields
<1>4. core'.waiting = w  BY DEF Tick, ConnInv, Shapes
<1>0. v = AllOlder(tr.inflight, RESEND + 1) /\ late = AllOlder(core.waiting, MSGTIMEOUT + 1)
  BY DEF AllOlder
<1> HIDE DEF v, late
<1>5. /\ IsSeq(v) /\ Len(v) = Len(tr.inflight)
      /\ \A i \in 1 .. Len(v) : "msg" \in DOMAIN v[i] /\ v[i].msg = tr.inflight[i].msg
  BY <1>0, <1>2, OlderMsgs
<1>6. /\ IsSeq(late) /\ Len(late) = Len(core.waiting)
      /\ \A i \in 1 .. Len(late) : "msg" \in DOMAIN late[i] /\ late[i].msg = core.waiting[i].msg
  BY <1>0, <1>2, OlderMsgs
<1>7. /\ IsSeq(w) /\ Len(w) = Len(core.waiting)
      /\ \A i \in 1 .. Len(w) : "msg" \in DOMAIN w[i] /\ w[i].msg = core.waiting[i].msg
  BY <1>2, <1>6 DEF MsgEntries
<1> HIDE DEF w
<1>8. MessagesInv'  BY <1>1, <1>3, <1>4, <1>5, <1>7, MessagesMapped
<1>9. QED  BY <1>1, <1>3, <1>8 DEF Fields

----------------------------------------------------------------------------
(* Requests for the twin.                                                  *)

\* A part of a list of requests and reported states.  Those of the kind that are not in
\* it are the ones of T.
TwinsBut(r, q, f, kind, T) ==
  \A i \in 1 .. Len(q) : q[i].kind = kind => (q[i].id \notin T <=> \E a \in 1 .. Len(r) : f[a] = i)

\* A part of a list of requests is one, without the requests of T.
LEMMA TwinsPart ==
  ASSUME NEW r, NEW q, NEW f, IsPart(r, q, f), IsSeq(r), TwinEntries(q), NEW kind, TwinsOnce(q, kind),
         NEW T, TwinsBut(r, q, f, kind, T)
  PROVE  /\ TwinEntries(r) /\ TwinsOnce(r, kind)
         /\ \A id : HasTwin(r, kind, id) <=> HasTwin(q, kind, id) /\ id \notin T
<1>1. Len(r) \in Nat /\ Len(q) \in Nat  BY LenIsNat DEF TwinEntries
<1>2. \A a \in 1 .. Len(r) : f[a] \in 1 .. Len(q) /\ r[a] = q[f[a]]  BY DEF IsPart
<1>3. TwinEntries(r)  BY <1>2 DEF TwinEntries
<1>4. ASSUME NEW a \in 1 .. Len(r), NEW b \in 1 .. Len(r),
             r[a].kind = kind, r[b].kind = kind, r[a].id = r[b].id
      PROVE  a = b
  <2>1. /\ f[a] \in 1 .. Len(q) /\ f[b] \in 1 .. Len(q) /\ q[f[a]].id = q[f[b]].id
        /\ q[f[a]].kind = kind /\ q[f[b]].kind = kind
    BY <1>2, <1>4
  <2>2. f[a] = f[b]  BY <2>1 DEF TwinsOnce
  <2>3. QED  BY <1>1, <2>2, PartOnce
<1>5. ASSUME NEW id  PROVE HasTwin(r, kind, id) <=> HasTwin(q, kind, id) /\ id \notin T
  <2>1. ASSUME HasTwin(r, kind, id) PROVE HasTwin(q, kind, id) /\ id \notin T
    BY <1>2, <2>1 DEF HasTwin, TwinsBut
  <2>2. ASSUME HasTwin(q, kind, id), id \notin T PROVE HasTwin(r, kind, id)
    BY <1>2, <2>2 DEF HasTwin, TwinsBut
  <2>3. QED  BY <2>1, <2>2
<1>6. QED  BY <1>3, <1>4, <1>5 DEF TwinsOnce

\* Lists of requests with none in common make a list of requests.
LEMMA TwinsJoin ==
  ASSUME NEW r, NEW q, NEW x, Joined(r, q, x), TwinEntries(q), TwinEntries(x),
         NEW kind, TwinsOnce(q, kind), TwinsOnce(x, kind),
         \A id : ~(HasTwin(q, kind, id) /\ HasTwin(x, kind, id))
  PROVE  /\ TwinEntries(r) /\ TwinsOnce(r, kind)
         /\ \A id : HasTwin(r, kind, id) <=> HasTwin(q, kind, id) \/ HasTwin(x, kind, id)
<1>1. IsSeq(q) /\ IsSeq(x) /\ IsSeq(r)  BY DEF TwinEntries, Joined
<1>2. Len(q) \in Nat /\ Len(x) \in Nat  BY <1>1, LenIsNat
<1> DEFINE InQ(i) == i \in 1 .. Len(q) /\ r[i] = q[i]
           InX(i) == \E j \in 1 .. Len(x) : i = Len(q) + j /\ r[i] = x[j]
<1>3. \A i \in 1 .. Len(r) : InQ(i) \/ InX(i)  BY <1>1, JoinedPlaces
<1>4. TwinEntries(r)  BY <1>1, <1>3 DEF TwinEntries
<1>5. ASSUME NEW i \in 1 .. Len(r), NEW j \in 1 .. Len(r),
             r[i].kind = kind, r[j].kind = kind, r[i].id = r[j].id
      PROVE i = j
  <2>1. CASE InQ(i) /\ InQ(j)  BY <1>5, <2>1 DEF TwinsOnce
  <2>2. CASE InX(i) /\ InX(j)
    <3>1. PICK a \in 1 .. Len(x) : i = Len(q) + a /\ r[i] = x[a]  BY <2>2
    <3>2. PICK b \in 1 .. Len(x) : j = Len(q) + b /\ r[j] = x[b]  BY <2>2
    <3>3. a = b  BY <1>5, <3>1, <3>2 DEF TwinsOnce
    <3>4. QED  BY <3>1, <3>2, <3>3
  <2>3. CASE InQ(i) /\ InX(j)  BY <1>5, <2>3 DEF HasTwin
  <2>4. CASE InX(i) /\ InQ(j)  BY <1>5, <2>4 DEF HasTwin
  <2>5. QED  BY <1>3, <2>1, <2>2, <2>3, <2>4
<1>6. ASSUME NEW id  PROVE HasTwin(r, kind, id) <=> HasTwin(q, kind, id) \/ HasTwin(x, kind, id)
  <2>1. ASSUME HasTwin(r, kind, id) PROVE HasTwin(q, kind, id) \/ HasTwin(x, kind, id)
    BY <1>3, <2>1 DEF HasTwin
  <2>2. ASSUME HasTwin(q, kind, id) PROVE HasTwin(r, kind, id)
    <3>1. PICK i \in 1 .. Len(q) : q[i].kind = kind /\ q[i].id = id  BY <2>2 DEF HasTwin
    <3>2. i \in 1 .. Len(r) /\ r[i] = q[i]  BY <1>2 DEF Joined
    <3>3. QED  BY <3>1, <3>2 DEF HasTwin
  <2>3. ASSUME HasTwin(x, kind, id) PROVE HasTwin(r, kind, id)
    <3>1. PICK i \in 1 .. Len(x) : x[i].kind = kind /\ x[i].id = id  BY <2>3 DEF HasTwin
    <3>2. Len(q) + i \in 1 .. Len(r) /\ r[Len(q) + i] = x[i]  BY <1>2 DEF Joined
    <3>3. QED  BY <3>1, <3>2 DEF HasTwin
  <2>4. QED  BY <2>1, <2>2, <2>3
<1>7. QED  BY <1>4, <1>5, <1>6 DEF TwinsOnce

\* Entries of which nothing but the age changed.
LEMMA TwinsMapped ==
  ASSUME NEW q, TwinEntries(q), NEW kind, TwinsOnce(q, kind), NEW r, IsSeq(r), Len(r) = Len(q),
         \A i \in 1 .. Len(q) : DOMAIN r[i] = DOMAIN q[i] /\ r[i].kind = q[i].kind /\ r[i].id = q[i].id
  PROVE  /\ TwinEntries(r) /\ TwinsOnce(r, kind)
         /\ \A id : HasTwin(r, kind, id) <=> HasTwin(q, kind, id)
BY DEF TwinEntries, TwinsOnce, HasTwin

\* Values: the reported states.
ValuesBut(r, q, f, T) == \A i \in 1 .. Len(q) : q[i] \notin T <=> \E a \in 1 .. Len(r) : f[a] = i

\* A part of a list of reported states is one, without those of T.
LEMMA ValuesPart ==
  ASSUME NEW V, NEW r, NEW q \in Seq(V), NEW f, IsPart(r, q, f), IsSeq(r), ValuesOnce(q),
         NEW T, ValuesBut(r, q, f, T)
  PROVE  /\ r \in Seq(V) /\ ValuesOnce(r)
         /\ \A v : HasValue(r, v) <=> HasValue(q, v) /\ v \notin T
<1>1. Len(r) \in Nat /\ Len(q) \in Nat  BY LenIsNat
<1>2. \A a \in 1 .. Len(r) : f[a] \in 1 .. Len(q) /\ r[a] = q[f[a]]  BY DEF IsPart
<1>3. r \in Seq(V)
  <2>1. \A a \in 1 .. Len(r) : r[a] \in V  BY <1>2
  <2>2. DOMAIN r = 1 .. Len(r) /\ r \in [1 .. Len(r) -> ToSet(r)]  BY DEF IsSeq
  <2>3. r \in [1 .. Len(r) -> V]  BY <2>1, <2>2
  <2>4. QED  BY <1>1, <2>3
<1>4. ASSUME NEW a \in 1 .. Len(r), NEW b \in 1 .. Len(r), r[a] = r[b]  PROVE a = b
  <2>1. f[a] \in 1 .. Len(q) /\ f[b] \in 1 .. Len(q) /\ q[f[a]] = q[f[b]]  BY <1>2, <1>4
  <2>2. f[a] = f[b]  BY <2>1 DEF ValuesOnce
  <2>3. QED  BY <1>1, <2>2, PartOnce
<1>5. ASSUME NEW v  PROVE HasValue(r, v) <=> HasValue(q, v) /\ v \notin T
  BY <1>2 DEF HasValue, ValuesBut
<1>6. QED  BY <1>3, <1>4, <1>5 DEF ValuesOnce

\* Lists of reported states with none in common make a list of reported states.
LEMMA ValuesJoin ==
  ASSUME NEW V, NEW r, NEW q \in Seq(V), NEW x \in Seq(V), Joined(r, q, x), ValuesOnce(q), ValuesOnce(x),
         \A v : ~(HasValue(q, v) /\ HasValue(x, v))
  PROVE  /\ r \in Seq(V) /\ ValuesOnce(r)
         /\ \A v : HasValue(r, v) <=> HasValue(q, v) \/ HasValue(x, v)
<1>1. IsSeq(q) /\ IsSeq(x) /\ IsSeq(r)  BY SeqIsSeq DEF Joined
<1>2. Len(q) \in Nat /\ Len(x) \in Nat /\ Len(r) \in Nat  BY <1>1, LenIsNat
<1> DEFINE InQ(i) == i \in 1 .. Len(q) /\ r[i] = q[i]
           InX(i) == \E j \in 1 .. Len(x) : i = Len(q) + j /\ r[i] = x[j]
<1>3. \A i \in 1 .. Len(r) : InQ(i) \/ InX(i)  BY <1>1, JoinedPlaces
<1>4. r \in Seq(V)
  <2>1. \A i \in 1 .. Len(r) : r[i] \in V
    <3>1. \A i \in 1 .. Len(q) : q[i] \in V  OBVIOUS
    <3>2. \A i \in 1 .. Len(x) : x[i] \in V  OBVIOUS
    <3>3. QED  BY <1>3, <3>1, <3>2
  <2>2. r \in [1 .. Len(r) -> ToSet(r)]  BY <1>1 DEF IsSeq
  <2>3. r \in [1 .. Len(r) -> V]  BY <2>1, <2>2
  <2>4. QED  BY <1>2, <2>3
<1>5. ASSUME NEW i \in 1 .. Len(r), NEW j \in 1 .. Len(r), r[i] = r[j]  PROVE i = j
  <2>1. CASE InQ(i) /\ InQ(j)  BY <1>5, <2>1 DEF ValuesOnce
  <2>2. CASE InX(i) /\ InX(j)
    <3>1. PICK a \in 1 .. Len(x) : i = Len(q) + a /\ r[i] = x[a]  BY <2>2
    <3>2. PICK b \in 1 .. Len(x) : j = Len(q) + b /\ r[j] = x[b]  BY <2>2
    <3>3. a = b  BY <1>5, <3>1, <3>2 DEF ValuesOnce
    <3>4. QED  BY <3>1, <3>2, <3>3
  <2>3. CASE InQ(i) /\ InX(j)  BY <1>5, <2>3 DEF HasValue
  <2>4. CASE InX(i) /\ InQ(j)  BY <1>5, <2>4 DEF HasValue
  <2>5. QED  BY <1>3, <2>1, <2>2, <2>3, <2>4
<1>6. ASSUME NEW v  PROVE HasValue(r, v) <=> HasValue(q, v) \/ HasValue(x, v)
  <2>1. ASSUME HasValue(r, v) PROVE HasValue(q, v) \/ HasValue(x, v)
    BY <1>3, <2>1 DEF HasValue
  <2>2. ASSUME HasValue(q, v) PROVE HasValue(r, v)
    <3>1. PICK i \in 1 .. Len(q) : q[i] = v  BY <2>2 DEF HasValue
    <3>2. i \in 1 .. Len(r) /\ r[i] = q[i]  BY <1>2 DEF Joined
    <3>3. QED  BY <3>1, <3>2 DEF HasValue
  <2>3. ASSUME HasValue(x, v) PROVE HasValue(r, v)
    <3>1. PICK i \in 1 .. Len(x) : x[i] = v  BY <2>3 DEF HasValue
    <3>2. Len(q) + i \in 1 .. Len(r) /\ r[Len(q) + i] = x[i]  BY <1>2 DEF Joined
    <3>3. QED  BY <3>1, <3>2 DEF HasValue
  <2>4. QED  BY <2>1, <2>2, <2>3
<1>7. QED  BY <1>4, <1>5, <1>6 DEF ValuesOnce

\* The two lists have the same reported states.
LEMMA SameOnes ==
  ASSUME NEW acks, NEW twins
  PROVE  /\ SameOrder(acks, twins) => \A id : HasTwin(twins, "report", id) <=> HasValue(acks, id)
         /\ (\A id : HasTwin(twins, "report", id) <=> HasValue(acks, id)) =>
              /\ \A p \in 1 .. Len(twins) : twins[p].kind = "report" => HasValue(acks, twins[p].id)
              /\ \A i \in 1 .. Len(acks) : HasTwin(twins, "report", acks[i])
BY DEF SameOrder, HasTwin, HasValue

\* They stay in order when entries are taken out of both.
LEMMA OrderPart ==
  ASSUME NEW acks, NEW twins, SameOrder(acks, twins), NEW k, NEW t, NEW f, NEW h,
         IsPart(k, acks, f), IsPart(t, twins, h),
         Len(k) \in Nat, Len(t) \in Nat, Len(acks) \in Nat, Len(twins) \in Nat,
         \A id : HasTwin(t, "report", id) <=> HasValue(k, id)
  PROVE  SameOrder(k, t)
<1>1. ASSUME NEW i \in 1 .. Len(k), NEW j \in 1 .. Len(k), NEW p \in 1 .. Len(t), NEW q \in 1 .. Len(t),
             t[p].kind = "report", t[p].id = k[i], t[q].kind = "report", t[q].id = k[j], i <= j
      PROVE  p <= q
  <2>1. /\ f[i] \in 1 .. Len(acks) /\ f[j] \in 1 .. Len(acks) /\ k[i] = acks[f[i]] /\ k[j] = acks[f[j]]
        /\ i < j => f[i] < f[j]
        /\ h[p] \in 1 .. Len(twins) /\ h[q] \in 1 .. Len(twins) /\ t[p] = twins[h[p]] /\ t[q] = twins[h[q]]
    BY DEF IsPart
  <2>2. f[i] <= f[j]
    <3>0. f[i] \in Int /\ f[j] \in Int  BY <2>1
    <3>1. CASE i < j
      <4>1. f[i] < f[j]  BY <2>1, <3>1
      <4>2. QED  BY <3>0, <4>1
    <3>2. CASE i = j  BY <3>0, <3>2
    <3>3. QED  BY <1>1, <3>1, <3>2
  <2>3. /\ twins[h[p]].kind = "report" /\ twins[h[p]].id = acks[f[i]]
        /\ twins[h[q]].kind = "report" /\ twins[h[q]].id = acks[f[j]]
    BY <1>1, <2>1
  <2>4. h[p] <= h[q]  BY <2>1, <2>2, <2>3 DEF SameOrder
  <2>5. QED  BY <2>4, PartOrder
<1>2. QED  BY <1>1, SameOnes DEF SameOrder

\* They stay in order when the same ones, in order, are added to both.
LEMMA OrderJoin ==
  ASSUME NEW acks, NEW twins, SameOrder(acks, twins), NEW y, NEW x, SameOrder(y, x),
         NEW k, NEW t, Joined(k, acks, y), Joined(t, twins, x),
         IsSeq(acks), IsSeq(twins), IsSeq(x), IsSeq(y),
         \A id : HasTwin(t, "report", id) <=> HasValue(k, id),
         \A id : ~(HasValue(acks, id) /\ HasValue(y, id))
  PROVE  SameOrder(k, t)
<1>1. Len(acks) \in Nat /\ Len(twins) \in Nat /\ Len(x) \in Nat /\ Len(y) \in Nat  BY LenIsNat
<1>2. ASSUME NEW i \in 1 .. Len(k), NEW j \in 1 .. Len(k), NEW p \in 1 .. Len(t), NEW q \in 1 .. Len(t),
             t[p].kind = "report", t[p].id = k[i], t[q].kind = "report", t[q].id = k[j], i <= j
      PROVE  p <= q
  <2> DEFINE OldA(a) == a \in 1 .. Len(acks) /\ k[a] = acks[a]
             NewA(a) == \E b \in 1 .. Len(y) : a = Len(acks) + b /\ k[a] = y[b]
             OldT(a) == a \in 1 .. Len(twins) /\ t[a] = twins[a]
             NewT(a) == \E b \in 1 .. Len(x) : a = Len(twins) + b /\ t[a] = x[b]
  <2>21. \A a \in 1 .. Len(k) : OldA(a) \/ NewA(a)  BY JoinedPlaces
  <2>22. \A a \in 1 .. Len(t) : OldT(a) \/ NewT(a)  BY JoinedPlaces
  <2>1. (OldA(i) \/ NewA(i)) /\ (OldA(j) \/ NewA(j)) /\ (OldT(p) \/ NewT(p)) /\ (OldT(q) \/ NewT(q))
    BY <2>21, <2>22
  <2>2. OldA(i) <=> OldT(p)
    <3>1. ASSUME OldA(i), NewT(p) PROVE FALSE
      <4>1. HasValue(acks, k[i]) /\ HasTwin(x, "report", k[i])
        BY <1>2, <3>1 DEF HasValue, HasTwin
      <4>2. QED  BY <4>1, SameOnes
    <3>2. ASSUME NewA(i), OldT(p) PROVE FALSE
      <4>1. HasValue(y, k[i]) /\ HasTwin(twins, "report", k[i])
        BY <1>2, <3>2 DEF HasValue, HasTwin
      <4>2. QED  BY <4>1, SameOnes
    <3>3. QED  BY <2>1, <3>1, <3>2
  <2>3. OldA(j) <=> OldT(q)
    <3>1. ASSUME OldA(j), NewT(q) PROVE FALSE
      <4>1. HasValue(acks, k[j]) /\ HasTwin(x, "report", k[j])
        BY <1>2, <3>1 DEF HasValue, HasTwin
      <4>2. QED  BY <4>1, SameOnes
    <3>2. ASSUME NewA(j), OldT(q) PROVE FALSE
      <4>1. HasValue(y, k[j]) /\ HasTwin(twins, "report", k[j])
        BY <1>2, <3>2 DEF HasValue, HasTwin
      <4>2. QED  BY <4>1, SameOnes
    <3>3. QED  BY <2>1, <3>1, <3>2
  <2>4. CASE OldT(p) /\ OldT(q)  BY <1>2, <2>2, <2>3, <2>4 DEF SameOrder
  <2>5. CASE OldT(p) /\ NewT(q)  BY <1>1, <2>5
  <2>6. CASE NewT(p) /\ OldT(q) /\ ~OldT(p)
    <3>1. NewA(i) /\ OldA(j)  BY <2>1, <2>2, <2>3, <2>6
    <3>2. QED  BY <1>1, <1>2, <3>1
  <2>7. CASE NewT(p) /\ NewT(q) /\ ~OldT(p) /\ ~OldT(q)
    <3>1. PICK a \in 1 .. Len(y) : i = Len(acks) + a /\ k[i] = y[a]  BY <2>1, <2>2, <2>7
    <3>2. PICK b \in 1 .. Len(y) : j = Len(acks) + b /\ k[j] = y[b]  BY <2>1, <2>3, <2>7
    <3>3. PICK c \in 1 .. Len(x) : p = Len(twins) + c /\ t[p] = x[c]  BY <2>7
    <3>4. PICK d \in 1 .. Len(x) : q = Len(twins) + d /\ t[q] = x[d]  BY <2>7
    <3>5. a <= b  BY <1>1, <1>2, <3>1, <3>2
    <3>6. c <= d  BY <1>2, <3>1, <3>2, <3>3, <3>4, <3>5 DEF SameOrder
    <3>7. QED  BY <1>1, <3>3, <3>4, <3>6
  <2>8. QED  BY <2>1, <2>4, <2>5, <2>6, <2>7
<1>3. QED  BY <1>2, SameOnes DEF SameOrder

\* Apart, said of the requests instead of the places in the lists.
LEMMA ApartHas ==
  ASSUME NEW q, NEW p
  PROVE  Apart(q, p) <=> \A id : ~(HasTwin(q, "demand", id) /\ HasTwin(p, "demand", id))
BY DEF Apart, HasTwin

\* What keeps the requests in one place: those of T leave the lists and are answered.
LEMMA GetsMove ==
  ASSUME GetsInv, NEW T, "answers" \in DOMAIN told,
         told'.answers = TwinAnswered(told, T).answers,
         \A g \in Gets : g \in told'.asked <=> g \in told.asked,
         TwinEntries(tr'.twinAck), TwinEntries(tr'.twinPend),
         \A i \in 1 .. Len(tr'.twinPend) : tr'.twinPend[i].kind = "demand",
         TwinsOnce(tr'.twinAck, "demand"), TwinsOnce(tr'.twinPend, "demand"),
         Apart(tr'.twinAck, tr'.twinPend),
         \A g \in Gets : /\ Queued(g)' => Queued(g) /\ g \notin T
                         /\ g \in T => Queued(g)
  PROVE  GetsInv'
<1> DEFINE c == told.answers
           d == [g \in Gets |-> IF g \in T THEN c[g] + 1 ELSE c[g]]
<1>1. c \in [Gets -> Nat]  BY DEF GetsInv
<1>2. told'.answers = d  BY DEF TwinAnswered
<1> HIDE DEF c
<1>3. d \in [Gets -> Nat]  BY <1>1
<1>4. ASSUME NEW g \in Gets
      PROVE  /\ Queued(g)' => g \in told'.asked
             /\ d[g] \in {0, 1}
             /\ Queued(g)' \/ g \notin told'.asked => d[g] = 0
  <2>1. /\ Queued(g) => g \in told.asked
        /\ c[g] \in {0, 1}
        /\ Queued(g) \/ g \notin told.asked => c[g] = 0
    BY DEF GetsInv, c
  <2>2. d[g] = IF g \in T THEN c[g] + 1 ELSE c[g]  OBVIOUS
  <2> HIDE DEF d
  <2>3. QED  BY <2>1, <2>2
<1> HIDE DEF d
<1>5. QED  BY <1>2, <1>3, <1>4 DEF GetsInv

\* Steps that leave the requests for the twin alone.
LEMMA GetsStay ==
  ASSUME GetsInv, tr'.twinAck = tr.twinAck, tr'.twinPend = tr.twinPend,
         told'.answers = told.answers, \A g \in Gets : g \in told'.asked <=> g \in told.asked
  PROVE  GetsInv'
BY DEF GetsInv, Queued

\* Nobody gets an answer.
LEMMA NoneAnswered ==
  ASSUME GetsInv, Fields
  PROVE  TwinAnswered(told, {}).answers = told.answers
BY DEF GetsInv, Fields, TwinAnswered

\* The empty list of requests.
LEMMA NoTwins ==
  ASSUME NEW kind
  PROVE  /\ TwinEntries(<<>>) /\ TwinsOnce(<<>>, kind) /\ \A id : ~HasTwin(<<>>, kind, id)
         /\ \A i \in 1 .. Len(<<>>) : FALSE
<1>1. IsSeq(<<>>)  BY EmptyWithout
<1>2. \A i \in 1 .. Len(<<>>) : FALSE  OBVIOUS
<1>3. QED  BY <1>1, <1>2 DEF TwinEntries, TwinsOnce, HasTwin

\* What keeps the reported states in one place: those of T leave the lists and are told of.
Reported(T) == [r \in Reps |-> IF r \in T THEN told.reps[r] + 1 ELSE told.reps[r]]

\* What keeps the reported states in one place: those of T leave the lists and are told.
LEMMA RepsMove ==
  ASSUME RepsInv, NEW T, told'.reps = Reported(T),
         \A r \in Reps : r \in told'.asked <=> r \in told.asked,
         core'.acks \in Seq(Reps), core'.reports \in Seq(Reps),
         TwinsOnce(tr'.twinAck, "report"), ValuesOnce(core'.acks), ValuesOnce(core'.reports),
         SameOrder(core'.acks, tr'.twinAck),
         \A r \in Reps : /\ ~(HasValue(core'.acks, r) /\ HasValue(core'.reports, r))
                         /\ HasValue(core'.acks, r) \/ HasValue(core'.reports, r) =>
                              (HasValue(core.acks, r) \/ HasValue(core.reports, r)) /\ r \notin T
                         /\ r \in T => HasValue(core.acks, r) \/ HasValue(core.reports, r)
  PROVE  RepsInv'
<1> DEFINE c == told.reps
           d == [r \in Reps |-> IF r \in T THEN c[r] + 1 ELSE c[r]]
<1>1. c \in [Reps -> Nat]  BY DEF RepsInv
<1>2. told'.reps = d  BY DEF Reported
<1> HIDE DEF c
<1>3. d \in [Reps -> Nat]  BY <1>1
<1>4. ASSUME NEW r \in Reps
      PROVE  /\ d[r] \in {0, 1}
             /\ HasValue(core'.acks, r) \/ HasValue(core'.reports, r) => r \in told'.asked /\ d[r] = 0
             /\ r \notin told'.asked => d[r] = 0
  <2>1. /\ c[r] \in {0, 1}
        /\ HasValue(core.acks, r) \/ HasValue(core.reports, r) => r \in told.asked /\ c[r] = 0
        /\ r \notin told.asked => c[r] = 0
    BY DEF RepsInv, c
  <2>2. d[r] = IF r \in T THEN c[r] + 1 ELSE c[r]  OBVIOUS
  <2> HIDE DEF d
  <2>3. QED  BY <2>1, <2>2
<1> HIDE DEF d
<1>5. QED  BY <1>2, <1>3, <1>4 DEF RepsInv

\* Steps that leave the reported states alone.
LEMMA RepsStay ==
  ASSUME RepsInv, tr'.twinAck = tr.twinAck, core'.acks = core.acks, core'.reports = core.reports,
         told'.reps = told.reps, \A r \in Reps : r \in told'.asked <=> r \in told.asked
  PROVE  RepsInv'
BY DEF RepsInv

\* The same reported states wait for an answer, in another list.
LEMMA RepsTwins ==
  ASSUME RepsInv, core'.acks = core.acks, core'.reports = core.reports,
         told'.reps = told.reps, told'.asked = told.asked,
         TwinsOnce(tr'.twinAck, "report"), SameOrder(core.acks, tr'.twinAck)
  PROVE  RepsInv'
BY DEF RepsInv

\* GetTwinAsync.
LEMMA GetTwinGets ==
  ASSUME ConnInv, OnceInv, NEW g \in Gets, GetTwinAsync(g)
  PROVE  MessagesInv' /\ GetsInv' /\ RepsInv' /\ Fields'
<1> DEFINE pid == PidAfter(tr.pid, 1)
           e == [pid |-> pid, kind |-> "demand", id |-> g, age |-> 0]
           P == tr.twinPend
           Q == Append(P, e)
           u == SubscribeTopic(tr, "twin")
<1>1. MessagesInv /\ GetsInv /\ RepsInv /\ Fields /\ DOMAIN tr = TrFields
  BY TransportFacts DEF OnceInv
<1>2. SameLists(u, tr)  BY <1>1, ListsStay
<1>3. /\ tr' = [u EXCEPT !.pid = pid, !.twinPend = Append(u.twinPend, e)] /\ g \notin told.asked
      /\ core' = [core EXCEPT !.complete = TRUE] /\ told' = [told EXCEPT !.asked = @ \cup {g}]
  BY DEF GetTwinAsync
<1> HIDE DEF u, e
<1>4. tr'.twinPend = Q /\ tr'.twinAck = tr.twinAck /\ tr'.inflight = tr.inflight
  BY <1>2, <1>3 DEF SameLists, TrFields
<1>5. core'.waiting = core.waiting /\ core'.acks = core.acks /\ core'.reports = core.reports
  BY <1>3 DEF ConnInv, Shapes
<1>6. /\ DOMAIN told' = DOMAIN told /\ told'.asked = told.asked \cup {g} /\ told'.conf = told.conf
      /\ told'.answers = told.answers /\ told'.reps = told.reps
  BY <1>1, <1>3 DEF Fields
<1>7. g \notin Msgs /\ g \notin Reps  BY TransportAssumption
<1>8. MessagesInv'  BY <1>1, <1>4, <1>5, <1>6, <1>7, MessagesStay
<1>9. RepsInv'  BY <1>1, <1>4, <1>5, <1>6, <1>7, RepsStay
<1>10. /\ TwinEntries(P) /\ TwinsOnce(P, "demand") /\ ~Queued(g) /\ told.answers[g] = 0
       /\ \A i \in 1 .. Len(P) : P[i].kind = "demand"
  BY <1>1, <1>3 DEF GetsInv
<1> DEFINE x == <<e>>
<1>11. DOMAIN e = {"pid", "kind", "id", "age"} /\ e.kind = "demand" /\ e.id = g  BY DEF e
<1>12. IsSeq(x) /\ Len(x) = 1 /\ x[1] = e /\ Joined(Q, P, x)  BY <1>10, AppendJoins DEF TwinEntries
<1> HIDE DEF x, Q
<1>13. /\ TwinEntries(x) /\ TwinsOnce(x, "demand") /\ \A id : HasTwin(x, "demand", id) <=> id = g
  BY <1>11, <1>12 DEF TwinEntries, TwinsOnce, HasTwin
<1>14. \A id : ~(HasTwin(P, "demand", id) /\ HasTwin(x, "demand", id))  BY <1>10, <1>13 DEF Queued
<1>15. /\ TwinEntries(Q) /\ TwinsOnce(Q, "demand")
       /\ \A id : HasTwin(Q, "demand", id) <=> HasTwin(P, "demand", id) \/ id = g
  BY <1>10, <1>12, <1>13, <1>14, TwinsJoin
<1>16. \A i \in 1 .. Len(Q) : Q[i].kind = "demand"
  <2>1. IsSeq(P) /\ IsSeq(x) /\ Joined(Q, P, x)  BY <1>10, <1>12 DEF TwinEntries
  <2> SUFFICES ASSUME NEW i \in 1 .. Len(Q) PROVE Q[i].kind = "demand"  OBVIOUS
  <2> HIDE DEF P
  <2>2. \/ i \in 1 .. Len(P) /\ Q[i] = P[i]
        \/ \E j \in 1 .. Len(x) : i = Len(P) + j /\ Q[i] = x[j]
    BY <2>1, JoinedPlaces
  <2>3. QED  BY <1>10, <1>11, <1>12, <2>2
<1>17. GetsInv'
  <2>1. \A gg \in Gets : Queued(gg)' <=> Queued(gg) \/ gg = g  BY <1>4, <1>15 DEF Queued
  <2>2. Apart(tr'.twinAck, tr'.twinPend)
    <3>1. Apart(tr.twinAck, P)  BY <1>1 DEF GetsInv
    <3>2. \A id : ~(HasTwin(tr.twinAck, "demand", id) /\ HasTwin(Q, "demand", id))
      BY <3>1, <1>10, <1>15, ApartHas DEF Queued
    <3>3. QED  BY <3>2, <1>4, ApartHas
  <2>3. ASSUME NEW gg \in Gets
        PROVE  /\ Queued(gg)' => gg \in told'.asked
               /\ told'.answers[gg] \in {0, 1}
               /\ Queued(gg)' \/ gg \notin told'.asked => told'.answers[gg] = 0
    BY <1>1, <1>6, <1>10, <2>1 DEF GetsInv
  <2>4. QED  BY <1>1, <1>4, <1>6, <1>15, <1>16, <2>2, <2>3 DEF GetsInv
<1>18. QED  BY <1>1, <1>6, <1>8, <1>9, <1>17 DEF Fields

\* SendReportedState.
LEMMA ReportReps ==
  ASSUME ConnInv, OnceInv, NEW r \in Reps, SendReportedState(r)
  PROVE  MessagesInv' /\ GetsInv' /\ RepsInv' /\ Fields'
<1> DEFINE R == core.reports
           Q == Append(R, r)
           x == <<r>>
<1>1. MessagesInv /\ GetsInv /\ RepsInv /\ Fields /\ DOMAIN tr = TrFields
  BY TransportFacts DEF OnceInv
<1>2. SameLists(tr', tr)  BY <1>1, ListsStay DEF SendReportedState
<1>3. /\ core'.reports = Q /\ core'.acks = core.acks /\ core'.waiting = core.waiting
      /\ r \notin told.asked /\ told' = [told EXCEPT !.asked = @ \cup {r}]
  BY DEF SendReportedState, ConnInv, Shapes
<1>4. tr'.inflight = tr.inflight /\ tr'.twinAck = tr.twinAck /\ tr'.twinPend = tr.twinPend
  BY <1>2 DEF SameLists
<1>5. /\ DOMAIN told' = DOMAIN told /\ told'.asked = told.asked \cup {r} /\ told'.conf = told.conf
      /\ told'.answers = told.answers /\ told'.reps = told.reps
  BY <1>1, <1>3 DEF Fields
<1>6. r \notin Msgs /\ r \notin Gets  BY TransportAssumption
<1>7. MessagesInv'  BY <1>1, <1>3, <1>4, <1>5, <1>6, MessagesStay
<1>8. GetsInv'  BY <1>1, <1>4, <1>5, <1>6, GetsStay
<1>9. /\ R \in Seq(Reps) /\ ValuesOnce(R) /\ ~HasValue(R, r) /\ ~HasValue(core.acks, r)
      /\ told.reps[r] = 0
  BY <1>1, <1>3 DEF RepsInv
<1>10. IsSeq(R)  BY <1>9, SeqIsSeq
<1>11. Len(x) = 1 /\ x[1] = r /\ Joined(Q, R, x) /\ x \in Seq(Reps)  BY <1>10, AppendJoins
<1> HIDE DEF x, Q
<1>12. ValuesOnce(x) /\ \A v : HasValue(x, v) <=> v = r  BY <1>11 DEF ValuesOnce, HasValue
<1>13. \A v : ~(HasValue(R, v) /\ HasValue(x, v))  BY <1>9, <1>12
<1>14. /\ Q \in Seq(Reps) /\ ValuesOnce(Q) /\ \A v : HasValue(Q, v) <=> HasValue(R, v) \/ v = r
  BY <1>9, <1>11, <1>12, <1>13, ValuesJoin
<1>15. RepsInv'
  <2>1. ASSUME NEW s \in Reps
        PROVE  /\ ~(HasValue(core'.acks, s) /\ HasValue(Q, s))
               /\ told'.reps[s] \in {0, 1}
               /\ HasValue(core'.acks, s) \/ HasValue(Q, s) => s \in told'.asked /\ told'.reps[s] = 0
               /\ s \notin told'.asked => told'.reps[s] = 0
    BY <1>1, <1>3, <1>5, <1>9, <1>14 DEF RepsInv
  <2>2. QED  BY <1>1, <1>3, <1>4, <1>5, <1>14, <2>1 DEF RepsInv
<1>16. QED  BY <1>1, <1>5, <1>7, <1>8, <1>15 DEF Fields

\* The application is told of none.
LEMMA NoneReported ==
  ASSUME RepsInv
  PROVE  told.reps = Reported({})
BY DEF RepsInv, Reported

\* Requests that the transport adds to those that wait for an answer and that the
\* application does not wait for.
LEMMA GetsUndisturbed ==
  ASSUME GetsInv, Fields, NEW A, NEW x, Joined(A, tr.twinAck, x), TwinEntries(x),
         \A i \in 1 .. Len(x) : x[i].kind # "demand",
         tr'.twinAck = A, tr'.twinPend = tr.twinPend,
         told'.answers = told.answers, told'.asked = told.asked
  PROVE  GetsInv' /\ TwinEntries(A)
<1>1. /\ TwinEntries(tr.twinAck) /\ TwinEntries(tr.twinPend)
      /\ \A i \in 1 .. Len(tr.twinPend) : tr.twinPend[i].kind = "demand"
      /\ TwinsOnce(tr.twinAck, "demand") /\ TwinsOnce(tr.twinPend, "demand")
      /\ Apart(tr.twinAck, tr.twinPend)
  BY DEF GetsInv
<1>2. TwinsOnce(x, "demand") /\ \A id : ~HasTwin(x, "demand", id)  BY DEF TwinsOnce, HasTwin
<1>3. /\ TwinEntries(A) /\ TwinsOnce(A, "demand")
      /\ \A id : HasTwin(A, "demand", id) <=> HasTwin(tr.twinAck, "demand", id)
  BY <1>1, <1>2, TwinsJoin
<1>4. \A g \in Gets : Queued(g)' <=> Queued(g)  BY <1>3 DEF Queued
<1>5. told'.answers = TwinAnswered(told, {}).answers /\ "answers" \in DOMAIN told
  BY NoneAnswered DEF Fields
<1>6. Apart(A, tr.twinPend)  BY <1>1, <1>3, ApartHas
<1>7. GetsInv'  BY <1>1, <1>3, <1>4, <1>5, <1>6, GetsMove
<1>8. QED  BY <1>3, <1>7

\* Of the reported states that wait, the first k wait for their answers afterwards.
LEMMA CoreReps ==
  ASSUME ConnInv, OnceInv, CoreDoWork
  PROVE  MessagesInv' /\ GetsInv' /\ RepsInv' /\ Fields'
<1> DEFINE R == core.reports
           n == IF tr.pkt = "PUBLISH" /\ tr.subRecv THEN Len(R) ELSE 0
<1>1. MessagesInv /\ GetsInv /\ RepsInv /\ Fields /\ DOMAIN tr = TrFields
  BY TransportFacts DEF OnceInv
<1>2. PICK k \in Accepted(n) :
        LET tried == IF Breaks(k, n) THEN k + 1 ELSE n
            t == ProcessItems(k, tried)
        IN  /\ tr' = IF Breaks(k, n) THEN mqtt_error_callback(t) ELSE t
            /\ core' = [core EXCEPT !.waiting = Only(@, {e \in ToSet(@) : ~Late(e)}),
                                    !.reports = SubSeq(@, tried + 1, Len(@)),
                                    !.acks = @ \o SubSeq(R, 1, k)]
  BY DEF CoreDoWork
<1> DEFINE tried == IF Breaks(k, n) THEN k + 1 ELSE n
           t == ProcessItems(k, tried)
           entry(i) == [pid |-> PidAfter(tr.pid, i), kind |-> "report", id |-> R[i], age |-> 0]
           x == [i \in 1 .. k |-> entry(i)]
           y == SubSeq(R, 1, k)
           z == SubSeq(R, tried + 1, Len(R))
           A == tr.twinAck \o x
           K == core.acks \o y
<1>3. /\ R \in Seq(Reps) /\ ValuesOnce(R) /\ core.acks \in Seq(Reps) /\ ValuesOnce(core.acks)
      /\ TwinsOnce(tr.twinAck, "report") /\ SameOrder(core.acks, tr.twinAck)
      /\ \A r \in Reps : ~(HasValue(core.acks, r) /\ HasValue(R, r))
  BY <1>1 DEF RepsInv
<1>4. Len(R) \in Nat /\ IsSeq(R) /\ ToSet(R) \subseteq Reps  BY <1>3, SeqIsSeq
<1>5. n \in Nat /\ n <= Len(R)  BY <1>4
<1>6. k \in 0 .. n /\ tried \in Nat /\ k <= tried /\ tried <= Len(R)
  <2>1. k \in 0 .. n
    <3> HIDE DEF n
    <3>1. QED  BY <1>5 DEF Accepted
  <2>2. Breaks(k, n) => k < n  BY DEF Breaks
  <2> HIDE DEF n
  <2>3. QED  BY <1>4, <1>5, <2>1, <2>2
<1>7. /\ DOMAIN t = TrFields /\ t.inflight = tr.inflight /\ t.twinPend = tr.twinPend
      /\ t.twinAck = A
  BY <1>1 DEF ProcessItems, TrFields
<1>8. tr'.inflight = tr.inflight /\ tr'.twinPend = tr.twinPend /\ tr'.twinAck = A
  <2>1. tr' = IF Breaks(k, n) THEN mqtt_error_callback(t) ELSE t  BY <1>2
  <2> HIDE DEF t, A, n
  <2>2. QED  BY <1>7, <2>1, ListsStay DEF SameLists
<1>9. core'.acks = K /\ core'.reports = z  BY <1>2 DEF ConnInv, Shapes
<1>10. MessagesInv' /\ Fields'  BY <1>8, CoreMsgs
<1>11. /\ told'.answers = told.answers /\ told'.reps = told.reps /\ told'.asked = told.asked
  BY <1>1, Completes DEF CoreDoWork
<1>12. IsSeq(x) /\ Len(x) = k /\ \A i \in 1 .. k : x[i] = entry(i)
  <2>1. k \in Nat  BY <1>5, <1>6
  <2> DEFINE F == {entry(i) : i \in 1 .. k}
  <2> HIDE DEF entry
  <2>2. \A i \in 1 .. k : entry(i) \in F  OBVIOUS
  <2> HIDE DEF F
  <2>3. x \in Seq(F) /\ Len(x) = k /\ \A i \in 1 .. k : x[i] = entry(i)  BY <2>1, <2>2
  <2> HIDE DEF x
  <2>4. QED  BY <2>3, SeqIsSeq
<1>13. \A i \in 1 .. k : /\ DOMAIN entry(i) = {"pid", "kind", "id", "age"}
                         /\ entry(i).kind = "report" /\ entry(i).id = R[i]
  OBVIOUS
<1> HIDE DEF entry, t, x
<1>14. /\ IsSeq(y) /\ y \in Seq(ToSet(R)) /\ Len(y) = k
       /\ \A a \in 1 .. Len(y) : a \in 1 .. Len(R) /\ y[a] = R[a]
  <2> DEFINE w == SubSeq(R, 0 + 1, k)
  <2>1. k \in Nat /\ k <= Len(R) /\ 0 \in Nat  BY <1>4, <1>5, <1>6
  <2>2. /\ IsSeq(w) /\ w \in Seq(ToSet(R)) /\ Len(w) = (IF 0 <= k THEN k - 0 ELSE 0)
        /\ \A a \in 1 .. Len(w) : a + 0 \in 1 .. k /\ w[a] = R[a + 0]
    BY <1>4, <2>1, Slice
  <2>3. w = y  OBVIOUS
  <2> HIDE DEF w, y
  <2>4. Len(y) = k /\ \A a \in 1 .. Len(y) : a + 0 = a  BY <2>1, <2>2, <2>3
  <2>5. \A a \in 1 .. Len(y) : a \in 1 .. Len(R)  BY <2>1, <2>4, <1>4
  <2>6. QED  BY <2>2, <2>3, <2>4, <2>5
<1>15. /\ IsSeq(z) /\ z \in Seq(ToSet(R))
       /\ \A a \in 1 .. Len(z) : a + tried \in 1 .. Len(R) /\ z[a] = R[a + tried]
  <2>1. Len(R) \in Nat /\ Len(R) <= Len(R)  BY <1>4
  <2> HIDE DEF tried, R
  <2>2. QED  BY <1>4, <1>6, <2>1, Slice
<1>16. y \in Seq(Reps) /\ z \in Seq(Reps)
  <2> HIDE DEF y, z
  <2>1. QED  BY <1>4, <1>14, <1>15
<1> HIDE DEF y, z, n
<1>17. ValuesOnce(y) /\ ValuesOnce(z)
  <2>1. ValuesOnce(y)  BY <1>3, <1>14 DEF ValuesOnce
  <2>2. ASSUME NEW i \in 1 .. Len(z), NEW j \in 1 .. Len(z), z[i] = z[j]  PROVE i = j
    <3>1. i + tried = j + tried  BY <1>3, <1>15, <2>2 DEF ValuesOnce
    <3> HIDE DEF tried
    <3>2. Len(z) \in Nat  BY <1>15, LenIsNat
    <3>3. QED  BY <1>6, <3>1, <3>2
  <2>3. QED  BY <2>1, <2>2 DEF ValuesOnce
<1>18. \A v : /\ HasValue(y, v) => HasValue(R, v) /\ v \in Reps
              /\ HasValue(z, v) => HasValue(R, v) /\ v \in Reps
  <2> SUFFICES ASSUME NEW v
               PROVE  /\ HasValue(y, v) => HasValue(R, v) /\ v \in Reps
                      /\ HasValue(z, v) => HasValue(R, v) /\ v \in Reps
      OBVIOUS
  <2>1. ASSUME HasValue(y, v)  PROVE HasValue(R, v) /\ v \in Reps
    <3>1. PICK a \in 1 .. Len(y) : y[a] = v  BY <2>1 DEF HasValue
    <3>2. a \in 1 .. Len(R) /\ R[a] = v  BY <1>14, <3>1
    <3>3. v \in Reps  BY <1>3, <3>2
    <3>4. QED  BY <3>2, <3>3 DEF HasValue
  <2>2. ASSUME HasValue(z, v)  PROVE HasValue(R, v) /\ v \in Reps
    <3>1. PICK a \in 1 .. Len(z) : z[a] = v  BY <2>2 DEF HasValue
    <3>2. a + tried \in 1 .. Len(R) /\ R[a + tried] = v  BY <1>15, <3>1
    <3>3. v \in Reps  BY <1>3, <3>2
    <3>4. QED  BY <3>2, <3>3 DEF HasValue
  <2>3. QED  BY <2>1, <2>2
<1>19. \A v : ~(HasValue(y, v) /\ HasValue(z, v))
  <2> SUFFICES ASSUME NEW v, HasValue(y, v), HasValue(z, v) PROVE FALSE  OBVIOUS
  <2>1. PICK i \in 1 .. Len(y) : y[i] = v  BY DEF HasValue
  <2>2. PICK j \in 1 .. Len(z) : z[j] = v  BY DEF HasValue
  <2> HIDE DEF tried
  <2>3. i = j + tried
    <3>1. i \in 1 .. Len(R) /\ R[i] = v  BY <1>14, <2>1
    <3>2. j + tried \in 1 .. Len(R) /\ R[j + tried] = v  BY <1>15, <2>2
    <3>3. QED  BY <1>3, <3>1, <3>2 DEF ValuesOnce
  <2>4. Len(z) \in Nat  BY <1>15, LenIsNat
  <2>5. QED  BY <1>5, <1>6, <1>14, <2>3, <2>4
<1>20. \A v : ~(HasValue(core.acks, v) /\ HasValue(y, v))  BY <1>3, <1>18
<1>21. IsSeq(core.acks) /\ IsSeq(tr.twinAck) /\ TwinEntries(tr.twinAck)
  BY <1>1, <1>3, SeqIsSeq DEF GetsInv, TwinEntries
<1>22. Joined(K, core.acks, y) /\ Joined(A, tr.twinAck, x)  BY <1>12, <1>14, <1>21, ConcatJoins
<1> HIDE DEF K, A, R
<1>23. /\ K \in Seq(Reps) /\ ValuesOnce(K)
       /\ \A v : HasValue(K, v) <=> HasValue(core.acks, v) \/ HasValue(y, v)
  BY <1>3, <1>16, <1>17, <1>20, <1>22, ValuesJoin
<1>24. /\ TwinEntries(x) /\ \A i \in 1 .. Len(x) : x[i].kind = "report" /\ x[i].id = y[i]
       /\ Len(x) = Len(y)
  BY <1>12, <1>13, <1>14 DEF TwinEntries
<1>25. /\ TwinsOnce(x, "report") /\ SameOrder(y, x)
       /\ \A id : HasTwin(x, "report", id) <=> HasValue(y, id)
  <2>1. TwinsOnce(x, "report")  BY <1>17, <1>24 DEF TwinsOnce, ValuesOnce
  <2>2. \A id : HasTwin(x, "report", id) <=> HasValue(y, id)  BY <1>24 DEF HasTwin, HasValue
  <2>3. ASSUME NEW i \in 1 .. Len(y), NEW j \in 1 .. Len(y), NEW p \in 1 .. Len(x), NEW q \in 1 .. Len(x),
               x[p].kind = "report", x[p].id = y[i], x[q].kind = "report", x[q].id = y[j], i <= j
        PROVE  p <= q
    BY <1>17, <1>24, <2>3 DEF ValuesOnce
  <2>4. QED  BY <2>1, <2>2, <2>3, SameOnes DEF SameOrder
<1>26. \A id : ~(HasTwin(tr.twinAck, "report", id) /\ HasTwin(x, "report", id))
  BY <1>3, <1>20, <1>25, SameOnes
<1>27. /\ TwinEntries(A) /\ TwinsOnce(A, "report")
       /\ \A id : HasTwin(A, "report", id) <=> HasTwin(tr.twinAck, "report", id) \/ HasTwin(x, "report", id)
  BY <1>3, <1>21, <1>22, <1>24, <1>25, <1>26, TwinsJoin
<1>28. \A id : HasTwin(A, "report", id) <=> HasValue(K, id)  BY <1>3, <1>23, <1>25, <1>27, SameOnes
<1>29. SameOrder(K, A)
  BY <1>3, <1>12, <1>14, <1>20, <1>21, <1>22, <1>25, <1>28, OrderJoin
<1>30. RepsInv'
  <2>1. told'.reps = Reported({})  BY <1>1, <1>11, NoneReported
  <2>2. ASSUME NEW r \in Reps
        PROVE  /\ ~(HasValue(core'.acks, r) /\ HasValue(core'.reports, r))
               /\ HasValue(core'.acks, r) \/ HasValue(core'.reports, r) =>
                    (HasValue(core.acks, r) \/ HasValue(core.reports, r)) /\ r \notin {}
    BY <1>3, <1>9, <1>18, <1>19, <1>23 DEF R
  <2>3. QED  BY <1>1, <1>8, <1>9, <1>11, <1>16, <1>17, <1>23, <1>27, <1>29, <2>1, <2>2, RepsMove
<1>31. GetsInv'
  <2>1. \A i \in 1 .. Len(x) : x[i].kind # "demand"  BY <1>24
  <2>2. QED  BY <1>1, <1>8, <1>11, <1>22, <1>24, <2>1, GetsUndisturbed
<1>32. QED  BY <1>10, <1>30, <1>31

\* Requests that are added to those that wait for an answer leave the reported states
\* where they are.
LEMMA RepsUndisturbed ==
  ASSUME RepsInv, TwinEntries(tr.twinAck), NEW A, NEW x, Joined(A, tr.twinAck, x), TwinEntries(x),
         \A i \in 1 .. Len(x) : x[i].kind # "report",
         tr'.twinAck = A, core'.acks = core.acks, core'.reports = core.reports,
         told'.reps = told.reps, told'.asked = told.asked
  PROVE  RepsInv'
<1> DEFINE K == core.acks
           y == <<>>
<1>1. /\ K \in Seq(Reps) /\ TwinsOnce(tr.twinAck, "report") /\ SameOrder(K, tr.twinAck)
  BY DEF RepsInv
<1>2. TwinsOnce(x, "report") /\ \A id : ~HasTwin(x, "report", id)  BY DEF TwinsOnce, HasTwin
<1>3. /\ TwinsOnce(A, "report")
      /\ \A id : HasTwin(A, "report", id) <=> HasTwin(tr.twinAck, "report", id)
  BY <1>1, <1>2, TwinsJoin
<1>4. IsSeq(K) /\ Len(K) \in Nat  BY <1>1, SeqIsSeq
<1>5. IsSeq(y) /\ Len(y) = 0 /\ \A v : ~HasValue(y, v)  BY EmptyWithout DEF HasValue
<1>6. Joined(K, K, y)  BY <1>4, <1>5 DEF Joined
<1>7. SameOrder(y, x)  BY <1>2, <1>5 DEF SameOrder, HasTwin
<1>8. IsSeq(tr.twinAck) /\ IsSeq(x)  BY DEF TwinEntries
<1>9. /\ \A id : HasTwin(A, "report", id) <=> HasValue(K, id)
      /\ \A id : ~(HasValue(K, id) /\ HasValue(y, id))
  BY <1>1, <1>3, <1>5, SameOnes
<1> HIDE DEF K, y
<1>10. SameOrder(K, A)  BY <1>1, <1>4, <1>5, <1>6, <1>7, <1>8, <1>9, OrderJoin
<1>11. QED  BY <1>3, <1>10, RepsTwins DEF K

\* The request that the transport makes itself.
LEMMA SubackOnce ==
  ASSUME ConnInv, OnceInv, SubackReceived
  PROVE  MessagesInv' /\ GetsInv' /\ RepsInv' /\ Fields'
<1> DEFINE pid == PidAfter(tr.pid, 1)
           e == [pid |-> pid, kind |-> "auto", id |-> AUTO, age |-> 0]
           t == [tr EXCEPT !.pid = pid]
           u == [t EXCEPT !.getSent = TRUE, !.twinAck = Append(@, e)]
           A == Append(tr.twinAck, e)
           x == <<e>>
<1>1. MessagesInv /\ GetsInv /\ RepsInv /\ Fields /\ DOMAIN tr = TrFields
  BY TransportFacts DEF OnceInv
<1>2. core' = core /\ told' = told  BY DEF SubackReceived
<1>3. \/ tr' = [tr EXCEPT !.pkt = "PUBLISH"]
      \/ tr' = [u EXCEPT !.pkt = "PUBLISH"]
      \/ tr' = [mqtt_error_callback(t) EXCEPT !.pkt = "PUBLISH"]
      \/ tr' = [t EXCEPT !.pkt = "PUBLISH"]
  BY DEF SubackReceived
<1>4. SameLists(t, tr)  BY <1>1 DEF SameLists, TrFields
<1>5. SameLists(mqtt_error_callback(t), tr)  BY <1>4, ListsStay DEF SameLists
<1>6. DOMAIN u = TrFields /\ u.inflight = tr.inflight /\ u.twinPend = tr.twinPend /\ u.twinAck = A
  BY <1>1 DEF TrFields
<1> HIDE DEF u, t, A
<1>7. /\ tr'.inflight = tr.inflight /\ tr'.twinPend = tr.twinPend
      /\ tr'.twinAck = A \/ tr'.twinAck = tr.twinAck
  BY <1>1, <1>3, <1>4, <1>5, <1>6 DEF SameLists, TrFields
<1>8. MessagesInv' /\ Fields'  BY <1>1, <1>2, <1>7, MessagesStay DEF Fields
<1>9. CASE tr'.twinAck = tr.twinAck  BY <1>1, <1>2, <1>7, <1>8, <1>9, GetsStay, RepsStay
<1>10. CASE tr'.twinAck = A
  <2>1. TwinEntries(tr.twinAck)  BY <1>1 DEF GetsInv
  <2>2. DOMAIN e = {"pid", "kind", "id", "age"} /\ e.kind = "auto"  OBVIOUS
  <2>3. IsSeq(x) /\ Len(x) = 1 /\ x[1] = e /\ Joined(A, tr.twinAck, x)
    BY <2>1, AppendJoins DEF TwinEntries, A
  <2> HIDE DEF x, e
  <2>4. TwinEntries(x) /\ \A i \in 1 .. Len(x) : x[i].kind # "report" /\ x[i].kind # "demand"
    BY <2>2, <2>3 DEF TwinEntries
  <2>5. GetsInv'  BY <1>1, <1>2, <1>7, <1>10, <2>3, <2>4, GetsUndisturbed
  <2>6. RepsInv'  BY <1>1, <1>2, <1>10, <2>1, <2>3, <2>4, RepsUndisturbed
  <2>7. QED  BY <1>8, <2>5, <2>6
<1>11. QED  BY <1>7, <1>9, <1>10

\* sendPendingGetTwinRequests: the first of the requests that were not sent wait for an
\* answer afterwards, the others are forgotten.
LEMMA PublishOnce ==
  ASSUME ConnInv, OnceInv, PublishAll
  PROVE  MessagesInv' /\ GetsInv' /\ RepsInv' /\ Fields'
<1> DEFINE n == Len(core.waiting)
           P == tr.twinPend
           all == n + Len(P)
           entry(i) == [msg |-> core.waiting[i].msg, pid |-> PidAfter(tr.pid, i), retry |-> 1, age |-> 0]
<1>1. MessagesInv /\ GetsInv /\ RepsInv /\ Fields /\ DOMAIN tr = TrFields /\ IsSeq(core.waiting)
  BY TransportFacts DEF OnceInv
<1>2. PICK k \in Accepted(all) :
        LET m == IF k < n THEN k ELSE n
            t == [tr EXCEPT !.pid = PidAfter(@, n), !.twinPend = <<>>,
                            !.inflight = @ \o [i \in 1 .. m |-> entry(i)],
                            !.twinAck = @ \o SubSeq(P, 1, k - m),
                            !.getSent = @ \/ k > n]
        IN  tr' = IF Breaks(k, all) THEN mqtt_error_callback(t) ELSE t
  BY DEF PublishAll
<1> DEFINE m == IF k < n THEN k ELSE n
           j == k - m
           x == SubSeq(P, 1, j)
           A == tr.twinAck \o x
           v == tr.inflight \o [i \in 1 .. m |-> entry(i)]
           t == [tr EXCEPT !.pid = PidAfter(@, n), !.twinPend = <<>>, !.inflight = v,
                           !.twinAck = A, !.getSent = @ \/ k > n]
<1>3. /\ TwinEntries(P) /\ TwinEntries(tr.twinAck) /\ \A i \in 1 .. Len(P) : P[i].kind = "demand"
      /\ TwinsOnce(tr.twinAck, "demand") /\ TwinsOnce(P, "demand")
      /\ Apart(tr.twinAck, P)
  BY <1>1 DEF GetsInv
<1>4. /\ n \in Nat /\ Len(P) \in Nat /\ IsSeq(P) /\ IsSeq(tr.twinAck)
  BY <1>1, <1>3, LenIsNat DEF TwinEntries
<1>5. j \in Nat /\ j <= Len(P)
  <2> DEFINE p == Len(P)
  <2>1. n \in Nat /\ p \in Nat  BY <1>4
  <2> HIDE DEF n, p
  <2>2. n + p \in Nat  BY <2>1
  <2>3. k \in 0 .. n + p  BY <2>2 DEF Accepted, p
  <2>4. j \in Nat /\ j <= p  BY <2>1, <2>3
  <2>5. QED  BY <2>4 DEF p
<1>6. DOMAIN t = TrFields /\ t.twinAck = A /\ t.twinPend = <<>>  BY <1>1 DEF TrFields
<1>7. tr'.twinAck = A /\ tr'.twinPend = <<>>
  <2>1. tr' = IF Breaks(k, all) THEN mqtt_error_callback(t) ELSE t  BY <1>2
  <2> HIDE DEF t, A, all
  <2>2. QED  BY <1>6, <2>1, ListsStay DEF SameLists
<1>8. MessagesInv' /\ Fields'  BY PublishMsgs
<1>9. told'.answers = told.answers /\ told'.reps = told.reps /\ told'.asked = told.asked
  BY <1>1, Completes DEF PublishAll
<1>10. core'.acks = core.acks /\ core'.reports = core.reports
  BY DEF PublishAll, ConnInv, Shapes
<1> HIDE DEF t, all, v, m, n, j
<1>11. /\ IsSeq(x) /\ \A a \in 1 .. Len(x) : a \in 1 .. Len(P) /\ x[a] = P[a]
  <2> DEFINE w == SubSeq(P, 0 + 1, j)
  <2> HIDE DEF P
  <2>1. 0 \in Nat  OBVIOUS
  <2>2. /\ IsSeq(w) /\ Len(w) = (IF 0 <= j THEN j - 0 ELSE 0)
        /\ \A a \in 1 .. Len(w) : a + 0 \in 1 .. j /\ w[a] = P[a + 0]
    BY <1>4, <1>5, <2>1, Slice
  <2>3. w = x  OBVIOUS
  <2> HIDE DEF w, x
  <2>4. Len(x) = j /\ \A a \in 1 .. Len(x) : a + 0 = a  BY <1>5, <2>2, <2>3
  <2>5. \A a \in 1 .. Len(x) : a \in 1 .. Len(P)  BY <1>4, <1>5, <2>4
  <2>6. QED  BY <2>2, <2>3, <2>4, <2>5
<1> HIDE DEF x
<1>12. /\ TwinEntries(x) /\ TwinsOnce(x, "demand") /\ \A i \in 1 .. Len(x) : x[i].kind # "report"
       /\ \A id : HasTwin(x, "demand", id) => HasTwin(P, "demand", id)
  BY <1>3, <1>11 DEF TwinEntries, TwinsOnce, HasTwin
<1>13. Joined(A, tr.twinAck, x)  BY <1>4, <1>11, ConcatJoins
<1> HIDE DEF A
<1>14. RepsInv'  BY <1>1, <1>3, <1>7, <1>9, <1>10, <1>12, <1>13, RepsUndisturbed
<1>15. \A id : ~(HasTwin(tr.twinAck, "demand", id) /\ HasTwin(x, "demand", id))
  BY <1>3, <1>12, ApartHas
<1>16. /\ TwinEntries(A) /\ TwinsOnce(A, "demand")
       /\ \A id : HasTwin(A, "demand", id) <=> HasTwin(tr.twinAck, "demand", id) \/ HasTwin(x, "demand", id)
  BY <1>3, <1>12, <1>13, <1>15, TwinsJoin
<1>17. GetsInv'
  <2>1. /\ TwinEntries(<<>>) /\ TwinsOnce(<<>>, "demand") /\ \A id : ~HasTwin(<<>>, "demand", id)
        /\ \A i \in 1 .. Len(<<>>) : FALSE
    BY NoTwins
  <2>2. Apart(A, <<>>)  BY <2>1, ApartHas
  <2>3. \A g \in Gets : Queued(g)' => Queued(g)  BY <1>7, <1>12, <1>16, <2>1 DEF Queued
  <2>4. told'.answers = TwinAnswered(told, {}).answers /\ "answers" \in DOMAIN told
    BY <1>1, <1>9, NoneAnswered DEF Fields
  <2>5. QED  BY <1>1, <1>7, <1>9, <1>16, <2>1, <2>2, <2>3, <2>4, GetsMove
<1>18. QED  BY <1>8, <1>14, <1>17

\* Of a list of requests and reported states, those of a kind that are not selected are
\* the ones of T.
TwinsLeave(q, S, kind, T) == \A i \in 1 .. Len(q) : q[i].kind = kind => (q[i].id \in T <=> q[i] \notin S)

\* Requests that are selected from a list.
LEMMA TwinsOnly ==
  ASSUME NEW q, TwinEntries(q), NEW S, NEW kind, TwinsOnce(q, kind), NEW T, TwinsLeave(q, S, kind, T)
  PROVE  /\ TwinEntries(Only(q, S)) /\ TwinsOnce(Only(q, S), kind)
         /\ \A id : HasTwin(Only(q, S), kind, id) <=> HasTwin(q, kind, id) /\ id \notin T
<1> DEFINE r == Only(q, S)
<1>1. IsSeq(q)  BY DEF TwinEntries
<1>2. IsSeq(r)  BY <1>1, OnlyIsSeq
<1>3. PICK f : IsPart(r, q, f) /\ \A i \in 1 .. Len(q) : q[i] \in S <=> \E a \in 1 .. Len(r) : f[a] = i
  BY <1>1, OnlyPart
<1> HIDE DEF r
<1>4. TwinsBut(r, q, f, kind, T)  BY <1>3 DEF TwinsBut, TwinsLeave
<1>5. /\ TwinEntries(r) /\ TwinsOnce(r, kind)
      /\ \A id : HasTwin(r, kind, id) <=> HasTwin(q, kind, id) /\ id \notin T
  BY <1>2, <1>3, <1>4, TwinsPart
<1>6. QED  BY <1>5 DEF r

\* An entry that is taken out.
Taken(e, kind) == IF e.kind = kind THEN {e.id} ELSE {}

\* A request that is taken out.
LEMMA TwinsRemove ==
  ASSUME NEW q, TwinEntries(q), NEW kind, TwinsOnce(q, kind), NEW i \in 1 .. Len(q)
  PROVE  LET r == RemoveAt(q, i)
         IN  /\ TwinEntries(r) /\ TwinsOnce(r, kind)
             /\ \A id : HasTwin(r, kind, id) <=> HasTwin(q, kind, id) /\ id \notin Taken(q[i], kind)
<1> DEFINE r == RemoveAt(q, i)
           T == Taken(q[i], kind)
<1>1. IsSeq(q)  BY DEF TwinEntries
<1>2. IsSeq(r)  BY <1>1, RemovePart
<1>3. PICK f : IsPart(r, q, f) /\ \A j \in 1 .. Len(q) : j # i <=> \E a \in 1 .. Len(r) : f[a] = j
  BY <1>1, RemovePart
<1> HIDE DEF r
<1>4. \A j \in 1 .. Len(q) : q[j].kind = kind => (q[j].id \notin T <=> j # i)
  BY DEF Taken, TwinsOnce
<1> HIDE DEF T
<1>5. TwinsBut(r, q, f, kind, T)  BY <1>3, <1>4 DEF TwinsBut
<1>6. /\ TwinEntries(r) /\ TwinsOnce(r, kind)
      /\ \A id : HasTwin(r, kind, id) <=> HasTwin(q, kind, id) /\ id \notin T
  BY <1>2, <1>3, <1>5, TwinsPart
<1>7. QED  BY <1>6 DEF r, T

\* A list is a part of itself.
LEMMA WholePart ==
  ASSUME NEW q, IsSeq(q)
  PROVE  IsPart(q, q, [a \in 1 .. Len(q) |-> a])
<1>1. Len(q) \in Nat  BY LenIsNat
<1>2. QED  BY <1>1 DEF IsPart

\* The requests after an entry of those that wait for an answer was taken out.
LEMMA TakenGets ==
  ASSUME GetsInv, Fields, NEW i \in 1 .. Len(tr.twinAck),
         tr'.twinAck = RemoveAt(tr.twinAck, i), tr'.twinPend = tr.twinPend,
         told'.answers = TwinAnswered(told, Taken(tr.twinAck[i], "demand")).answers,
         told'.asked = told.asked
  PROVE  GetsInv'
<1> DEFINE A == tr.twinAck
           B == RemoveAt(A, i)
           T == Taken(A[i], "demand")
<1>1. /\ TwinEntries(A) /\ TwinEntries(tr.twinPend)
      /\ \A a \in 1 .. Len(tr.twinPend) : tr.twinPend[a].kind = "demand"
      /\ TwinsOnce(A, "demand") /\ TwinsOnce(tr.twinPend, "demand") /\ Apart(A, tr.twinPend)
  BY DEF GetsInv
<1>2. /\ TwinEntries(B) /\ TwinsOnce(B, "demand")
      /\ \A id : HasTwin(B, "demand", id) <=> HasTwin(A, "demand", id) /\ id \notin T
  BY <1>1, TwinsRemove
<1>3. \A id \in T : HasTwin(A, "demand", id)  BY DEF Taken, HasTwin
<1>4. tr'.twinAck = B /\ told'.answers = TwinAnswered(told, T).answers /\ "answers" \in DOMAIN told
  BY DEF Fields
<1> HIDE DEF A, B, T
<1>5. Apart(B, tr.twinPend)  BY <1>1, <1>2, ApartHas
<1>6. \A id \in T : ~HasTwin(tr.twinPend, "demand", id)  BY <1>1, <1>3, ApartHas
<1>7. \A g \in Gets : (Queued(g)' => Queued(g) /\ g \notin T) /\ (g \in T => Queued(g))
  BY <1>2, <1>3, <1>4, <1>6 DEF Queued, A
<1>8. QED  BY <1>1, <1>2, <1>4, <1>5, <1>7, GetsMove

\* An answer came.
LEMMA TwinOnce ==
  ASSUME ConnInv, OnceInv, NEW pid, OnTwin(pid)
  PROVE  MessagesInv' /\ GetsInv' /\ RepsInv' /\ Fields'
<1> DEFINE A == tr.twinAck
           found == {i \in 1 .. Len(A) : A[i].pid = pid}
           i == CHOOSE x \in found : \A y \in found : x <= y
           e == A[i]
           B == RemoveAt(A, i)
           t == [tr EXCEPT !.twinAck = B]
           automatic == RetrievePropertyComplete(core, told, "COMPLETE")
           reported == ReportedStateComplete(core, told, e.id)
<1>1. MessagesInv /\ GetsInv /\ RepsInv /\ Fields /\ DOMAIN tr = TrFields
  BY TransportFacts DEF OnceInv
<1>2. \/ core' = core /\ tr' = tr /\ told' = told
      \/ /\ found # {} /\ e.kind = "demand" /\ tr' = t /\ core' = core
         /\ told' = [TwinAnswered(told, {e.id}) EXCEPT !.whole = TRUE]
      \/ /\ found # {} /\ e.kind = "auto" /\ tr' = SubscribeTopic(t, "notify")
         /\ core' = automatic.core /\ told' = automatic.told
      \/ /\ found # {} /\ e.kind = "report" /\ tr' = SubscribeTopic(t, "notify")
         /\ core' = reported.core /\ told' = reported.told
  BY DEF OnTwin
<1>3. /\ TwinEntries(A) /\ TwinsOnce(A, "demand") /\ TwinsOnce(A, "report") /\ Len(A) \in Nat
      /\ core.acks \in Seq(Reps) /\ ValuesOnce(core.acks) /\ SameOrder(core.acks, A)
  BY <1>1, LenIsNat DEF GetsInv, RepsInv, TwinEntries
<1>4. DOMAIN core = {"waiting", "reports", "acks", "callback", "complete"}  BY DEF ConnInv, Shapes
<1>5. CASE core' = core /\ tr' = tr /\ told' = told
  BY <1>1, <1>5, MessagesStay, GetsStay, RepsStay DEF Fields
<1>6. found # {} => i \in 1 .. Len(A)
  <2>1. found \in SUBSET Nat  BY <1>3
  <2>2. found # {} => \E x \in found : \A y \in found : x <= y  BY <2>1, LeastOf
  <2> HIDE DEF found
  <2>3. found # {} => i \in found  BY <2>2
  <2>4. QED  BY <2>3 DEF found
<1>7. SameLists(t, [tr EXCEPT !.twinAck = B]) /\ SameLists(SubscribeTopic(t, "notify"), t)
  <2>1. DOMAIN t = TrFields  BY <1>1 DEF TrFields
  <2>2. QED  BY <2>1, ListsStay DEF SameLists
<1>8. t.inflight = tr.inflight /\ t.twinPend = tr.twinPend /\ t.twinAck = B
  BY <1>1 DEF TrFields
<1>9. found # {} => /\ TwinEntries(B) /\ TwinsOnce(B, "report")
                    /\ \A id : HasTwin(B, "report", id) <=>
                                HasTwin(A, "report", id) /\ id \notin Taken(e, "report")
  <2> HIDE DEF A, i, found
  <2>1. QED  BY <1>3, <1>6, TwinsRemove
<1>10. found # {} => \E f : IsPart(B, A, f)
  <2> HIDE DEF A, i, found
  <2>1. QED  BY <1>3, <1>6, RemovePart DEF TwinEntries
<1>11. \A k, f : found # {} /\ IsPart(k, core.acks, f) /\ Len(k) \in Nat
                 /\ (\A id : HasTwin(B, "report", id) <=> HasValue(k, id)) => SameOrder(k, B)
  <2> SUFFICES ASSUME NEW k, NEW f, found # {}, IsPart(k, core.acks, f), Len(k) \in Nat,
                      \A id : HasTwin(B, "report", id) <=> HasValue(k, id)
               PROVE  SameOrder(k, B)
    OBVIOUS
  <2>1. PICK h : IsPart(B, A, h)  BY <1>10
  <2>2. Len(B) \in Nat  BY <1>9, LenIsNat DEF TwinEntries
  <2>3. Len(core.acks) \in Nat  BY <1>3
  <2> HIDE DEF A, B, found
  <2>4. QED  BY <1>3, <2>1, <2>2, <2>3, OrderPart
<1>12. ASSUME found # {}, e.kind # "report"
       PROVE  SameOrder(core.acks, B)
  <2>1. IsSeq(core.acks) /\ Len(core.acks) \in Nat  BY <1>3, SeqIsSeq
  <2>2. \A id : HasTwin(B, "report", id) <=> HasValue(core.acks, id)
    BY <1>3, <1>9, <1>12, SameOnes DEF Taken
  <2>3. IsPart(core.acks, core.acks, [a \in 1 .. Len(core.acks) |-> a])  BY <2>1, WholePart
  <2> HIDE DEF B, found, e
  <2>4. QED  BY <1>11, <1>12, <2>1, <2>2, <2>3
<1> HIDE DEF found, i, t, A, B
<1>13. CASE /\ found # {} /\ e.kind = "demand" /\ tr' = t /\ core' = core
            /\ told' = [TwinAnswered(told, {e.id}) EXCEPT !.whole = TRUE]
  <2>1. /\ DOMAIN told' = DOMAIN told /\ told'.asked = told.asked /\ told'.conf = told.conf
        /\ told'.reps = told.reps /\ told'.answers = TwinAnswered(told, {e.id}).answers
    BY <1>1, <1>13 DEF Fields, TwinAnswered
  <2>2. Taken(e, "demand") = {e.id}  BY <1>13 DEF Taken
  <2>3. MessagesInv' /\ Fields'  BY <1>1, <1>8, <1>13, <2>1, MessagesStay DEF Fields
  <2>4. GetsInv'  BY <1>1, <1>6, <1>8, <1>13, <2>1, <2>2, TakenGets DEF A, B
  <2>5. RepsInv'  BY <1>1, <1>8, <1>9, <1>12, <1>13, <2>1, RepsTwins
  <2>6. QED  BY <2>3, <2>4, <2>5
<1>14. CASE /\ found # {} /\ e.kind = "auto" /\ tr' = SubscribeTopic(t, "notify")
            /\ core' = automatic.core /\ told' = automatic.told
  <2>1. /\ DOMAIN told' = DOMAIN told /\ told'.asked = told.asked /\ told'.conf = told.conf
        /\ told'.reps = told.reps /\ told'.answers = told.answers
        /\ core'.waiting = core.waiting /\ core'.acks = core.acks /\ core'.reports = core.reports
    BY <1>1, <1>4, <1>14 DEF Fields, RetrievePropertyComplete
  <2>2. Taken(e, "demand") = {}  BY <1>14 DEF Taken
  <2>3. tr'.inflight = tr.inflight /\ tr'.twinPend = tr.twinPend /\ tr'.twinAck = B
    BY <1>7, <1>8, <1>14 DEF SameLists
  <2>4. MessagesInv' /\ Fields'  BY <1>1, <2>1, <2>3, MessagesStay DEF Fields
  <2>5. told'.answers = TwinAnswered(told, Taken(e, "demand")).answers
    BY <1>1, <2>1, <2>2, NoneAnswered
  <2>6. GetsInv'  BY <1>1, <1>6, <1>14, <2>1, <2>3, <2>5, TakenGets DEF A, B
  <2>7. RepsInv'  BY <1>1, <1>9, <1>12, <1>14, <2>1, <2>3, RepsTwins
  <2>8. QED  BY <2>4, <2>6, <2>7
<1>15. CASE /\ found # {} /\ e.kind = "report" /\ tr' = SubscribeTopic(t, "notify")
            /\ core' = reported.core /\ told' = reported.told
  <2> DEFINE S == ToSet(core.acks) \ {e.id}
             K == Only(core.acks, S)
             T == {e.id}
  <2>1. tr'.inflight = tr.inflight /\ tr'.twinPend = tr.twinPend /\ tr'.twinAck = B
    BY <1>7, <1>8, <1>15 DEF SameLists
  <2>2. /\ DOMAIN told' = DOMAIN told /\ told'.asked = told.asked /\ told'.conf = told.conf
        /\ told'.answers = told.answers
        /\ told'.reps = [r \in Reps |-> IF r = e.id /\ Contains(core.acks, r)
                                        THEN told.reps[r] + 1 ELSE told.reps[r]]
        /\ core'.waiting = core.waiting /\ core'.acks = K /\ core'.reports = core.reports
    BY <1>1, <1>4, <1>15 DEF Fields, ReportedStateComplete
  <2>3. HasTwin(A, "report", e.id) /\ HasValue(core.acks, e.id)
    <3>1. HasTwin(A, "report", e.id)  BY <1>6, <1>15 DEF HasTwin
    <3>2. QED  BY <1>3, <3>1, SameOnes
  <2>4. told'.reps = Reported(T)
    BY <2>2, <2>3 DEF Reported, HasValue, Contains
  <2>5. MessagesInv' /\ Fields'  BY <1>1, <2>1, <2>2, MessagesStay DEF Fields
  <2>6. GetsInv'
    <3>1. Taken(e, "demand") = {}  BY <1>15 DEF Taken
    <3>2. told'.answers = TwinAnswered(told, Taken(e, "demand")).answers
      BY <1>1, <2>2, <3>1, NoneAnswered
    <3>3. QED  BY <1>1, <1>6, <1>15, <2>1, <2>2, <3>2, TakenGets DEF A, B
  <2>7. IsSeq(core.acks) /\ IsSeq(K)  BY <1>3, SeqIsSeq, OnlyIsSeq
  <2>9. \A j \in 1 .. Len(core.acks) : core.acks[j] \in S <=> core.acks[j] \notin T
    <3>1. \A j \in 1 .. Len(core.acks) : core.acks[j] \in ToSet(core.acks)  BY <1>3 DEF ToSet
    <3> HIDE DEF e
    <3>2. QED  BY <3>1
  <2> HIDE DEF S, T
  <2>8. PICK f : /\ IsPart(K, core.acks, f)
                 /\ \A j \in 1 .. Len(core.acks) : core.acks[j] \in S <=> \E a \in 1 .. Len(K) : f[a] = j
    BY <2>7, OnlyPart
  <2> HIDE DEF K
  <2>10. ValuesBut(K, core.acks, f, T)
    <3>1. \A j \in 1 .. Len(core.acks) : core.acks[j] \in S <=> \E a \in 1 .. Len(K) : f[a] = j
      BY <2>8
    <3>2. QED  BY <3>1, <2>9 DEF ValuesBut
  <2>21. IsPart(K, core.acks, f) /\ core.acks \in Seq(Reps) /\ ValuesOnce(core.acks)  BY <1>3, <2>8
  <2>11. /\ K \in Seq(Reps) /\ ValuesOnce(K)
         /\ \A v : HasValue(K, v) <=> HasValue(core.acks, v) /\ v \notin T
    BY <2>7, <2>10, <2>21, ValuesPart
  <2>12. Taken(e, "report") = T  BY <1>15 DEF Taken, T
  <2>13. \A id : HasTwin(B, "report", id) <=> HasValue(K, id)
    BY <1>3, <1>9, <1>15, <2>11, <2>12, SameOnes
  <2>14. SameOrder(K, B)
    <3>1. Len(K) \in Nat  BY <2>7, LenIsNat
    <3>2. QED  BY <1>11, <1>15, <2>8, <2>13, <3>1
  <2>15. \A r \in Reps : r \in T => HasValue(core.acks, r)  BY <2>3 DEF T
  <2>16. core.reports \in Seq(Reps) /\ ValuesOnce(core.reports)
         /\ \A r \in Reps : ~(HasValue(core.acks, r) /\ HasValue(core.reports, r))
    BY <1>1 DEF RepsInv
  <2>17. ASSUME NEW r \in Reps
         PROVE  /\ ~(HasValue(core'.acks, r) /\ HasValue(core'.reports, r))
                /\ HasValue(core'.acks, r) \/ HasValue(core'.reports, r) =>
                     (HasValue(core.acks, r) \/ HasValue(core.reports, r)) /\ r \notin T
                /\ r \in T => HasValue(core.acks, r) \/ HasValue(core.reports, r)
    BY <2>2, <2>11, <2>15, <2>16
  <2>18. RepsInv'
    BY <1>1, <1>9, <1>15, <2>1, <2>2, <2>4, <2>11, <2>14, <2>16, <2>17, RepsMove
  <2>19. QED  BY <2>5, <2>6, <2>18
<1>16. QED  BY <1>2, <1>5, <1>13, <1>14, <1>15

\* Requests that waited too long are given up.
LEMMA ExpiredOnce ==
  ASSUME ConnInv, OnceInv, RemoveExpiredGets
  PROVE  MessagesInv' /\ GetsInv' /\ RepsInv' /\ Fields'
<1> DEFINE A == tr.twinAck
           P == tr.twinPend
           all == ToSet(P) \cup ToSet(A)
           gone == {e \in all : e.kind = "demand" /\ e.age >= TWINWAIT}
           S == all \ gone
           T == {e.id : e \in gone}
           B == Only(A, S)
           Q == Only(P, S)
<1>1. MessagesInv /\ GetsInv /\ RepsInv /\ Fields /\ DOMAIN tr = TrFields
  BY TransportFacts DEF OnceInv
<1>2. /\ tr'.twinPend = Q /\ tr'.twinAck = B /\ tr'.inflight = tr.inflight
      /\ told' = TwinAnswered(told, T) /\ core' = core
  BY <1>1 DEF RemoveExpiredGets, TrFields
<1>3. /\ DOMAIN told' = DOMAIN told /\ told'.asked = told.asked /\ told'.conf = told.conf
      /\ told'.reps = told.reps /\ told'.answers = TwinAnswered(told, T).answers
      /\ "answers" \in DOMAIN told
  BY <1>1, <1>2 DEF Fields, TwinAnswered
<1>4. MessagesInv' /\ Fields'  BY <1>1, <1>2, <1>3, MessagesStay DEF Fields
<1>5. /\ TwinEntries(A) /\ TwinEntries(P) /\ \A i \in 1 .. Len(P) : P[i].kind = "demand"
      /\ TwinsOnce(A, "demand") /\ TwinsOnce(P, "demand") /\ TwinsOnce(A, "report") /\ Apart(A, P)
      /\ SameOrder(core.acks, A) /\ core.acks \in Seq(Reps)
  BY <1>1 DEF GetsInv, RepsInv
<1>6. /\ DOMAIN A = 1 .. Len(A) /\ DOMAIN P = 1 .. Len(P) /\ IsSeq(A) /\ IsSeq(P)
  BY <1>5 DEF TwinEntries, IsSeq
<1>7. /\ \A i \in 1 .. Len(A) : A[i] \in all
      /\ \A i \in 1 .. Len(P) : P[i] \in all
      /\ \A e \in all : (\E i \in 1 .. Len(A) : e = A[i]) \/ (\E i \in 1 .. Len(P) : e = P[i])
  BY <1>6 DEF ToSet
<1> HIDE DEF A, P, all
<1>8. ASSUME NEW i \in 1 .. Len(A), A[i].kind = "demand"
      PROVE  A[i].id \in T <=> A[i] \notin S
  <2>1. ASSUME A[i].id \in T PROVE A[i] \in gone
    <3>1. PICK e \in gone : e.id = A[i].id  BY <2>1
    <3>2. e.kind = "demand" /\ e \in all  OBVIOUS
    <3>3. CASE \E j \in 1 .. Len(A) : e = A[j]
      <4>1. e = A[i]  BY <1>5, <1>8, <3>1, <3>2, <3>3 DEF TwinsOnce
      <4>2. QED  BY <4>1
    <3>4. CASE \E j \in 1 .. Len(P) : e = P[j]
      BY <1>5, <1>8, <3>1, <3>2, <3>4 DEF Apart
    <3>5. QED  BY <1>7, <3>2, <3>3, <3>4
  <2>2. QED  BY <1>7, <2>1
<1>9. ASSUME NEW i \in 1 .. Len(P), P[i].kind = "demand"
      PROVE  P[i].id \in T <=> P[i] \notin S
  <2>1. ASSUME P[i].id \in T PROVE P[i] \in gone
    <3>1. PICK e \in gone : e.id = P[i].id  BY <2>1
    <3>2. e.kind = "demand" /\ e \in all  OBVIOUS
    <3>3. CASE \E j \in 1 .. Len(P) : e = P[j]
      <4>1. e = P[i]  BY <1>5, <1>9, <3>1, <3>2, <3>3 DEF TwinsOnce
      <4>2. QED  BY <4>1
    <3>4. CASE \E j \in 1 .. Len(A) : e = A[j]
      BY <1>5, <1>9, <3>1, <3>2, <3>4 DEF Apart
    <3>5. QED  BY <1>7, <3>2, <3>3, <3>4
  <2>2. QED  BY <1>7, <2>1
<1>10. \A i \in 1 .. Len(A) : A[i].kind = "report" => A[i] \in S  BY <1>7
<1>11. \A id \in T : HasTwin(A, "demand", id) \/ HasTwin(P, "demand", id)  BY <1>7 DEF HasTwin
<1> HIDE DEF S, T, gone
<1>12. /\ TwinsLeave(A, S, "demand", T) /\ TwinsLeave(P, S, "demand", T)
       /\ TwinsLeave(A, S, "report", {})
  BY <1>8, <1>9, <1>10 DEF TwinsLeave
<1>13. /\ TwinEntries(B) /\ TwinsOnce(B, "demand")
       /\ \A id : HasTwin(B, "demand", id) <=> HasTwin(A, "demand", id) /\ id \notin T
  BY <1>5, <1>12, TwinsOnly
<1>14. /\ TwinEntries(Q) /\ TwinsOnce(Q, "demand")
       /\ \A id : HasTwin(Q, "demand", id) <=> HasTwin(P, "demand", id) /\ id \notin T
  BY <1>5, <1>12, TwinsOnly
<1>15. /\ TwinsOnce(B, "report")
       /\ \A id : HasTwin(B, "report", id) <=> HasTwin(A, "report", id)
  BY <1>5, <1>12, TwinsOnly
<1>16. \A i \in 1 .. Len(Q) : Q[i].kind = "demand"
  <2>1. PICK f : IsPart(Q, P, f)  BY <1>6, OnlyPart
  <2> HIDE DEF Q
  <2>2. QED  BY <1>5, <2>1 DEF IsPart
<1>17. PICK h : IsPart(B, A, h)  BY <1>6, OnlyPart
<1> HIDE DEF B, Q
<1>18. SameOrder(core.acks, B)
  <2>1. IsSeq(core.acks) /\ Len(core.acks) \in Nat  BY <1>5, SeqIsSeq
  <2>2. Len(A) \in Nat /\ Len(B) \in Nat  BY <1>6, <1>13, LenIsNat DEF TwinEntries
  <2>3. IsPart(core.acks, core.acks, [a \in 1 .. Len(core.acks) |-> a])  BY <2>1, WholePart
  <2>4. \A id : HasTwin(B, "report", id) <=> HasValue(core.acks, id)  BY <1>5, <1>15, SameOnes
  <2>5. QED  BY <1>5, <1>17, <2>1, <2>2, <2>3, <2>4, OrderPart
<1>19. RepsInv'  BY <1>1, <1>2, <1>3, <1>15, <1>18, RepsTwins
<1>20. Apart(B, Q)  BY <1>5, <1>13, <1>14, ApartHas
<1>21. \A g \in Gets : (Queued(g)' => Queued(g) /\ g \notin T) /\ (g \in T => Queued(g))
  BY <1>2, <1>11, <1>13, <1>14 DEF Queued, A, P
<1>22. GetsInv'  BY <1>1, <1>2, <1>3, <1>13, <1>14, <1>16, <1>20, <1>21, GetsMove
<1>23. QED  BY <1>4, <1>19, <1>22

\* Only the ages change.
LEMMA OlderTwins ==
  ASSUME NEW q, TwinEntries(q)
  PROVE  /\ IsSeq(OlderGets(q)) /\ Len(OlderGets(q)) = Len(q)
         /\ \A i \in 1 .. Len(q) : /\ DOMAIN OlderGets(q)[i] = DOMAIN q[i]
                                   /\ OlderGets(q)[i].kind = q[i].kind /\ OlderGets(q)[i].id = q[i].id
<1> DEFINE n == Len(q)
           older(i) == IF q[i].kind = "demand" THEN Older(q[i], TWINWAIT) ELSE q[i]
           r == [i \in 1 .. n |-> older(i)]
<1>1. n \in Nat  BY LenIsNat DEF TwinEntries
<1>2. \A i \in 1 .. n : DOMAIN older(i) = DOMAIN q[i] /\ older(i).kind = q[i].kind /\ older(i).id = q[i].id
  BY DEF TwinEntries, Older
<1>3. OlderGets(q) = r  BY DEF OlderGets
<1> HIDE DEF n, older
<1>4. r \in Seq({older(i) : i \in 1 .. n}) /\ Len(r) = n /\ \A i \in 1 .. n : r[i] = older(i)
  BY <1>1
<1> HIDE DEF r
<1>5. IsSeq(r)  BY <1>4, SeqIsSeq
<1>6. QED  BY <1>2, <1>3, <1>4, <1>5 DEF n

\* Time passes.
LEMMA TickOnce ==
  ASSUME ConnInv, OnceInv, Tick
  PROVE  MessagesInv' /\ GetsInv' /\ RepsInv' /\ Fields'
<1> DEFINE A == tr.twinAck
           P == tr.twinPend
           B == OlderGets(A)
           Q == OlderGets(P)
<1>1. MessagesInv /\ GetsInv /\ RepsInv /\ Fields /\ DOMAIN tr = TrFields
  BY TransportFacts DEF OnceInv
<1>2. /\ tr'.twinAck = B /\ tr'.twinPend = Q /\ told' = told
      /\ core'.acks = core.acks /\ core'.reports = core.reports
  BY <1>1 DEF Tick, TrFields, ConnInv, Shapes
<1>3. MessagesInv' /\ Fields'  BY TickMsgs
<1>4. /\ TwinEntries(A) /\ TwinEntries(P) /\ \A i \in 1 .. Len(P) : P[i].kind = "demand"
      /\ TwinsOnce(A, "demand") /\ TwinsOnce(P, "demand") /\ TwinsOnce(A, "report") /\ Apart(A, P)
      /\ SameOrder(core.acks, A) /\ core.acks \in Seq(Reps)
  BY <1>1 DEF GetsInv, RepsInv
<1>5. /\ IsSeq(B) /\ Len(B) = Len(A) /\ IsSeq(Q) /\ Len(Q) = Len(P)
      /\ \A i \in 1 .. Len(A) : DOMAIN B[i] = DOMAIN A[i] /\ B[i].kind = A[i].kind /\ B[i].id = A[i].id
      /\ \A i \in 1 .. Len(P) : DOMAIN Q[i] = DOMAIN P[i] /\ Q[i].kind = P[i].kind /\ Q[i].id = P[i].id
  BY <1>4, OlderTwins
<1> HIDE DEF B, Q
<1>6. /\ TwinEntries(B) /\ TwinsOnce(B, "demand") /\ TwinsOnce(B, "report")
      /\ \A id : HasTwin(B, "demand", id) <=> HasTwin(A, "demand", id)
      /\ \A id : HasTwin(B, "report", id) <=> HasTwin(A, "report", id)
  BY <1>4, <1>5, TwinsMapped
<1>7. /\ TwinEntries(Q) /\ TwinsOnce(Q, "demand")
      /\ \A id : HasTwin(Q, "demand", id) <=> HasTwin(P, "demand", id)
      /\ \A i \in 1 .. Len(Q) : Q[i].kind = "demand"
  BY <1>4, <1>5, TwinsMapped
<1>8. SameOrder(core.acks, B)  BY <1>4, <1>5, <1>6, SameOnes DEF SameOrder
<1>9. RepsInv'  BY <1>1, <1>2, <1>6, <1>8, RepsTwins
<1>10. Apart(B, Q)  BY <1>4, <1>6, <1>7, ApartHas
<1>11. \A g \in Gets : Queued(g)' => Queued(g)  BY <1>2, <1>6, <1>7 DEF Queued
<1>12. told'.answers = TwinAnswered(told, {}).answers /\ "answers" \in DOMAIN told
  BY <1>1, <1>2, NoneAnswered DEF Fields
<1>13. GetsInv'  BY <1>1, <1>2, <1>6, <1>7, <1>10, <1>11, <1>12, GetsMove
<1>14. QED  BY <1>3, <1>9, <1>13

\* Nothing is left.
LEMMA DestroyOnce ==
  ASSUME ConnInv, OnceInv, Destroy
  PROVE  OnceInv'
<1> DEFINE waits == {e.msg : e \in ToSet(core.waiting) \cup ToSet(tr.inflight)}
           all == ToSet(tr.twinAck) \cup ToSet(tr.twinPend)
           ids(kind) == {e.id : e \in {x \in all : x.kind = kind}}
           sc == SendComplete(told, waits, "destroy")
           td == TwinAnswered(sc, ids("demand"))
           T == {r \in Reps : r \in ids("report") /\ Contains(core.acks, r)}
<1>1. MessagesInv /\ GetsInv /\ RepsInv /\ Fields /\ DOMAIN tr = TrFields
  BY TransportFacts DEF OnceInv
<1>2. PICK o \in DisconnectFromClient(tr) :
        tr' = [o.tr EXCEPT !.inflight = <<>>, !.twinAck = <<>>, !.twinPend = <<>>]
  BY DEF Destroy
<1>3. tr'.inflight = <<>> /\ tr'.twinAck = <<>> /\ tr'.twinPend = <<>>
  <2>1. DOMAIN o.tr = TrFields  BY <1>1, ListsStay DEF SameLists
  <2>2. QED  BY <1>2, <2>1 DEF TrFields
<1>4. core'.waiting = <<>> /\ core'.reports = <<>> /\ core'.acks = <<>>
  BY DEF Destroy, ConnInv, Shapes
<1>5. told' = [td EXCEPT !.reps = [r \in Reps |-> IF r \in ids("report") /\ Contains(core.acks, r)
                                                  THEN @[r] + 1 ELSE @[r]]]
  BY DEF Destroy
<1>6. \A id \in ids("demand") : HasTwin(tr.twinAck, "demand", id) \/ HasTwin(tr.twinPend, "demand", id)
  <2>1. /\ DOMAIN tr.twinAck = 1 .. Len(tr.twinAck)
        /\ DOMAIN tr.twinPend = 1 .. Len(tr.twinPend)
    BY <1>1 DEF GetsInv, TwinEntries, IsSeq
  <2>2. QED  BY <2>1 DEF ToSet, HasTwin
<1> DEFINE D == ids("demand")
           N == ids("report")
<1> HIDE DEF ids, waits
<1>7. /\ DOMAIN told' = DOMAIN told /\ told'.asked = told.asked /\ told'.conf = sc.conf
      /\ told'.answers = TwinAnswered(told, D).answers
      /\ told'.reps = [r \in Reps |-> IF r \in N /\ Contains(core.acks, r)
                                      THEN told.reps[r] + 1 ELSE told.reps[r]]
      /\ "answers" \in DOMAIN told
  BY <1>1, <1>5 DEF Fields, TwinAnswered, SendComplete
<1>8. told'.reps = Reported(T)  BY <1>7 DEF Reported
<1>9. MessagesInv' /\ Fields'  BY <1>3, <1>4, <1>7, DestroyMsgs DEF waits
<1>10. \A g \in Gets : g \in D => Queued(g)  BY <1>6 DEF Queued
<1> HIDE DEF D, N, sc, td
<1>11. /\ \A kind : TwinEntries(<<>>) /\ TwinsOnce(<<>>, kind) /\ \A id : ~HasTwin(<<>>, kind, id)
       /\ \A i \in 1 .. Len(<<>>) : FALSE
  BY NoTwins
<1>12. GetsInv'
  <2>1. Apart(<<>>, <<>>)  BY <1>11, ApartHas
  <2>2. \A g \in Gets : ~Queued(g)'  BY <1>3, <1>11 DEF Queued
  <2>3. QED  BY <1>1, <1>3, <1>7, <1>10, <1>11, <2>1, <2>2, GetsMove
<1>13. RepsInv'
  <2>1. <<>> \in Seq(Reps) /\ ValuesOnce(<<>>) /\ \A v : ~HasValue(<<>>, v)  BY DEF ValuesOnce, HasValue
  <2>2. SameOrder(<<>>, <<>>)  BY DEF SameOrder
  <2>3. \A r \in T : HasValue(core.acks, r)  BY DEF Contains, HasValue
  <2> HIDE DEF T
  <2>4. QED  BY <1>1, <1>3, <1>4, <1>7, <1>8, <1>11, <2>1, <2>2, <2>3, RepsMove
<1>14. PlaceRight'  BY <1>3, <1>4 DEF PlaceRight, Destroy, Goto
<1>15. QED  BY <1>9, <1>12, <1>13, <1>14 DEF OnceInv

----------------------------------------------------------------------------
(* Every step.                                                             *)

Placed == MessagesInv /\ GetsInv /\ RepsInv /\ Fields

\* Steps that move no message, no request and no reported state.
Undisturbed ==
  /\ SameLists(tr', tr)
  /\ core'.waiting = core.waiting /\ core'.acks = core.acks /\ core'.reports = core.reports
  /\ told'.conf = told.conf /\ told'.answers = told.answers /\ told'.reps = told.reps
  /\ told'.asked = told.asked /\ DOMAIN told' = DOMAIN told

\* They leave what is asked for in its place.
LEMMA UndisturbedStep ==
  ASSUME OnceInv, Undisturbed
  PROVE  Placed'
<1>1. MessagesInv /\ GetsInv /\ RepsInv /\ Fields  BY DEF OnceInv
<1>2. MessagesInv' /\ GetsInv' /\ RepsInv'
  BY <1>1, MessagesStay, GetsStay, RepsStay DEF Undisturbed, SameLists
<1>3. Fields'  BY <1>1 DEF Fields, Undisturbed
<1>4. QED  BY <1>2, <1>3 DEF Placed

\* Of the parts of the transport only what SameLists leaves out changes.
LEMMA OnlyTransport ==
  ASSUME OnceInv, SameLists(tr', tr), UNCHANGED <<core, told>>
  PROVE  Placed'
BY UndisturbedStep DEF Undisturbed

\* Steps of the connection and the network alone.
LEMMA OnlyChannel ==
  ASSUME ConnInv, OnceInv, UNCHANGED <<core, tr, told>>
  PROVE  Placed'
BY TransportFacts, OnlyTransport DEF SameLists

\* The calls of the application.
LEMMA ApplicationOnce ==
  ASSUME ConnInv, OnceInv, Application
  PROVE  Placed'
<1>1. MessagesInv /\ GetsInv /\ RepsInv /\ Fields /\ DOMAIN tr = TrFields
      /\ DOMAIN core = {"waiting", "reports", "acks", "callback", "complete"}
  BY TransportFacts DEF OnceInv, ConnInv, Shapes
<1>2. ASSUME NEW m \in Msgs, SendEventAsync(m)  PROVE Placed'
  <2>1. MessagesInv'  BY <1>2, SendEventMsgs
  <2>2. /\ core' = [core EXCEPT !.waiting = Append(@, [msg |-> m, age |-> 0])]
        /\ told' = [told EXCEPT !.asked = @ \cup {m}] /\ tr' = tr
    BY <1>2 DEF SendEventAsync
  <2>3. /\ core'.acks = core.acks /\ core'.reports = core.reports
        /\ told'.answers = told.answers /\ told'.reps = told.reps
        /\ told'.asked = told.asked \cup {m} /\ Fields'
    BY <1>1, <2>2 DEF Fields
  <2>4. m \notin Gets /\ m \notin Reps  BY TransportAssumption
  <2>5. GetsInv'  BY <1>1, <2>2, <2>3, <2>4, GetsStay
  <2>6. RepsInv'  BY <1>1, <2>2, <2>3, <2>4, RepsStay
  <2>7. QED  BY <2>1, <2>3, <2>5, <2>6 DEF Placed
<1>3. ASSUME NEW on \in BOOLEAN, SetDeviceTwinCallback(on)  PROVE Placed'
  <2>1. /\ tr' = IF on THEN SubscribeTopic(tr, "twin")
                 ELSE [tr EXCEPT !.topics = @ \ {"twin", "notify"}, !.toSub = @ \ {"twin", "notify"}]
        /\ core' = [core EXCEPT !.callback = on]
        /\ told' = [told EXCEPT !.toggles = @ + 1]
    BY <1>3 DEF SetDeviceTwinCallback
  <2>2. SameLists(SubscribeTopic(tr, "twin"), tr)  BY <1>1, ListsStay
  <2>3. SameLists(tr', tr)  BY <1>1, <2>1, <2>2 DEF SameLists, TrFields
  <2>4. Undisturbed  BY <1>1, <2>1, <2>3 DEF Undisturbed, Fields
  <2>5. QED  BY <2>4, UndisturbedStep
<1>4. ASSUME NEW g \in Gets, GetTwinAsync(g)  PROVE Placed'
  BY <1>4, GetTwinGets DEF Placed
<1>5. ASSUME NEW r \in Reps, SendReportedState(r)  PROVE Placed'
  BY <1>5, ReportReps DEF Placed
<1>6. QED  BY <1>2, <1>3, <1>4, <1>5 DEF Application

\* What becomes of the connection, and what is sent of the topics.
LEMMA ConnectionOnce ==
  ASSUME ConnInv, OnceInv,
         \/ ConnectNow \/ ExecuteDisconnect \/ ConnackTimeout \/ SasExpired \/ PendingClose
         \/ SubscribeToMqttProtocol \/ onOpenError \/ ConnectionError
  PROVE  Placed'
<1>1. DOMAIN tr = TrFields  BY TransportFacts
<1>2. UNCHANGED <<core, told>>
  BY DEF ConnectNow, ExecuteDisconnect, ConnackTimeout, SasExpired, PendingClose,
         SubscribeToMqttProtocol, onOpenError, ConnectionError
<1>3. SameLists(tr', tr)
  <2>1. CASE ConnectNow \/ PendingClose
    BY <1>1, <2>1 DEF ConnectNow, PendingClose, SameLists, TrFields
  <2>2. CASE ExecuteDisconnect
    BY <1>1, <2>2, ListsStay DEF ExecuteDisconnect
  <2>3. CASE ConnackTimeout
    <3>1. PICK o \in DisconnectFromClient([tr EXCEPT !.pkt = "ERROR"]) : tr' = o.tr
      BY <2>3 DEF ConnackTimeout
    <3> DEFINE t == [tr EXCEPT !.pkt = "ERROR"]
    <3>2. SameLists(t, tr)  BY <1>1 DEF SameLists, TrFields
    <3> HIDE DEF t
    <3>3. SameLists(o.tr, t)  BY <3>1, <3>2, ListsStay DEF t, SameLists
    <3>4. QED  BY <3>1, <3>2, <3>3 DEF SameLists
  <2>4. CASE SasExpired
    <3>1. PICK o \in DisconnectFromClient(tr) :
            tr' = [o.tr EXCEPT !.pkt = "UNKNOWN", !.toSub = @ \cup tr.topics]
      BY <2>4 DEF SasExpired
    <3>2. SameLists(o.tr, tr)  BY <1>1, <3>1, ListsStay
    <3>3. QED  BY <3>1, <3>2 DEF SameLists, TrFields
  <2>5. CASE SubscribeToMqttProtocol
    <3> DEFINE topics == tr.toSub \cap tr.topics
               pid == PidAfter(tr.pid, 1)
               t == [tr EXCEPT !.pid = pid, !.subPid = IF "twin" \in topics THEN pid ELSE @]
    <3>1. SameLists(t, tr)  BY <1>1 DEF SameLists, TrFields
    <3>2. \/ tr' = [tr EXCEPT !.pkt = "PUBLISH"]
          \/ tr' = [[t EXCEPT !.toSub = @ \ topics] EXCEPT !.pkt = "SUBSCRIBE"]
          \/ tr' = [mqtt_error_callback(t) EXCEPT !.pkt = "SUBSCRIBE"]
          \/ tr' = [t EXCEPT !.pkt = "SUBSCRIBE"]
      BY <2>5 DEF SubscribeToMqttProtocol
    <3> HIDE DEF t
    <3>3. SameLists(mqtt_error_callback(t), t)  BY <3>1, ListsStay DEF SameLists
    <3>4. QED  BY <1>1, <3>1, <3>2, <3>3 DEF SameLists, TrFields
  <2>6. CASE onOpenError \/ ConnectionError
    <3>1. SameLists(mqtt_error_callback(tr), tr) /\ SameLists(tr, tr)
      BY <1>1, ListsStay DEF SameLists
    <3>2. QED  BY <2>6, <3>1 DEF onOpenError, ConnectionError
  <2>7. QED  BY <2>1, <2>2, <2>3, <2>4, <2>5, <2>6
<1>4. QED  BY <1>2, <1>3, OnlyTransport

\* A packet that came.
LEMMA ReceiveOnce ==
  ASSUME ConnInv, OnceInv, Receive
  PROVE  Placed'
<1>1. /\ MessagesInv /\ GetsInv /\ RepsInv /\ Fields /\ DOMAIN tr = TrFields
      /\ DOMAIN core = {"waiting", "reports", "acks", "callback", "complete"}
  BY TransportFacts DEF OnceInv, ConnInv, Shapes
<1> DEFINE p == Head(net.down)
<1>2. OnConnack(p.code) \/ OnPuback(p.pid) \/ OnSuback(p.pid) \/ OnTwin(p.pid) \/ OnPatch
  BY DEF Receive
<1> HIDE DEF p
<1>3. CASE OnConnack(p.code) \/ OnSuback(p.pid)
  <2>1. SameLists(tr', tr)
    BY <1>1, <1>3 DEF OnConnack, OnSuback, SameLists, TrFields
  <2>2. QED  BY <1>3, <2>1, OnlyTransport DEF OnConnack, OnSuback
<1>4. CASE OnPuback(p.pid)
  <2>1. MessagesInv' /\ Fields'  BY <1>4, PubackMsgs
  <2>2. /\ core' = core /\ tr'.twinAck = tr.twinAck /\ tr'.twinPend = tr.twinPend
        /\ told'.answers = told.answers /\ told'.reps = told.reps /\ told'.asked = told.asked
    BY <1>1, <1>4, Completes DEF OnPuback, TrFields
  <2>3. GetsInv' /\ RepsInv'  BY <1>1, <2>2, GetsStay, RepsStay
  <2>4. QED  BY <2>1, <2>3 DEF Placed
<1>5. CASE OnTwin(p.pid)  BY <1>5, TwinOnce DEF Placed
<1>6. CASE OnPatch
  <2>1. /\ tr' = tr
        /\ core' = RetrievePropertyComplete(core, told, "PARTIAL").core
        /\ told' = RetrievePropertyComplete(core, told, "PARTIAL").told
    BY <1>6 DEF OnPatch
  <2>2. Undisturbed
    BY <1>1, <2>1 DEF RetrievePropertyComplete, Undisturbed, SameLists, Fields
  <2>3. QED  BY <2>2, UndisturbedStep
<1>7. QED  BY <1>2, <1>3, <1>4, <1>5, <1>6

\* The messages that wait too long for an answer.
LEMMA AcksOnce ==
  ASSUME ConnInv, OnceInv, GiveUp \/ Resend \/ CountAttempt
  PROVE  Placed'
<1>1. MessagesInv /\ GetsInv /\ RepsInv /\ Fields /\ DOMAIN tr = TrFields
  BY TransportFacts DEF OnceInv
<1> DEFINE i == pc.i
           r == [tr EXCEPT !.inflight = RemoveAt(@, i)]
<1>2. core' = core  BY DEF GiveUp, Resend, CountAttempt
<1>3. DOMAIN r = TrFields /\ r.inflight = RemoveAt(tr.inflight, i)
      /\ r.twinAck = tr.twinAck /\ r.twinPend = tr.twinPend
  BY <1>1 DEF TrFields
<1>4. /\ \/ /\ SameLists(tr', r)
            /\ \E result \in {"error", "timeout"} :
                 told' = SendComplete(told, {tr.inflight[i].msg}, result)
         \/ /\ tr' = [tr EXCEPT !.inflight[i].retry = @ + 1, !.inflight[i].age = 0]
            /\ told' = told
      /\ i <= Len(tr.inflight)
  <2>1. CASE GiveUp
    <3>1. PICK o \in DisconnectFromClient(r) : tr' = o.tr  BY <2>1 DEF GiveUp, Removed
    <3>2. told' = SendComplete(told, {tr.inflight[i].msg}, "timeout") /\ i <= Len(tr.inflight)
      BY <2>1 DEF GiveUp, Expired, InAcks, Entry
    <3> HIDE DEF r
    <3>3. SameLists(tr', r)  BY <1>3, <3>1, ListsStay
    <3>4. QED  BY <3>2, <3>3
  <2>2. CASE Resend
    <3>1. /\ \/ tr' = Again /\ told' = told
             \/ /\ tr' = mqtt_error_callback(r) \/ tr' = r
                /\ told' = SendComplete(told, {tr.inflight[i].msg}, "error")
          /\ i <= Len(tr.inflight)
      BY <2>2 DEF Resend, Expired, InAcks, Entry, Removed
    <3> HIDE DEF r
    <3>2. SameLists(mqtt_error_callback(r), r) /\ SameLists(r, r)
      BY <1>3, ListsStay DEF SameLists
    <3>3. QED  BY <3>1, <3>2 DEF Again
  <2>3. CASE CountAttempt
    BY <2>3 DEF CountAttempt, Expired, InAcks, Again
  <2>4. QED  BY <2>1, <2>2, <2>3
<1> HIDE DEF r
<1>5. i \in 1 .. Len(tr.inflight)
  BY <1>1, <1>4, LenIsNat DEF MessagesInv, MsgEntries, OnceInv, PlaceRight
<1>6. CASE tr' = [tr EXCEPT !.inflight[i].retry = @ + 1, !.inflight[i].age = 0] /\ told' = told
  <2>1. MessagesInv' /\ Fields' /\ SameLists(tr', [tr EXCEPT !.inflight = tr'.inflight])
    BY <1>2, <1>5, <1>6, AgainMsgs
  <2>2. tr'.twinAck = tr.twinAck /\ tr'.twinPend = tr.twinPend
    BY <1>1, <2>1 DEF SameLists, TrFields
  <2>3. GetsInv' /\ RepsInv'  BY <1>1, <1>2, <1>6, <2>2, GetsStay, RepsStay
  <2>4. QED  BY <2>1, <2>3 DEF Placed
<1>7. ASSUME NEW result \in {"error", "timeout"}, SameLists(tr', r),
             told' = SendComplete(told, {tr.inflight[i].msg}, result)
      PROVE  Placed'
  <2>1. /\ tr'.inflight = RemoveAt(tr.inflight, i)
        /\ tr'.twinAck = tr.twinAck /\ tr'.twinPend = tr.twinPend
    BY <1>3, <1>7 DEF SameLists
  <2>2. MessagesInv' /\ Fields'  BY <1>2, <1>5, <1>7, <2>1, GivenUpMsgs
  <2>3. told'.answers = told.answers /\ told'.reps = told.reps /\ told'.asked = told.asked
    BY <1>1, <1>7, Completes
  <2>4. GetsInv' /\ RepsInv'  BY <1>1, <1>2, <2>1, <2>3, GetsStay, RepsStay
  <2>5. QED  BY <2>2, <2>4 DEF Placed
<1>8. QED  BY <1>4, <1>6, <1>7

\* At first nothing was asked for.
LEMMA InitOnce == TransportInit => OnceInv
<1> SUFFICES ASSUME TransportInit PROVE OnceInv  OBVIOUS
<1>1. /\ core = [waiting |-> <<>>, reports |-> <<>>, acks |-> <<>>, callback |-> FALSE, complete |-> FALSE]
      /\ tr = [status |-> "NOT_CONNECTED", pkt |-> "CONNECT", topics |-> {}, toSub |-> {},
               getSent |-> FALSE, subRecv |-> FALSE, subPid |-> 0, pid |-> 1, recover |-> TRUE,
               cage |-> 0, inflight |-> <<>>, twinAck |-> <<>>, twinPend |-> <<>>]
      /\ pc = [at |-> "idle", i |-> 1]
      /\ told = [asked |-> {}, conf |-> [m \in Msgs |-> <<>>], answers |-> [g \in Gets |-> 0],
                 reps |-> [r \in Reps |-> 0], toggles |-> 0, whole |-> FALSE, early |-> FALSE]
  BY DEF TransportInit
<1>2. /\ core.waiting = <<>> /\ core.reports = <<>> /\ core.acks = <<>>
      /\ tr.inflight = <<>> /\ tr.twinAck = <<>> /\ tr.twinPend = <<>>
      /\ told.asked = {} /\ told.conf = [m \in Msgs |-> <<>>]
      /\ told.answers = [g \in Gets |-> 0] /\ told.reps = [r \in Reps |-> 0]
  BY <1>1
<1>3. Fields /\ PlaceRight  BY <1>1 DEF Fields, PlaceRight
<1>4. MessagesInv
  <2>1. MsgEntries(<<>>) /\ MsgsOnce(<<>>) /\ \A m : ~HasMsg(<<>>, m)  BY NoMsgs
  <2>2. \A m \in Msgs : ~InHand(m)  BY <1>2, <2>1 DEF InHand
  <2>3. \A m \in Msgs : told.conf[m] = <<>> /\ Len(told.conf[m]) = 0  BY <1>2
  <2>4. told.conf \in [Msgs -> Seq({"ok", "error", "timeout", "destroy"})]  BY <1>2
  <2>5. QED  BY <1>2, <2>1, <2>2, <2>3, <2>4 DEF MessagesInv
<1>5. /\ \A kind : TwinEntries(<<>>) /\ TwinsOnce(<<>>, kind) /\ \A id : ~HasTwin(<<>>, kind, id)
      /\ \A i \in 1 .. Len(<<>>) : FALSE
  BY NoTwins
<1>6. GetsInv
  <2>1. Apart(<<>>, <<>>)  BY <1>5, ApartHas
  <2>2. \A g \in Gets : ~Queued(g)
    <3>1. \A id : ~HasTwin(<<>>, "demand", id)  BY <1>5
    <3>2. QED  BY <1>2, <3>1 DEF Queued
  <2>3. QED  BY <1>2, <1>5, <2>1, <2>2 DEF GetsInv
<1>7. RepsInv
  <2>1. <<>> \in Seq(Reps) /\ ValuesOnce(<<>>) /\ \A v : ~HasValue(<<>>, v)  BY DEF ValuesOnce, HasValue
  <2>2. SameOrder(<<>>, <<>>)  BY DEF SameOrder
  <2>3. QED  BY <1>2, <1>5, <2>1, <2>2 DEF RepsInv
<1>8. QED  BY <1>3, <1>4, <1>6, <1>7 DEF OnceInv

\* Once it is destroyed the client does nothing.
LEMMA PlaceStep ==
  ASSUME OnceInv, [TransportNext]_transportvars, ~Destroy
  PROVE  PlaceRight'
<1> USE DEF PlaceRight, OnceInv, Goto, NextEntry, Idle
<1>1. CASE UNCHANGED transportvars  BY <1>1 DEF transportvars
<1>2. CASE Application
  BY <1>2 DEF Application, SendEventAsync, SetDeviceTwinCallback, GetTwinAsync, SendReportedState
<1>3. CASE CoreDoWork \/ ConnectNow \/ ConnectLater \/ ExecuteDisconnect \/ ConnackTimeout
           \/ StayConnected \/ SasExpired
  <2>1. pc' = [at |-> "conn", i |-> 1] \/ pc' = [at |-> "work", i |-> 1] \/ pc' = [at |-> "acks", i |-> 1]
    BY <1>3 DEF CoreDoWork, ConnectNow, ConnectLater, ExecuteDisconnect, ConnackTimeout,
                StayConnected, SasExpired
  <2>2. QED  BY <2>1
<1>4. CASE PendingClose \/ SubscribeToMqttProtocol \/ SubackReceived \/ PublishAll \/ NothingToDo
  <2>1. pc' = [at |-> "recv", i |-> 1]
    BY <1>4 DEF PendingClose, SubscribeToMqttProtocol, SubackReceived, PublishAll, NothingToDo
  <2>2. QED  BY <2>1
<1>5. CASE onOpenComplete \/ onOpenError \/ Receive \/ ConnectionError \/ DoworkReturns
  BY <1>5 DEF onOpenComplete, onOpenError, Receive, ConnectionError, DoworkReturns, Reads
<1>6. CASE StillWaiting \/ GiveUp \/ Resend \/ CountAttempt \/ RemoveExpiredGets
  BY <1>6 DEF StillWaiting, GiveUp, Resend, CountAttempt, RemoveExpiredGets, Expired, InAcks
<1>7. CASE Hub \/ Outside \/ TimePasses
  BY <1>7 DEF Hub, Outside, TimePasses, Tick
<1>8. QED  BY <1>1, <1>2, <1>3, <1>4, <1>5, <1>6, <1>7 DEF TransportNext, DoWork

\* No step breaks the invariant.
LEMMA NextOnce == ConnInv /\ OnceInv /\ [TransportNext]_transportvars => OnceInv'
<1> SUFFICES ASSUME ConnInv, OnceInv, [TransportNext]_transportvars PROVE OnceInv'  OBVIOUS
<1>1. CASE Destroy  BY <1>1, DestroyOnce
<1>2. CASE ~Destroy
  <2>1. PlaceRight'  BY <1>2, PlaceStep
  <2>2. CASE Application  BY <2>1, <2>2, ApplicationOnce DEF OnceInv, Placed
  <2>3. CASE CoreDoWork \/ SubackReceived \/ PublishAll \/ RemoveExpiredGets
    BY <2>1, <2>3, CoreReps, SubackOnce, PublishOnce, ExpiredOnce DEF OnceInv
  <2>4. CASE ConnectNow \/ ExecuteDisconnect \/ ConnackTimeout \/ SasExpired \/ PendingClose
             \/ SubscribeToMqttProtocol \/ onOpenError \/ ConnectionError
    BY <2>1, <2>4, ConnectionOnce DEF OnceInv, Placed
  <2>5. CASE ConnectLater \/ StayConnected \/ NothingToDo \/ onOpenComplete \/ DoworkReturns
             \/ StillWaiting \/ Hub \/ Outside \/ UNCHANGED transportvars
    <3>1. UNCHANGED <<core, tr, told>>
      BY <2>5 DEF ConnectLater, StayConnected, NothingToDo, onOpenComplete, DoworkReturns, StillWaiting,
                  Hub, Outside, transportvars
    <3>2. QED  BY <2>1, <3>1, OnlyChannel DEF OnceInv, Placed
  <2>6. CASE Receive  BY <2>1, <2>6, ReceiveOnce DEF OnceInv, Placed
  <2>7. CASE GiveUp \/ Resend \/ CountAttempt  BY <2>1, <2>7, AcksOnce DEF OnceInv, Placed
  <2>8. CASE TimePasses  BY <2>1, <2>8, TickOnce DEF OnceInv, TimePasses
  <2>9. QED  BY <1>2, <2>2, <2>3, <2>4, <2>5, <2>6, <2>7, <2>8 DEF TransportNext, DoWork
<1>3. QED  BY <1>1, <1>2

----------------------------------------------------------------------------
(* What the invariant says when it is counted.                             *)

\* The places of a list at which something is found: none, or one.
LEMMA CountsOne ==
  ASSUME NEW n \in Nat, NEW P, P \subseteq 1 .. n, \A i, j \in P : i = j
  PROVE  Cardinality(P) = IF P = {} THEN 0 ELSE 1
<1>1. CASE P = {}  BY <1>1, FS_EmptySet
<1>2. CASE P # {}
  <2>1. PICK i \in P : TRUE  BY <1>2
  <2>2. P = {i}  BY <2>1
  <2>3. QED  BY <1>2, <2>2, FS_Singleton
<1>3. QED  BY <1>1, <1>2

\* A message is in a list at most once.
LEMMA CountedMsgs ==
  ASSUME NEW q, MsgEntries(q), MsgsOnce(q), NEW m
  PROVE  Cardinality({i \in 1 .. Len(q) : q[i].msg = m}) = IF HasMsg(q, m) THEN 1 ELSE 0
<1> DEFINE P == {i \in 1 .. Len(q) : q[i].msg = m}
<1>1. Len(q) \in Nat /\ P \subseteq 1 .. Len(q)  BY LenIsNat DEF MsgEntries
<1>2. \A i, j \in P : i = j  BY DEF MsgsOnce
<1>3. P = {} <=> ~HasMsg(q, m)  BY DEF HasMsg
<1> HIDE DEF P
<1>4. Cardinality(P) = IF HasMsg(q, m) THEN 1 ELSE 0  BY <1>1, <1>2, <1>3, CountsOne
<1>5. QED  BY <1>4 DEF P

\* So is a request.
LEMMA CountedTwins ==
  ASSUME NEW q, TwinEntries(q), NEW kind, TwinsOnce(q, kind), NEW id
  PROVE  Cardinality({i \in 1 .. Len(q) : q[i].kind = kind /\ q[i].id = id})
           = IF HasTwin(q, kind, id) THEN 1 ELSE 0
<1> DEFINE P == {i \in 1 .. Len(q) : q[i].kind = kind /\ q[i].id = id}
<1>1. Len(q) \in Nat /\ P \subseteq 1 .. Len(q)  BY LenIsNat DEF TwinEntries
<1>2. \A i, j \in P : i = j  BY DEF TwinsOnce
<1>3. P = {} <=> ~HasTwin(q, kind, id)  BY DEF HasTwin
<1> HIDE DEF P
<1>4. Cardinality(P) = IF HasTwin(q, kind, id) THEN 1 ELSE 0  BY <1>1, <1>2, <1>3, CountsOne
<1>5. QED  BY <1>4 DEF P

\* So is a reported state.
LEMMA CountedValues ==
  ASSUME NEW V, NEW q \in Seq(V), ValuesOnce(q), NEW r
  PROVE  Cardinality({i \in 1 .. Len(q) : q[i] = r}) = IF HasValue(q, r) THEN 1 ELSE 0
<1> DEFINE P == {i \in 1 .. Len(q) : q[i] = r}
<1>1. Len(q) \in Nat /\ P \subseteq 1 .. Len(q)  OBVIOUS
<1>2. \A i, j \in P : i = j  BY DEF ValuesOnce
<1>3. P = {} <=> ~HasValue(q, r)  BY DEF HasValue
<1> HIDE DEF P
<1>4. Cardinality(P) = IF HasValue(q, r) THEN 1 ELSE 0  BY <1>1, <1>2, <1>3, CountsOne
<1>5. QED  BY <1>4 DEF P

\* Messages.
LEMMA OnceToldOnce == OnceInv => ToldOnce
<1> SUFFICES ASSUME OnceInv, NEW m \in Msgs
    PROVE  LET isM(e) == e.msg = m
           IN  /\ Count(core.waiting, isM) + Count(tr.inflight, isM) + Len(told.conf[m])
                    = (IF m \in told.asked THEN 1 ELSE 0)
               /\ (pc.at = "gone" /\ m \in told.asked) => told.conf[m] # <<>>
    BY DEF ToldOnce
<1> DEFINE isM(e) == e.msg = m
           w == Count(core.waiting, isM)
           f == Count(tr.inflight, isM)
<1>1. MessagesInv /\ PlaceRight  BY DEF OnceInv
<1>2. w = IF HasMsg(core.waiting, m) THEN 1 ELSE 0
  BY <1>1, CountedMsgs DEF Count, MessagesInv
<1>3. f = IF HasMsg(tr.inflight, m) THEN 1 ELSE 0
  BY <1>1, CountedMsgs DEF Count, MessagesInv
<1> HIDE DEF w, f
<1>4. /\ ~(HasMsg(core.waiting, m) /\ HasMsg(tr.inflight, m))
      /\ InHand(m) => m \in told.asked
      /\ Len(told.conf[m]) = IF m \in told.asked /\ ~InHand(m) THEN 1 ELSE 0
  BY <1>1 DEF MessagesInv
<1>5. w + f + Len(told.conf[m]) = (IF m \in told.asked THEN 1 ELSE 0)
  BY <1>2, <1>3, <1>4 DEF InHand
<1>6. ASSUME pc.at = "gone", m \in told.asked  PROVE told.conf[m] # <<>>
  <2>1. ~InHand(m)  BY <1>1, <1>6, NoMsgs DEF InHand, PlaceRight
  <2>2. Len(told.conf[m]) = 1  BY <1>4, <1>6, <2>1
  <2>3. QED  BY <2>2
<1>7. QED  BY <1>5, <1>6 DEF w, f

\* Requests for the twin.
LEMMA OnceAnsweredOnce == OnceInv => AnsweredOnce
<1> SUFFICES ASSUME OnceInv, NEW g \in Gets
    PROVE  LET isG(e) == e.kind = "demand" /\ e.id = g
           IN  told.answers[g] + Count(tr.twinAck, isG) + Count(tr.twinPend, isG) <= 1
    BY DEF AnsweredOnce
<1> DEFINE isG(e) == e.kind = "demand" /\ e.id = g
           a == Count(tr.twinAck, isG)
           p == Count(tr.twinPend, isG)
<1>1. GetsInv  BY DEF OnceInv
<1>2. a = IF HasTwin(tr.twinAck, "demand", g) THEN 1 ELSE 0
  BY <1>1, CountedTwins DEF Count, GetsInv
<1>3. p = IF HasTwin(tr.twinPend, "demand", g) THEN 1 ELSE 0
  BY <1>1, CountedTwins DEF Count, GetsInv
<1> HIDE DEF a, p
<1>4. ~(HasTwin(tr.twinAck, "demand", g) /\ HasTwin(tr.twinPend, "demand", g))
  BY <1>1, ApartHas DEF GetsInv
<1>5. told.answers[g] \in {0, 1} /\ (Queued(g) => told.answers[g] = 0)  BY <1>1 DEF GetsInv
<1>6. told.answers[g] + a + p <= 1  BY <1>2, <1>3, <1>4, <1>5 DEF Queued
<1>7. QED  BY <1>6 DEF a, p

\* Reported states.
LEMMA OnceAcksMatch == OnceInv => AcksMatch
<1> SUFFICES ASSUME OnceInv PROVE AcksMatch  OBVIOUS
<1> DEFINE A == tr.twinAck
           reports == {p \in 1 .. Len(A) : A[p].kind = "report"}
<1>1. GetsInv /\ RepsInv  BY DEF OnceInv
<1>2. SameOrder(core.acks, A)  BY <1>1 DEF RepsInv
<1>3. \A p \in reports : Contains(core.acks, A[p].id)
  BY <1>2 DEF SameOrder, HasValue, Contains
<1>4. ASSUME NEW i \in 1 .. Len(core.acks), NEW j \in 1 .. Len(core.acks), i <= j
      PROVE  \E p, q \in reports : p <= q /\ A[p].id = core.acks[i] /\ A[q].id = core.acks[j]
  <2>1. HasTwin(A, "report", core.acks[i]) /\ HasTwin(A, "report", core.acks[j])
    BY <1>2 DEF SameOrder
  <2>2. PICK p \in 1 .. Len(A) : A[p].kind = "report" /\ A[p].id = core.acks[i]
    BY <2>1 DEF HasTwin
  <2>3. PICK q \in 1 .. Len(A) : A[q].kind = "report" /\ A[q].id = core.acks[j]
    BY <2>1 DEF HasTwin
  <2>4. p <= q  BY <1>2, <1>4, <2>2, <2>3 DEF SameOrder
  <2>5. QED  BY <2>2, <2>3, <2>4
<1>5. ASSUME NEW r \in Reps
      PROVE  LET isR(a) == a = r
                 reportsR(e) == e.kind = "report" /\ e.id = r
             IN  /\ told.reps[r] + Count(core.acks, isR) + Count(core.reports, isR) <= 1
                 /\ Count(A, reportsR) <= 1
  <2> DEFINE isR(a) == a = r
             reportsR(e) == e.kind = "report" /\ e.id = r
             k == Count(core.acks, isR)
             w == Count(core.reports, isR)
             n == Count(A, reportsR)
  <2>1. k = IF HasValue(core.acks, r) THEN 1 ELSE 0
    BY <1>1, CountedValues DEF Count, RepsInv
  <2>2. w = IF HasValue(core.reports, r) THEN 1 ELSE 0
    BY <1>1, CountedValues DEF Count, RepsInv
  <2>3. n = IF HasTwin(A, "report", r) THEN 1 ELSE 0
    BY <1>1, CountedTwins DEF Count, RepsInv, GetsInv
  <2> HIDE DEF k, w, n
  <2>4. /\ ~(HasValue(core.acks, r) /\ HasValue(core.reports, r))
        /\ told.reps[r] \in {0, 1}
        /\ HasValue(core.acks, r) \/ HasValue(core.reports, r) => told.reps[r] = 0
    BY <1>1 DEF RepsInv
  <2>5. told.reps[r] + k + w <= 1 /\ n <= 1  BY <2>1, <2>2, <2>3, <2>4
  <2>6. QED  BY <2>5 DEF k, w, n
<1>6. QED  BY <1>3, <1>4, <1>5 DEF AcksMatch

----------------------------------------------------------------------------
(* The second theorem.                                                     *)

\* Nothing the application asks for is lost or told of twice: each message waits, is in
\* flight or was confirmed exactly once; a request for the twin is answered at most once and
\* not while it is queued; and the two queues of reported states that wait for an answer hold
\* the same ones in the same order (SendEventAsync, GetTwinAsync, SendReportedState, DoWork,
\* Destroy of the core, and the handlers of the transport).
THEOREM EachIsToldOnce == TransportSpec => []OnceEach
<1>1. OnceInv => OnceEach
  BY OnceToldOnce, OnceAnsweredOnce, OnceAcksMatch DEF OnceEach
<1>2. QED  BY <1>1, InitConn, NextConn, InitOnce, NextOnce, PTL DEF TransportSpec
=============================================================================
