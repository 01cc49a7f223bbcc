----------------------------- MODULE DataQueue -----------------------------
(***************************************************************************)
(* The data queues (dataqueue.c) and priority data queues (pridataq.c) of  *)
(* the kernel on top of module Kernel.  The two differ in how they store   *)
(* the data; the service calls do the same.  A queue of size 0 passes each *)
(* item from a sender to a receiver.                                       *)
(***************************************************************************)
EXTENDS Kernel, DataRing, PriDataList

CONSTANTS
  DTQ, PDQ,   \* IDs of the data queues and of the priority data queues
  DATA,       \* the values that are sent
  TMAX_DPRI,  \* maxdpri of every priority data queue
  MAXCNT      \* bound of the model on dtqcnt and pdqcnt

\* dtqcnt and pdqcnt of the queues created statically, and those that the
\* programs of the configuration ask for; the items they send.
DTQINI(c) == c.dtqini
CNTS(c) == c.cnts
Sent(c) == c.sent

QUEUES == DTQ \cup PDQ

\* The queue of the tasks that wait to receive; the ID of the data queue itself
\* stands for the queue of the tasks that wait to send.
RWait(q) == <<"rwait_queue", q>>

ASSUME QueuesAssumption ==
  /\ DTQ \cap PDQ = {} /\ QUEUES \cup {RWait(q) : q \in QUEUES} \subseteq WOBJ
  /\ \A c \in CFG :
       /\ DOMAIN DTQINI(c) = QUEUES \cap DOMAIN WOBJINI(c)
       /\ DTQINI(c) \in [DOMAIN DTQINI(c) -> 0 .. MAXCNT] /\ CNTS(c) \subseteq 0 .. MAXCNT
       /\ \A q \in QUEUES : RWait(q) \in DOMAIN WOBJINI(c) <=> q \in DOMAIN WOBJINI(c)
       /\ \A q \in DOMAIN DTQINI(c) : WOBJINI(c)[RWait(q)] = "TA_TFIFO"

VARIABLES
  dtq,      \* the control block of each queue
  winfo_dtq,\* the item a task sends or has received in its last call
  free_dtq  \* free_dtqcb and free_pdqcb, one list for both kinds

dtqvars == <<ker, nest, cpulock, dtq, winfo_dtq, free_dtq>>

\* The data of an ordinary queue have no priority.
Items(q) == [data : DATA, datapri : IF q \in PDQ THEN 1 .. TMAX_DPRI ELSE {0}]

Empty(q, cnt) == IF q \in DTQ THEN EmptyRing(cnt, NULL) ELSE EmptyList(cnt, NULL)
Enqueue(q, c, x) == IF q \in DTQ THEN enqueue_data(c, x) ELSE enqueue_pridata(c, x)
FirstItem(q, c) == IF q \in DTQ THEN FirstData(c) ELSE FirstPridata(c)
Dequeue(q, c) == IF q \in DTQ THEN dequeue_data(c) ELSE dequeue_pridata(c)

DtqInit ==
  /\ Init
  /\ dtq = [q \in QUEUES |-> Empty(q, IF q \in DOMAIN DTQINI(ker.cfg) THEN DTQINI(ker.cfg)[q] ELSE 0)]
  /\ winfo_dtq = [t \in TSK |-> NULL]
  /\ \E d \in Orders(DTQ \ DOMAIN DTQINI(ker.cfg)), p \in Orders(PDQ \ DOMAIN DTQINI(ker.cfg)) :
       free_dtq = [kind \in {"DTQ", "PDQ"} |-> IF kind = "DTQ" THEN d ELSE p]

----------------------------------------------------------------------------
DtqExists(q) == ker.wobjatr[q] # "TA_NOEXS"

\* What a call has received is in the hands of its caller once it has returned.
Returned == [t \in TSK |-> IF ker.winfo[t] = "none" THEN NULL ELSE winfo_dtq[t]]

Receivers(k, q) == k.wait_queue[RWait(q)]

\* The receiver that waits first gets x.
PassOn(q, x) ==
  LET t == Head(Receivers(ker, q))
  IN  /\ winfo_dtq' = [Returned EXCEPT ![t] = x]
      /\ Return(wait_complete([ker EXCEPT !.wait_queue[RWait(q)] = Tail(@)], t))
      /\ UNCHANGED dtq

\* Fault: the item is stored though a receiver waits.
send_data_store(q, x) ==
  /\ dtq[q].count < dtq[q].cnt
  /\ dtq' = [dtq EXCEPT ![q] = Enqueue(q, @, x)]
  /\ winfo_dtq' = Returned
  /\ UNCHANGED vars

\* send_data and send_pridata, where they return true.
send_data(q, x) ==
  \/ Receivers(ker, q) # <<>> /\ PassOn(q, x)
  \/ /\ Receivers(ker, q) = <<>> /\ dtq[q].count < dtq[q].cnt
     /\ dtq' = [dtq EXCEPT ![q] = Enqueue(q, @, x)]
     /\ winfo_dtq' = Returned
     /\ UNCHANGED vars

force_send_data(q, x) ==
  \/ Receivers(ker, q) # <<>> /\ PassOn(q, x)
  \/ /\ Receivers(ker, q) = <<>>
     /\ dtq' = [dtq EXCEPT ![q] = force_enqueue_data(@, x)]
     /\ winfo_dtq' = Returned
     /\ UNCHANGED vars

\* The wait of the first sender ends.
NextSender(q) ==
  wait_complete([ker EXCEPT !.wait_queue[q] = Tail(@)], Head(ker.wait_queue[q]))

\* Fault: the item of a waiting sender is not stored.
receive_data_lost(q) ==
  /\ dtq[q].count > 0
  /\ winfo_dtq' = [Returned EXCEPT ![Self] = FirstItem(q, dtq[q])]
  /\ dtq' = [dtq EXCEPT ![q] = Dequeue(q, @)]
  /\ Return(IF ker.wait_queue[q] = <<>> THEN ker ELSE NextSender(q))

\* receive_data and receive_pridata, where they return true.
receive_data(q) ==
  LET q_first == Head(ker.wait_queue[q])
  IN  \/ /\ dtq[q].count > 0
         /\ winfo_dtq' = [Returned EXCEPT ![Self] = FirstItem(q, dtq[q])]
         /\ IF ker.wait_queue[q] = <<>>
            THEN dtq' = [dtq EXCEPT ![q] = Dequeue(q, @)] /\ UNCHANGED vars
            ELSE /\ dtq' = [dtq EXCEPT ![q] = Enqueue(q, Dequeue(q, @), winfo_dtq[q_first])]
                 /\ Return(NextSender(q))
      \/ /\ dtq[q].count = 0 /\ ker.wait_queue[q] # <<>>
         /\ winfo_dtq' = [Returned EXCEPT ![Self] = winfo_dtq[q_first]]
         /\ Return(NextSender(q))
         /\ UNCHANGED dtq

FACTORS(q) == IF q \in DTQ THEN [snd |-> "SDTQ", rcv |-> "RDTQ"] ELSE [snd |-> "SPDQ", rcv |-> "RPDQ"]
Kind(q) == IF q \in DTQ THEN "DTQ" ELSE "PDQ"

----------------------------------------------------------------------------
\* E_NOMEM: malloc_mpk has no memory for the storage; nothing changes then.
acre_dtq(kind, atr, cnt) ==
  /\ TaskCall("acre_dtq")
  /\ free_dtq[kind] # <<>>
  /\ LET q == Head(free_dtq[kind])
     IN  /\ ker' = [ker EXCEPT !.wobjatr[q] = atr, !.wait_queue[q] = <<>>,
                               !.wobjatr[RWait(q)] = "TA_TFIFO", !.wait_queue[RWait(q)] = <<>>]
         /\ dtq' = [dtq EXCEPT ![q] = Empty(q, cnt)]
  /\ free_dtq' = [free_dtq EXCEPT ![kind] = Tail(@)]
  /\ winfo_dtq' = Returned
  /\ UNCHANGED <<nest, cpulock>>

ReleaseAll(q) == init_wait_queue(init_wait_queue(ker, q), RWait(q))

del_dtq(q) ==
  /\ TaskCall("del_dtq")
  /\ DtqExists(q) /\ q \notin DOMAIN DTQINI(ker.cfg)
  /\ Return([ReleaseAll(q) EXCEPT !.wobjatr[q] = "TA_NOEXS", !.wobjatr[RWait(q)] = "TA_NOEXS"])
  /\ free_dtq' = [free_dtq EXCEPT ![Kind(q)] = Append(@, q)]
  /\ winfo_dtq' = Returned
  /\ UNCHANGED dtq

\* snd_dtq, and tsnd_dtq when tmo holds.
snd_dtq(q, x, tmo) ==
  /\ DispatchCall("snd_dtq")
  /\ DtqExists(q) /\ ~ker.raster[Self]
  /\ \/ send_data(q, x)
     \/ /\ Receivers(ker, q) = <<>> /\ dtq[q].count >= dtq[q].cnt
        /\ Return(wobj_make_wait(ker, q, FACTORS(q).snd, tmo))
        /\ winfo_dtq' = [Returned EXCEPT ![Self] = x]
        /\ UNCHANGED dtq
  /\ UNCHANGED free_dtq

\* psnd_dtq, and tsnd_dtq with TMO_POL.
psnd_dtq(q, x) ==
  /\ AnyCall("psnd_dtq")
  /\ DtqExists(q)
  /\ send_data(q, x)
  /\ UNCHANGED free_dtq

\* There is no such call for a priority data queue.
fsnd_dtq(q, x) ==
  /\ AnyCall("fsnd_dtq")
  /\ DtqExists(q) /\ dtq[q].cnt > 0
  /\ force_send_data(q, x)
  /\ UNCHANGED free_dtq

\* make_wait and queue_insert_prev of rcv_dtq: receivers wait in FIFO order.
ReceiverWaits(q, tmo) ==
  LET w == make_wait(ker, FACTORS(q).rcv, tmo)
  IN  [w EXCEPT !.wait_queue[RWait(q)] = Append(@, Self), !.wobj[Self] = RWait(q)]

\* rcv_dtq, and trcv_dtq when tmo holds.
rcv_dtq(q, tmo) ==
  /\ DispatchCall("rcv_dtq")
  /\ DtqExists(q) /\ ~ker.raster[Self]
  /\ \/ receive_data(q)
     \/ /\ dtq[q].count = 0 /\ ker.wait_queue[q] = <<>>
        /\ Return(ReceiverWaits(q, tmo))
        /\ winfo_dtq' = Returned
        /\ UNCHANGED dtq
  /\ UNCHANGED free_dtq

\* prcv_dtq, and trcv_dtq with TMO_POL.
prcv_dtq(q) ==
  /\ TaskCall("prcv_dtq")
  /\ DtqExists(q)
  /\ receive_data(q)
  /\ UNCHANGED free_dtq

\* Fault: the senders that wait are not released.
ini_dtq_senders(q) ==
  /\ TaskCall("ini_dtq")
  /\ DtqExists(q)
  /\ dtq' = [dtq EXCEPT ![q] = Empty(q, dtq[q].cnt)]
  /\ Return(init_wait_queue(ker, RWait(q)))
  /\ winfo_dtq' = Returned
  /\ UNCHANGED free_dtq

\* The entries keep what they hold; nothing reads them any more.
ini_dtq(q) ==
  /\ TaskCall("ini_dtq")
  /\ DtqExists(q)
  /\ dtq' = [dtq EXCEPT ![q] = Empty(q, dtq[q].cnt)]
  /\ Return(ReleaseAll(q))
  /\ winfo_dtq' = Returned
  /\ UNCHANGED free_dtq

\* What the programs send to q.
ToSend(q) == Items(q) \cap Sent(ker.cfg)

DtqStep ==
  \/ \E kind \in {"DTQ", "PDQ"}, atr \in {"TA_TFIFO", "TA_TPRI"}, cnt \in CNTS(ker.cfg) \cap (0 .. MAXCNT) :
       acre_dtq(kind, atr, cnt)
  \/ \E q \in QUEUES :
       \/ del_dtq(q) \/ prcv_dtq(q) \/ ini_dtq(q)
       \/ \E tmo \in BOOLEAN : rcv_dtq(q, tmo) \/ \E x \in ToSend(q) : snd_dtq(q, x, tmo)
       \/ \E x \in ToSend(q) : psnd_dtq(q, x)
  \/ \E q \in DTQ : \E x \in ToSend(q) : fsnd_dtq(q, x)

DtqNext == DtqStep \/ (Next /\ winfo_dtq' = Returned /\ UNCHANGED <<dtq, free_dtq>>)

DtqSpec == DtqInit /\ [][DtqNext]_dtqvars

----------------------------------------------------------------------------
\* The ring of each data queue is in order: its positions are inside it, and the
\* next entry goes behind those in use, wherever the ring has wrapped around.
RingsOK == \A q \in DTQ : RingOK(dtq[q])

\* The rings and the lists are intact; the free lists hold the queues that do not
\* exist, once, and nobody waits for one of them.
DtqTypeOK ==
  /\ RingsOK
  /\ \A q \in PDQ : ListOK(dtq[q])
  /\ \A kind \in {"DTQ", "PDQ"} : Distinct(free_dtq[kind])
  /\ \A q \in QUEUES : /\ InQueue(free_dtq[Kind(q)], q) <=> ~DtqExists(q)
                       /\ ~DtqExists(q) => \A t \in TSK : ker.wobj[t] \notin {q, RWait(q)}

\* A receiver waits only while nothing is stored and nobody waits to send, and a
\* sender only while the queue is full: no timeout, reset, termination or forced
\* send leaves a task waiting for what is there.
NoNeedlessWait ==
  \A q \in QUEUES :
    /\ Receivers(ker, q) # <<>> => dtq[q].count = 0 /\ ker.wait_queue[q] = <<>>
    /\ ker.wait_queue[q] # <<>> => dtq[q].count = dtq[q].cnt

\* Every queue implements QueueSpec: no item is lost, doubled or out of order,
\* through the ring, the list and the two wait queues.
Stored(q) == IF ~DtqExists(q) THEN <<>> ELSE IF q \in DTQ THEN Contents(dtq[q]) ELSE ListContents(dtq[q])
DataQueues == INSTANCE QueueSpec WITH
  QUEUE <- QUEUES, ITEM <- UNION {Items(q) : q \in QUEUES},
  exists <- [q \in QUEUES |-> DtqExists(q)],
  cap <- [q \in QUEUES |-> dtq[q].cnt],
  stored <- [q \in QUEUES |-> Stored(q)],
  fifo <- [q \in QUEUES |-> ker.wobjatr[q] = "TA_TFIFO"],
  senders <- [q \in QUEUES |-> ker.wait_queue[q]],
  receivers <- [q \in QUEUES |-> Receivers(ker, q)],
  item <- winfo_dtq
DataQueuesDeliver == DataQueues!Spec
=============================================================================
