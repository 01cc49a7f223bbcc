-------------------------- MODULE SerialPortProofs --------------------------
(***************************************************************************)
(* Proofs about SerialPort for every size of its buffers, number of tasks  *)
(* and configuration of the port: the rights to put and to get are neither *)
(* lost nor given twice, the characters of each task leave in order, and   *)
(* the transmit interrupt is on while there is something to send.          *)
(***************************************************************************)
EXTENDS SerialPort, FiniteSetTheorems, TLAPS

\* A reader that is released from its wait to echo a character takes the right to get with
\* it (error_exit of eSerialPort_read): on a port that echoes, no task that reads is
\* released from waiting by another.
EchoNotReleased ==
  \A p \in PORTS : "ECHO" \in p.ioControl => \A t \in p.releasable \cap Tasks : p.lengths[t] = {}

PortChar == {"c", "LF", "CR", "STOP", "START"}
PortItem == [from : Tasks \cup {"port"}, n : Nat, c : PortChar]
PortPlace == {"idle", "swait", "blocked", "put", "ssignal", "rwait", "get", "rsignal"}
PortJob ==
  [pc : PortPlace, text : Seq(PortChar), cr : BOOLEAN, want : Nat \cup {NoRead}, empty : BOOLEAN]
PortJobs == [Tasks -> PortJob]
Direction == {"send", "receive"}
Semaphores == [Direction -> [cnt : {0, 1}, wait : Seq(Tasks)]]

\* Where a call may be, with text to put or without, in a read or in a write.
JobOK(t, j) ==
  /\ j.pc \in {"swait", "put"} => j.text # <<>>
  /\ j.pc \in {"idle", "ssignal", "rwait", "get", "rsignal"} => j.text = <<>>
  /\ j.pc \in {"rwait", "get"} => j.want \in Nat \ {0}
  /\ j.pc = "rsignal" => j.want \in Nat
  /\ j.pc = "blocked" /\ j.text = <<>> => j.want \in Nat \ {0}
  /\ j.want \in Nat => port.lengths[t] # {}
  /\ j.want \in Nat /\ j.text # <<>> => "ECHO" \in port.ioControl

\* A task that waits is in one list, once; its text tells what it waits for.
QueueOK(s, jobs, sem) ==
  /\ \A i \in 1 .. Len(sem[s].wait) :
       /\ jobs[sem[s].wait[i]].pc = "blocked"
       /\ jobs[sem[s].wait[i]].text = <<>> <=> s = "receive"
  /\ \A i, k \in 1 .. Len(sem[s].wait) : sem[s].wait[i] = sem[s].wait[k] => i = k
  /\ sem[s].wait # <<>> => sem[s].cnt = 0

Puts(j) == j.pc \in {"put", "ssignal"}
Gets(j) ==
  /\ j.want \in Nat
  /\ \/ j.pc \in {"get", "rsignal"}
     \/ j.text # <<>> /\ ~ j.empty
     \/ j.pc = "ssignal" /\ ~ j.empty
Holds(s, j) == IF s = "send" THEN Puts(j) ELSE Gets(j)

\* A right is in the semaphore, with one task, or nowhere while there is no use for it.
RightOK(s, jobs, sem, useful) ==
  /\ \A t, u \in Tasks : Holds(s, jobs[t]) /\ Holds(s, jobs[u]) => t = u
  /\ ~ useful => sem[s].cnt = 0 /\ \A t \in Tasks : ~ Holds(s, jobs[t])
  /\ useful => (sem[s].cnt = 0 <=> \E t \in Tasks : Holds(s, jobs[t]))

HasRoom == Len(sendBuffer) # sendBufferSize
HasChars == receiveBuffer # <<>>

RightsInv ==
  /\ port \in PORTS /\ receiveBuffer \in Seq(PortChar) /\ Len(receiveBuffer) <= receiveBufferSize
  /\ job \in PortJobs /\ portSem \in Semaphores
  /\ \A t \in Tasks : JobOK(t, job[t])
  /\ \A s \in Direction : QueueOK(s, job, portSem)
  /\ RightOK("send", job, portSem, HasRoom) /\ RightOK("receive", job, portSem, HasChars)
  /\ ~ errorFlag

----------------------------------------------------------------------------
\* Semaphores and jobs.

WithWait(p, s, w) == [p EXCEPT ![s].wait = w]
WithCount(p, s, n) == [p EXCEPT ![s].cnt = n]
AtPlace(j, u, x) == [j EXCEPT ![u].pc = x]

LEMMA WaitChanged ==
  ASSUME NEW p \in Semaphores, NEW s \in Direction, NEW w \in Seq(Tasks)
  PROVE  /\ WithWait(p, s, w) \in Semaphores
         /\ WithWait(p, s, w)[s].wait = w /\ WithWait(p, s, w)[s].cnt = p[s].cnt
         /\ \A r \in Direction \ {s} : WithWait(p, s, w)[r] = p[r]
<1>1. p[s] \in [cnt : {0, 1}, wait : Seq(Tasks)]  BY DEF Semaphores
<1>2. [p[s] EXCEPT !.wait = w] \in [cnt : {0, 1}, wait : Seq(Tasks)]  BY <1>1
<1>3. WithWait(p, s, w) = [p EXCEPT ![s] = [p[s] EXCEPT !.wait = w]]  BY DEF WithWait
<1>4. QED  BY <1>1, <1>2, <1>3 DEF Semaphores

LEMMA CountChanged ==
  ASSUME NEW p \in Semaphores, NEW s \in Direction, NEW n \in {0, 1}
  PROVE  /\ WithCount(p, s, n) \in Semaphores
         /\ WithCount(p, s, n)[s].wait = p[s].wait /\ WithCount(p, s, n)[s].cnt = n
         /\ \A r \in Direction \ {s} : WithCount(p, s, n)[r] = p[r]
<1>1. p[s] \in [cnt : {0, 1}, wait : Seq(Tasks)]  BY DEF Semaphores
<1>2. [p[s] EXCEPT !.cnt = n] \in [cnt : {0, 1}, wait : Seq(Tasks)]  BY <1>1
<1>3. WithCount(p, s, n) = [p EXCEPT ![s] = [p[s] EXCEPT !.cnt = n]]  BY DEF WithCount
<1>4. QED  BY <1>1, <1>2, <1>3 DEF Semaphores

LEMMA PlaceChanged ==
  ASSUME NEW j \in PortJobs, NEW u \in Tasks, NEW x \in PortPlace
  PROVE  /\ AtPlace(j, u, x) \in PortJobs /\ \A v \in Tasks \ {u} : AtPlace(j, u, x)[v] = j[v]
         /\ AtPlace(j, u, x)[u].pc = x /\ AtPlace(j, u, x)[u].text = j[u].text
         /\ AtPlace(j, u, x)[u].want = j[u].want /\ AtPlace(j, u, x)[u].empty = j[u].empty
<1>1. j[u] \in PortJob  BY DEF PortJobs
<1>2. [j[u] EXCEPT !.pc = x] \in PortJob  BY <1>1 DEF PortJob
<1>3. AtPlace(j, u, x) = [j EXCEPT ![u] = [j[u] EXCEPT !.pc = x]]  BY DEF AtPlace
<1>4. QED  BY <1>1, <1>2, <1>3 DEF PortJob, PortJobs

\* A right stays where it is.
LEMMA RightStays ==
  ASSUME NEW s, NEW j, NEW k, NEW p, NEW q, NEW useful, RightOK(s, j, p, useful),
         q[s].cnt = p[s].cnt, \A t \in Tasks : Holds(s, k[t]) <=> Holds(s, j[t])
  PROVE  RightOK(s, k, q, useful)
BY DEF RightOK

\* The task that has a right drops it, there being no use for it any more.
LEMMA RightDropped ==
  ASSUME NEW s, NEW j, NEW k, NEW p, NEW useful, RightOK(s, j, p, useful),
         NEW t \in Tasks, Holds(s, j[t]), ~ Holds(s, k[t]),
         \A v \in Tasks \ {t} : Holds(s, k[v]) <=> Holds(s, j[v])
  PROVE  /\ p[s].cnt = 0 /\ \A v \in Tasks : ~ Holds(s, k[v])
         /\ RightOK(s, k, p, FALSE)
BY DEF RightOK

\* A task takes a right from the semaphore.
LEMMA RightTaken ==
  ASSUME NEW s, NEW j, NEW k, NEW p, NEW q, NEW useful, RightOK(s, j, p, useful),
         p[s].cnt # 0, q[s].cnt = 0, NEW t \in Tasks, Holds(s, k[t]),
         \A v \in Tasks \ {t} : Holds(s, k[v]) <=> Holds(s, j[v])
  PROVE  RightOK(s, k, q, useful)
BY DEF RightOK

\* The lists do not notice tasks that are in none of them.
LEMMA QueuesStay ==
  ASSUME NEW s \in Direction, NEW j, NEW k, NEW p \in Semaphores, QueueOK(s, j, p),
         NEW t \in Tasks, j[t].pc # "blocked", \A v \in Tasks \ {t} : k[v] = j[v]
  PROVE  QueueOK(s, k, p)
<1>1. \A i \in 1 .. Len(p[s].wait) : p[s].wait[i] \in Tasks  BY DEF Semaphores
<1>2. \A i \in 1 .. Len(p[s].wait) : k[p[s].wait[i]] = j[p[s].wait[i]]  BY <1>1 DEF QueueOK
<1>3. QED  BY <1>2 DEF QueueOK

\* What a call of a signal does, while the jobs are j and nobody has the right.
LEMMA Wakes ==
  ASSUME NEW s \in Direction, NEW o \in Direction, o # s,
         NEW j \in PortJobs, portSem \in Semaphores,
         \A t \in Tasks : JobOK(t, j[t]), \A r \in Direction : QueueOK(r, j, portSem),
         portSem[s].cnt = 0, \A t \in Tasks : ~ Holds(s, j[t]), Signal(s, j), ~ errorFlag
  PROVE  /\ job' \in PortJobs /\ portSem' \in Semaphores /\ ~ errorFlag'
         /\ \A t \in Tasks : JobOK(t, job'[t])
         /\ \A r \in Direction : QueueOK(r, job', portSem')
         /\ RightOK(s, job', portSem', TRUE)
         /\ portSem'[o].cnt = portSem[o].cnt
         /\ \A t \in Tasks : Holds(o, job'[t]) <=> Holds(o, j[t])
<1> DEFINE w == portSem[s].wait
<1>1. w \in Seq(Tasks) /\ portSem[o].wait \in Seq(Tasks) /\ \A r \in Direction : r = s \/ r = o
  BY DEF Semaphores, Direction
<1>2. CASE w = <<>>
  <2>1. portSem' = WithCount(portSem, s, 1) /\ job' = j  BY <1>2 DEF Signal, WithCount
  <2>2. /\ portSem' \in Semaphores /\ portSem'[s].cnt = 1 /\ portSem'[s].wait = w
        /\ portSem'[o] = portSem[o]
    <3>1. 1 \in {0, 1} /\ o \in Direction \ {s}  OBVIOUS
    <3>2. QED  BY <2>1, <3>1, CountChanged, Zenon
  <2>3. ~ errorFlag'
    <3>1. errorFlag' = (errorFlag \/ portSem[s].cnt = 1)  BY <1>2 DEF Signal
    <3>2. portSem[s].cnt # 1  OBVIOUS
    <3>3. QED  BY <3>1, <3>2, Zenon
  <2>4. QueueOK(s, job', portSem') /\ QueueOK(o, job', portSem')
    BY <1>1, <1>2, <2>1, <2>2 DEF QueueOK
  <2>5. RightOK(s, job', portSem', TRUE)  BY <2>1, <2>2 DEF RightOK
  <2>6. QED  BY <1>1, <2>1, <2>2, <2>3, <2>4, <2>5
<1>3. CASE w # <<>>
  <2> DEFINE u == w[1]
  <2>1. u \in Tasks /\ Head(w) = u /\ Len(w) > 0 /\ Tail(w) \in Seq(Tasks)
        /\ Len(Tail(w)) = Len(w) - 1 /\ \A i \in 1 .. Len(Tail(w)) : Tail(w)[i] = w[i + 1]
    BY <1>1, <1>3
  <2>2. /\ portSem' = WithWait(portSem, s, Tail(w)) /\ job' = AtPlace(j, u, Granted(s))
        /\ errorFlag' = errorFlag
    BY <1>3, <2>1 DEF Signal, WithWait, AtPlace
  <2>3. /\ portSem' \in Semaphores /\ portSem'[s].wait = Tail(w) /\ portSem'[s].cnt = 0
        /\ portSem'[o] = portSem[o]
    <3>1. o \in Direction \ {s}  OBVIOUS
    <3>2. QED  BY <2>1, <2>2, <3>1, WaitChanged, Zenon
  <2>4. /\ job' \in PortJobs /\ \A v \in Tasks \ {u} : job'[v] = j[v]
        /\ job'[u].pc = Granted(s) /\ job'[u].text = j[u].text /\ job'[u].want = j[u].want
        /\ job'[u].empty = j[u].empty
    <3>1. Granted(s) \in PortPlace  BY DEF Granted, PortPlace
    <3>2. QED  BY <2>1, <2>2, <3>1, PlaceChanged
  <2>5. j[u].pc = "blocked" /\ (j[u].text = <<>> <=> s = "receive")
    BY <1>1, <2>1 DEF QueueOK
  <2> HIDE DEF u
  <2>6. JobOK(u, job'[u]) /\ Holds(s, job'[u]) /\ (Holds(o, job'[u]) <=> Holds(o, j[u]))
    <3>1. JobOK(u, j[u])  BY <2>1
    <3>2. CASE s = "send"
      BY <2>4, <2>5, <3>1, <3>2 DEF JobOK, Granted, Holds, Puts, Gets, Direction
    <3>3. CASE s = "receive"
      BY <2>4, <2>5, <3>1, <3>3 DEF JobOK, Granted, Holds, Puts, Gets, Direction
    <3>4. QED  BY <3>2, <3>3 DEF Direction
  <2>7. RightOK(s, job', portSem', TRUE)
    BY <2>1, <2>3, <2>4, <2>6 DEF RightOK
  <2>8. QueueOK(s, job', portSem')
    <3>1. \A i \in 1 .. Len(Tail(w)) : i + 1 \in 1 .. Len(w) /\ i + 1 # 1  BY <1>1, <2>1
    <3>2. 1 \in 1 .. Len(w)  BY <1>1, <2>1
    <3>3. \A i \in 1 .. Len(Tail(w)) : w[i + 1] \in Tasks \ {u}
      BY <1>1, <3>1, <3>2 DEF QueueOK, u
    <3>4. \A i \in 1 .. Len(Tail(w)) : job'[Tail(w)[i]] = j[w[i + 1]]
      BY <2>1, <2>4, <3>3
    <3>5. \A i, k \in 1 .. Len(Tail(w)) : Tail(w)[i] = Tail(w)[k] => i + 1 = k + 1
      BY <2>1, <3>1 DEF QueueOK
    <3>6. QED  BY <1>1, <2>1, <2>3, <3>1, <3>4, <3>5 DEF QueueOK
  <2>9. QueueOK(o, job', portSem')
    <3>1. \A i \in 1 .. Len(portSem[o].wait) : portSem[o].wait[i] \in Tasks \ {u}
      BY <1>1, <2>5 DEF QueueOK, Direction
    <3>2. QED  BY <2>3, <2>4, <3>1 DEF QueueOK
  <2>10. \A t \in Tasks : JobOK(t, job'[t]) /\ (Holds(o, job'[t]) <=> Holds(o, j[t]))
    BY <2>4, <2>6
  <2>11. ~ errorFlag'  BY <2>2
  <2>12. QED  BY <1>1, <2>3, <2>4, <2>7, <2>8, <2>9, <2>10, <2>11
<1>4. QED  BY <1>2, <1>3

\* A task waits for a right, which it gets or for which it enters the list.
LEMMA Waits ==
  ASSUME RightsInv, NEW s \in Direction, NEW t \in Tasks, Wait(t, s),
         job[t].pc = (IF s = "send" THEN "swait" ELSE "rwait"),
         UNCHANGED <<buffers, errorFlag, port>>
  PROVE  RightsInv'
<1> DEFINE w == portSem[s].wait
<1>1. /\ job \in PortJobs /\ portSem \in Semaphores /\ portSem[s].cnt \in {0, 1} /\ w \in Seq(Tasks)
      /\ JobOK(t, job[t]) /\ HasRoom' = HasRoom /\ HasChars' = HasChars /\ port' = port
  BY DEF RightsInv, Semaphores, buffers, HasRoom, HasChars
<1>2. job[t].pc # "blocked" /\ s \in {"send", "receive"}  BY DEF Direction
<1>3. \A r \in Direction : RightOK(r, job, portSem, IF r = "send" THEN HasRoom ELSE HasChars)
  BY DEF RightsInv, Direction
<1>4. CASE portSem[s].cnt > 0
  <2>1. portSem' = WithCount(portSem, s, 0) /\ job' = AtPlace(job, t, Granted(s))
    <3>1. portSem[s].cnt = 1  BY <1>1, <1>4
    <3>2. portSem' = [portSem EXCEPT ![s].cnt = 0] /\ job' = AtPlace(job, t, Granted(s))
      BY <1>4, <3>1 DEF Wait, AtPlace
    <3>3. QED  BY <3>2 DEF WithCount
  <2>2. /\ portSem' \in Semaphores /\ portSem'[s].wait = w /\ portSem'[s].cnt = 0
        /\ \A r \in Direction \ {s} : portSem'[r] = portSem[r]
    BY <1>1, <2>1, CountChanged
  <2>3. Granted(s) \in PortPlace  BY DEF Granted, PortPlace
  <2>4. /\ job' \in PortJobs /\ \A v \in Tasks \ {t} : job'[v] = job[v]
        /\ job'[t].pc = Granted(s) /\ job'[t].text = job[t].text /\ job'[t].want = job[t].want
        /\ job'[t].empty = job[t].empty
    BY <1>1, <2>1, <2>3, PlaceChanged
  <2>5. JobOK(t, job'[t]) /\ Holds(s, job'[t])
        /\ \A r \in Direction \ {s} : Holds(r, job'[t]) <=> Holds(r, job[t])
    <3>1. CASE s = "send"
      BY <1>1, <2>4, <3>1 DEF JobOK, Granted, Holds, Puts, Gets, Direction
    <3>2. CASE s = "receive"
      BY <1>1, <2>4, <3>2 DEF JobOK, Granted, Holds, Puts, Gets, Direction
    <3>3. QED  BY <1>2, <3>1, <3>2
  <2>6. ASSUME NEW r \in Direction
        PROVE  /\ QueueOK(r, job', portSem')
               /\ RightOK(r, job', portSem', IF r = "send" THEN HasRoom ELSE HasChars)
    <3>1. QueueOK(r, job', portSem)  BY <1>1, <1>2, <2>4, QueuesStay DEF RightsInv
    <3>2. QueueOK(r, job', portSem')
      <4>1. CASE r = s
        <5>1. w = <<>>  BY <1>4, <4>1 DEF RightsInv, QueueOK
        <5>2. QED  BY <2>2, <4>1, <5>1 DEF QueueOK
      <4>2. CASE r # s  BY <2>2, <3>1, <4>2 DEF QueueOK
      <4>3. QED  BY <4>1, <4>2
    <3>3. CASE r = s
      <4>1. portSem[s].cnt # 0  BY <1>1, <1>4
      <4>2. \A v \in Tasks \ {t} : Holds(s, job'[v]) <=> Holds(s, job[v])  BY <2>4
      <4>3. QED  BY <1>3, <2>2, <2>5, <3>2, <3>3, <4>1, <4>2, RightTaken
    <3>4. CASE r # s
      <4>1. \A v \in Tasks : Holds(r, job'[v]) <=> Holds(r, job[v])  BY <2>4, <2>5, <3>4
      <4>2. portSem'[r].cnt = portSem[r].cnt  BY <2>2, <3>4
      <4>3. QED  BY <1>3, <3>2, <4>1, <4>2, RightStays
    <3>5. QED  BY <3>3, <3>4
  <2>7. \A v \in Tasks : JobOK(v, job'[v])  BY <2>4, <2>5 DEF RightsInv
  <2>8. ~ errorFlag'  BY DEF RightsInv
  <2>9. QED  BY <1>1, <2>2, <2>4, <2>6, <2>7, <2>8 DEF RightsInv, JobOK, buffers, Direction
<1>5. CASE portSem[s].cnt = 0
  <2> DEFINE x == Append(w, t)
  <2>1. portSem' = WithWait(portSem, s, x) /\ job' = AtPlace(job, t, "blocked")
    <3>1. ~ portSem[s].cnt > 0  BY <1>5
    <3>2. QED  BY <3>1 DEF Wait, WithWait, AtPlace
  <2>2. /\ x \in Seq(Tasks) /\ Len(x) = Len(w) + 1 /\ x[Len(w) + 1] = t
        /\ \A i \in 1 .. Len(w) : x[i] = w[i] /\ w[i] \in Tasks
    BY <1>1
  <2> HIDE DEF x
  <2>3. /\ portSem' \in Semaphores /\ portSem'[s].wait = x /\ portSem'[s].cnt = 0
        /\ \A r \in Direction \ {s} : portSem'[r] = portSem[r]
    BY <1>1, <1>5, <2>1, <2>2, WaitChanged, ZenonT(30)
  <2>4. /\ job' \in PortJobs /\ \A v \in Tasks \ {t} : job'[v] = job[v]
        /\ job'[t].pc = "blocked" /\ job'[t].text = job[t].text /\ job'[t].want = job[t].want
        /\ job'[t].empty = job[t].empty
    <3>1. "blocked" \in PortPlace  BY DEF PortPlace
    <3>2. QED  BY <1>1, <2>1, <3>1, PlaceChanged, Zenon
  <2>5. /\ JobOK(t, job'[t]) /\ (job'[t].text = <<>> <=> s = "receive")
        /\ \A r \in Direction : Holds(r, job'[t]) <=> Holds(r, job[t])
    <3>1. CASE s = "send"
      BY <1>1, <2>4, <3>1 DEF JobOK, Holds, Puts, Gets, Direction
    <3>2. CASE s = "receive"
      BY <1>1, <2>4, <3>2 DEF JobOK, Holds, Puts, Gets, Direction
    <3>3. QED  BY <1>2, <3>1, <3>2
  <2>6. ASSUME NEW r \in Direction
        PROVE  /\ QueueOK(r, job', portSem')
               /\ RightOK(r, job', portSem', IF r = "send" THEN HasRoom ELSE HasChars)
    <3>1. QueueOK(r, job, portSem)  BY DEF RightsInv
    <3>2. QueueOK(r, job', portSem)  BY <1>1, <1>2, <2>4, <3>1, QueuesStay
    <3>3. CASE r = s
      <4>1. \A i \in 1 .. Len(w) : w[i] # t  BY <1>2, <3>1, <3>3 DEF QueueOK
      <4>2. \A i \in 1 .. Len(x) : i \in 1 .. Len(w) \/ i = Len(w) + 1  BY <1>1, <2>2
      <4>3. \A i \in 1 .. Len(x) : /\ job'[x[i]].pc = "blocked"
                                   /\ job'[x[i]].text = <<>> <=> s = "receive"
        <5> SUFFICES ASSUME NEW i \in 1 .. Len(x)
                     PROVE  /\ job'[x[i]].pc = "blocked"
                            /\ job'[x[i]].text = <<>> <=> s = "receive"
          OBVIOUS
        <5>1. CASE i \in 1 .. Len(w)
          <6>1. x[i] = w[i]  BY <2>2, <5>1
          <6>2. /\ job'[w[i]].pc = "blocked"
                /\ job'[w[i]].text = <<>> <=> s = "receive"
            BY <3>2, <3>3, <5>1 DEF QueueOK
          <6>3. QED  BY <6>1, <6>2
        <5>2. CASE i = Len(w) + 1
          <6>1. x[i] = t  BY <2>2, <5>2
          <6>2. QED  BY <2>4, <2>5, <6>1
        <5>3. QED  BY <4>2, <5>1, <5>2
      <4>4. \A i, k \in 1 .. Len(x) : x[i] = x[k] => i = k
        BY <2>2, <3>2, <3>3, <4>1, <4>2 DEF QueueOK
      <4>5. QueueOK(r, job', portSem')  BY <2>3, <3>3, <4>3, <4>4 DEF QueueOK
      <4>6. portSem'[r].cnt = portSem[r].cnt  BY <1>5, <2>3, <3>3
      <4>7. \A v \in Tasks : Holds(r, job'[v]) <=> Holds(r, job[v])  BY <2>4, <2>5
      <4>8. QED  BY <1>3, <4>5, <4>6, <4>7, RightStays
    <3>4. CASE r # s
      <4>1. QueueOK(r, job', portSem')  BY <2>3, <3>2, <3>4 DEF QueueOK
      <4>2. \A v \in Tasks : Holds(r, job'[v]) <=> Holds(r, job[v])  BY <2>4, <2>5
      <4>3. portSem'[r].cnt = portSem[r].cnt  BY <2>3, <3>4
      <4>4. QED  BY <1>3, <4>1, <4>2, <4>3, RightStays
    <3>5. QED  BY <3>3, <3>4
  <2>7. \A v \in Tasks : JobOK(v, job'[v])  BY <2>4, <2>5 DEF RightsInv
  <2>8. ~ errorFlag'  BY DEF RightsInv
  <2>9. QED  BY <1>1, <2>3, <2>4, <2>6, <2>7, <2>8 DEF RightsInv, JobOK, buffers, Direction
<1>6. QED  BY <1>1, <1>4, <1>5

\* One task moves, which is in no list; it keeps its rights, or drops one of no use any more.
LEMMA Moves ==
  ASSUME RightsInv, NEW t \in Tasks, job[t].pc # "blocked", NEW x \in PortJob, JobOK(t, x),
         job' = [job EXCEPT ![t] = x], UNCHANGED <<portSem, port, errorFlag>>,
         receiveBuffer' \in Seq(PortChar), Len(receiveBuffer') <= receiveBufferSize,
         \/ HasRoom' = HasRoom /\ (Puts(x) <=> Puts(job[t]))
         \/ HasRoom' = FALSE /\ Puts(job[t]) /\ ~ Puts(x),
         \/ HasChars' = HasChars /\ (Gets(x) <=> Gets(job[t]))
         \/ HasChars' = FALSE /\ Gets(job[t]) /\ ~ Gets(x)
  PROVE  RightsInv'
<1>1. job' \in PortJobs /\ job'[t] = x /\ \A v \in Tasks \ {t} : job'[v] = job[v]
  BY DEF RightsInv, PortJobs
<1>2. \A v \in Tasks : JobOK(v, job'[v])  BY <1>1 DEF RightsInv
<1>3. \A r \in Direction : QueueOK(r, job', portSem)
  <2>1. ASSUME NEW r \in Direction PROVE QueueOK(r, job', portSem)
    <3>1. QueueOK(r, job, portSem) /\ portSem \in Semaphores  BY DEF RightsInv
    <3>2. QED  BY <1>1, <3>1, QueuesStay
  <2>2. QED  BY <2>1
<1>4. RightOK("send", job', portSem, HasRoom')
  <2>1. RightOK("send", job, portSem, HasRoom)  BY DEF RightsInv
  <2>2. \A v \in Tasks \ {t} : Holds("send", job'[v]) <=> Holds("send", job[v])  BY <1>1
  <2>3. CASE HasRoom' = HasRoom /\ (Puts(x) <=> Puts(job[t]))
    <3>1. \A v \in Tasks : Holds("send", job'[v]) <=> Holds("send", job[v])
      BY <1>1, <2>2, <2>3 DEF Holds
    <3>2. RightOK("send", job', portSem, HasRoom)  BY <2>1, <3>1, RightStays
    <3>3. QED  BY <2>3, <3>2
  <2>4. CASE HasRoom' = FALSE /\ Puts(job[t]) /\ ~ Puts(x)
    <3>1. Holds("send", job[t]) /\ ~ Holds("send", job'[t])  BY <1>1, <2>4 DEF Holds
    <3>2. RightOK("send", job', portSem, FALSE)  BY <2>1, <2>2, <3>1, RightDropped
    <3>3. QED  BY <2>4, <3>2
  <2>5. QED  BY <2>3, <2>4
<1>5. RightOK("receive", job', portSem, HasChars')
  <2>1. RightOK("receive", job, portSem, HasChars)  BY DEF RightsInv
  <2>2. \A v \in Tasks \ {t} : Holds("receive", job'[v]) <=> Holds("receive", job[v])  BY <1>1
  <2>3. CASE HasChars' = HasChars /\ (Gets(x) <=> Gets(job[t]))
    <3>1. \A v \in Tasks : Holds("receive", job'[v]) <=> Holds("receive", job[v])
      BY <1>1, <2>2, <2>3 DEF Holds
    <3>2. RightOK("receive", job', portSem, HasChars)  BY <2>1, <3>1, RightStays
    <3>3. QED  BY <2>3, <3>2
  <2>4. CASE HasChars' = FALSE /\ Gets(job[t]) /\ ~ Gets(x)
    <3>1. Holds("receive", job[t]) /\ ~ Holds("receive", job'[t])  BY <1>1, <2>4 DEF Holds
    <3>2. RightOK("receive", job', portSem, FALSE)  BY <2>1, <2>2, <3>1, RightDropped
    <3>3. QED  BY <2>4, <3>2
  <2>5. QED  BY <2>3, <2>4
<1>6. ~ errorFlag'  BY DEF RightsInv
<1>7. QED  BY <1>1, <1>2, <1>3, <1>4, <1>5, <1>6 DEF RightsInv, JobOK, QueueOK, RightOK

\* Nothing that the rights speak of changes.
LEMMA RightsStay ==
  ASSUME RightsInv, UNCHANGED <<portSem, port, errorFlag, job, receiveBuffer>>, HasRoom' = HasRoom
  PROVE  RightsInv'
BY DEF RightsInv, JobOK, QueueOK, RightOK, HasChars

\* The room that a character leaves.
LEMMA Fills ==
  ASSUME NEW t, NEW c, sendBuffer \in Seq(PortItem), HasRoom, Put(t, c)
  PROVE  HasRoom' = ~ FillsBuffer
<1>1. CASE Direct
  BY <1>1 DEF Put, FillsBuffer, HasRoom
<1>2. CASE ~ Direct
  <2>1. Len(sendBuffer') = Len(sendBuffer) + 1  BY <1>2 DEF Put
  <2>2. QED  BY <1>2, <2>1 DEF FillsBuffer, HasRoom
<1>3. QED  BY <1>1, <1>2

----------------------------------------------------------------------------
\* The calls keep the rights.

\* A call that begins has no right and takes no place.
LEMMA CallsKeepRights ==
  ASSUME RightsInv, NEW t \in Tasks, PortCalls(t)
  PROVE  RightsInv'
<1>1. /\ job[t] \in PortJob /\ JobOK(t, job[t]) /\ port \in PORTS
      /\ receiveBuffer \in Seq(PortChar) /\ Len(receiveBuffer) <= receiveBufferSize
  BY DEF RightsInv, PortJobs
<1>2. NoJob \in PortJob
  BY DEF NoJob, PortJob, PortPlace
<1>3. ASSUME NEW text \in port.texts[t], eSerialPort_write(t, text)
      PROVE  RightsInv'
  <2> DEFINE x == [NoJob EXCEPT !.pc = "swait", !.text = text]
  <2>1. text \in Seq(PortChar) /\ text # <<>>
    <3>1. text \in Seq({"c", "LF"}) \ {<<>>}  BY <1>1, PortAssumption
    <3>2. {"c", "LF"} \subseteq PortChar  BY DEF PortChar
    <3>3. QED  BY <3>1, <3>2
  <2>2. x \in PortJob /\ x.pc = "swait" /\ x.text = text /\ x.want = NoRead
    BY <2>1 DEF NoJob, PortJob, PortPlace
  <2>3. job' = [job EXCEPT ![t] = x] /\ job[t].pc = "idle"
    BY <1>3 DEF eSerialPort_write
  <2> HIDE DEF x
  <2>4. JobOK(t, x)  BY <2>1, <2>2 DEF JobOK, NoRead
  <2>5. (Puts(x) <=> Puts(job[t])) /\ (Gets(x) <=> Gets(job[t]))
    BY <1>1, <2>2, <2>3 DEF Puts, Gets, JobOK, NoRead
  <2>6. /\ HasRoom' = HasRoom /\ HasChars' = HasChars /\ receiveBuffer' = receiveBuffer
        /\ UNCHANGED <<portSem, port, errorFlag>>
    BY <1>3 DEF eSerialPort_write, buffers, HasRoom, HasChars
  <2>7. QED  BY <1>1, <2>2, <2>3, <2>4, <2>5, <2>6, Moves
<1>4. ASSUME NEW len \in port.lengths[t], eSerialPort_read(t, len)
      PROVE  RightsInv'
  <2> DEFINE x == [NoJob EXCEPT !.pc = "rwait", !.want = len]
  <2>1. len \in Nat \ {0} /\ port.lengths[t] # {}
    BY <1>1, PortAssumption
  <2>2. x \in PortJob /\ x.pc = "rwait" /\ x.text = <<>> /\ x.want = len
    <3>1. NoJob \in PortJob /\ NoJob.text = <<>> /\ len \in Nat \cup {NoRead}
      BY <1>2, <2>1 DEF NoJob
    <3>2. "rwait" \in PortPlace  BY DEF PortPlace
    <3>3. QED  BY <3>1, <3>2 DEF PortJob
  <2>3. job' = [job EXCEPT ![t] = x] /\ job[t].pc = "idle"
    BY <1>4 DEF eSerialPort_read
  <2> HIDE DEF x
  <2>4. JobOK(t, x)  BY <2>1, <2>2 DEF JobOK, NoRead
  <2>5. (Puts(x) <=> Puts(job[t])) /\ (Gets(x) <=> Gets(job[t]))
    BY <1>1, <2>2, <2>3 DEF Puts, Gets, JobOK, NoRead
  <2>6. /\ HasRoom' = HasRoom /\ HasChars' = HasChars /\ receiveBuffer' = receiveBuffer
        /\ UNCHANGED <<portSem, port, errorFlag>>
    BY <1>4 DEF eSerialPort_read, buffers, HasRoom, HasChars
  <2>7. QED  BY <1>1, <2>2, <2>3, <2>4, <2>5, <2>6, Moves
<1>5. QED  BY <1>3, <1>4 DEF PortCalls

\* The waits of a write and of a read.
LEMMA WaitsKeepRights ==
  ASSUME RightsInv, NEW t \in Tasks, WaitToSend(t) \/ WaitToReceive(t)
  PROVE  RightsInv'
<1>1. CASE WaitToSend(t)
  <2>1. Wait(t, "send") /\ job[t].pc = "swait" /\ UNCHANGED <<buffers, errorFlag, port>>
    BY <1>1 DEF WaitToSend
  <2>2. QED  BY <2>1, Waits DEF Direction
<1>2. CASE WaitToReceive(t)
  <2>1. Wait(t, "receive") /\ job[t].pc = "rwait" /\ UNCHANGED <<buffers, errorFlag, port>>
    BY <1>2 DEF WaitToReceive
  <2>2. QED  BY <2>1, Waits DEF Direction
<1>3. QED  BY <1>1, <1>2

\* Where a read goes on: with the right to get while there are characters.
LEMMA GoesOn ==
  ASSUME NEW t, NEW k \in PortJob, k.text = <<>>, k.want \in Nat => port.lengths[t] # {},
         NEW x, x = [k EXCEPT !.pc = AfterWrite(k)]
  PROVE  /\ x \in PortJob /\ x.pc \in {"idle", "rwait", "get", "rsignal"}
         /\ JobOK(t, x) /\ ~ Puts(x) /\ (Gets(x) <=> k.want \in Nat /\ ~ k.empty)
<1>1. AfterWrite(k) \in {"idle", "rwait", "get", "rsignal"}
  BY DEF AfterWrite, AfterGet
<1>2. /\ x \in PortJob /\ x.pc = AfterWrite(k) /\ x.text = <<>> /\ x.want = k.want
      /\ x.empty = k.empty
  BY <1>1 DEF PortJob, PortPlace
<1>3. k.want \in Nat \cup {NoRead} /\ k.empty \in BOOLEAN  BY DEF PortJob
<1>4. /\ k.want = NoRead => x.pc = "idle" 
      /\ k.want \in Nat \ {0} /\ k.empty => x.pc = "rwait"
      /\ k.want \in Nat \ {0} /\ ~ k.empty => x.pc = "get"
      /\ k.want = 0 /\ k.empty => x.pc = "idle"
      /\ k.want = 0 /\ ~ k.empty => x.pc = "rsignal"
  <2>1. CASE k.empty  BY <1>2, <1>3, <2>1 DEF AfterWrite, AfterGet, NoRead
  <2>2. CASE ~ k.empty  BY <1>2, <1>3, <2>2 DEF AfterWrite, AfterGet, NoRead
  <2>3. QED  BY <2>1, <2>2
<1>5. JobOK(t, x) /\ (Gets(x) <=> k.want \in Nat /\ ~ k.empty)
  <2>1. CASE k.want = NoRead  BY <1>2, <1>4, <2>1 DEF JobOK, Gets, NoRead
  <2>2. CASE k.want \in Nat \ {0} /\ k.empty  BY <1>2, <1>4, <2>2 DEF JobOK, Gets
  <2>3. CASE k.want \in Nat \ {0} /\ ~ k.empty  BY <1>2, <1>4, <2>3 DEF JobOK, Gets
  <2>4. CASE k.want = 0 /\ k.empty  BY <1>2, <1>4, <2>4 DEF JobOK, Gets
  <2>5. CASE k.want = 0 /\ ~ k.empty  BY <1>2, <1>4, <2>5 DEF JobOK, Gets
  <2>6. QED  BY <1>3, <2>1, <2>2, <2>3, <2>4, <2>5
<1>6. QED  BY <1>1, <1>2, <1>5 DEF Puts

\* What a put and a get have before them.
LEMMA Entitled ==
  ASSUME RightsInv, NEW t \in Tasks
  PROVE  /\ Puts(job[t]) => /\ HasRoom /\ portSem["send"].cnt = 0
                            /\ \A v \in Tasks \ {t} : ~ Puts(job[v])
         /\ Gets(job[t]) => /\ HasChars /\ portSem["receive"].cnt = 0
                            /\ \A v \in Tasks \ {t} : ~ Gets(job[v])
BY DEF RightsInv, RightOK, Holds, Direction

\* The rights after a put, which leaves room or not.
LEMMA PutMoves ==
  ASSUME RightsInv, NEW t \in Tasks, NEW c, sendBuffer \in Seq(PortItem), Put(t, c),
         job[t].pc = "put", UNCHANGED <<receiveBuffer, errorFlag, portSem, port>>,
         NEW x \in PortJob, job' = [job EXCEPT ![t] = x], JobOK(t, x),
         Gets(x) <=> Gets(job[t]), Puts(x) <=> ~ FillsBuffer
  PROVE  RightsInv'
<1>1. Puts(job[t]) /\ HasRoom  BY Entitled DEF Puts
<1>2. HasRoom' = ~ FillsBuffer  BY <1>1, Fills
<1>3. \/ HasRoom' = HasRoom /\ (Puts(x) <=> Puts(job[t]))
      \/ HasRoom' = FALSE /\ Puts(job[t]) /\ ~ Puts(x)
  <2>1. CASE FillsBuffer  BY <1>1, <1>2, <2>1
  <2>2. CASE ~ FillsBuffer
    <3>1. HasRoom = TRUE  BY <1>1 DEF HasRoom
    <3>2. QED  BY <1>1, <1>2, <2>2, <3>1
  <2>3. QED  BY <2>1, <2>2
<1>4. /\ HasChars' = HasChars /\ receiveBuffer' \in Seq(PortChar)
      /\ Len(receiveBuffer') <= receiveBufferSize
  BY DEF RightsInv, HasChars
<1>5. job[t].pc # "blocked"  OBVIOUS
<1>6. QED  BY <1>3, <1>4, <1>5, Moves

\* The CR before a LF.
LEMMA PutCRKeepsRights ==
  ASSUME RightsInv, NEW t \in Tasks, sendBuffer \in Seq(PortItem), PutCR(t)
  PROVE  RightsInv'
<1> DEFINE p == IF FillsBuffer THEN "swait" ELSE "put"
           x == [[job[t] EXCEPT !.cr = TRUE] EXCEPT !.pc = p]
<1>1. job[t] \in PortJob /\ JobOK(t, job[t]) /\ job[t].pc = "put"
  BY DEF RightsInv, PortJobs, PutCR
<1>2. p \in PortPlace  BY DEF PortPlace
<1>3. job' = [job EXCEPT ![t] = x]  BY <1>1 DEF PutCR, RightsInv, PortJobs
<1>4. p = "swait" \/ p = "put"  OBVIOUS
<1>5. p = "put" <=> ~ FillsBuffer  OBVIOUS
<1> HIDE DEF p
<1>6. /\ x \in PortJob /\ x.pc = p /\ x.text = job[t].text /\ x.want = job[t].want
      /\ x.empty = job[t].empty
  BY <1>1, <1>2 DEF PortJob
<1> HIDE DEF x
<1>7. JobOK(t, x) /\ (Gets(x) <=> Gets(job[t]))
  BY <1>1, <1>4, <1>6 DEF JobOK, Gets
<1>8. Puts(x) <=> ~ FillsBuffer  BY <1>4, <1>5, <1>6 DEF Puts
<1>9. Put(t, "CR") /\ UNCHANGED <<receiveBuffer, errorFlag, portSem, port>>  BY DEF PutCR
<1>10. QED  BY <1>1, <1>3, <1>6, <1>7, <1>8, <1>9, PutMoves

\* A character of the text; after the last the right goes on or is given back.
LEMMA PutCharKeepsRights ==
  ASSUME RightsInv, NEW t \in Tasks, sendBuffer \in Seq(PortItem), PutChar(t)
  PROVE  RightsInv'
<1> DEFINE k == [job[t] EXCEPT !.text = Tail(@), !.cr = FALSE]
           p == IF k.text # <<>> THEN (IF FillsBuffer THEN "swait" ELSE "put")
                ELSE IF FillsBuffer THEN AfterWrite(k) ELSE "ssignal"
           x == [k EXCEPT !.pc = p]
<1>1. job[t] \in PortJob /\ JobOK(t, job[t]) /\ job[t].pc = "put"
  BY DEF RightsInv, PortJobs, PutChar
<1>2. job[t].text \in Seq(PortChar) /\ job[t].text # <<>>  BY <1>1 DEF PortJob, JobOK
<1>3. /\ k \in PortJob /\ k.text = Tail(job[t].text) /\ k.want = job[t].want
      /\ k.empty = job[t].empty
  <2>1. Tail(job[t].text) \in Seq(PortChar)  BY <1>2
  <2>2. QED  BY <1>1, <2>1 DEF PortJob
<1>4. job' = [job EXCEPT ![t] = x] /\ Put(t, Head(job[t].text))
      /\ UNCHANGED <<receiveBuffer, errorFlag, portSem, port>>
  BY DEF PutChar
<1>5. /\ job[t].want \in Nat => port.lengths[t] # {} /\ "ECHO" \in port.ioControl
      /\ Gets(job[t]) <=> k.want \in Nat /\ ~ k.empty
  BY <1>1, <1>2, <1>3 DEF JobOK, Gets
<1> HIDE DEF k
<1>6. CASE k.text # <<>>
  <2>1. p \in PortPlace /\ p \in {"swait", "put"} /\ (p = "put" <=> ~ FillsBuffer)
    BY <1>6 DEF PortPlace
  <2> HIDE DEF p
  <2>2. /\ x \in PortJob /\ x.pc = p /\ x.text = k.text /\ x.want = k.want /\ x.empty = k.empty
    BY <1>3, <2>1 DEF PortJob
  <2> HIDE DEF x
  <2>3. JobOK(t, x)  BY <1>3, <1>5, <1>6, <2>1, <2>2 DEF JobOK
  <2>4. Gets(x) <=> k.want \in Nat /\ ~ k.empty  BY <1>6, <2>1, <2>2 DEF Gets
  <2>5. Puts(x) <=> ~ FillsBuffer  BY <2>1, <2>2 DEF Puts
  <2>6. QED  BY <1>1, <1>4, <1>5, <2>2, <2>3, <2>4, <2>5, PutMoves
<1>7. CASE k.text = <<>> /\ FillsBuffer
  <2>1. x = [k EXCEPT !.pc = AfterWrite(k)]  BY <1>7
  <2> HIDE DEF x
  <2>2. /\ x \in PortJob /\ JobOK(t, x) /\ ~ Puts(x)
        /\ Gets(x) <=> k.want \in Nat /\ ~ k.empty
    BY <1>3, <1>5, <1>7, <2>1, GoesOn
  <2>3. QED  BY <1>1, <1>4, <1>5, <1>7, <2>2, PutMoves
<1>8. CASE k.text = <<>> /\ ~ FillsBuffer
  <2>1. p = "ssignal"  BY <1>8
  <2> HIDE DEF p
  <2>2. /\ x \in PortJob /\ x.pc = "ssignal" /\ x.text = <<>> /\ x.want = k.want
        /\ x.empty = k.empty
    BY <1>3, <1>8, <2>1 DEF PortJob, PortPlace
  <2> HIDE DEF x
  <2>3. JobOK(t, x)  BY <1>3, <1>5, <2>2 DEF JobOK
  <2>4. Gets(x) <=> k.want \in Nat /\ ~ k.empty  BY <2>2 DEF Gets
  <2>5. Puts(x) <=> ~ FillsBuffer  BY <1>8, <2>2 DEF Puts
  <2>6. QED  BY <1>1, <1>4, <1>5, <2>2, <2>3, <2>4, <2>5, PutMoves
<1>9. QED  BY <1>6, <1>7, <1>8

\* A read takes a character; with the last one the right to get is gone.
LEMMA GetCharKeepsRights ==
  ASSUME RightsInv, NEW t \in Tasks, GetChar(t)
  PROVE  RightsInv'
<1> DEFINE e == receiveBuffer' = <<>>
           k == [job[t] EXCEPT !.want = @ - 1, !.empty = e]
           x == IF "ECHO" \in port.ioControl
                THEN [k EXCEPT !.text = <<Head(receiveBuffer)>>, !.pc = "swait"]
                ELSE [k EXCEPT !.pc = AfterGet(k)]
<1>1. /\ job[t] \in PortJob /\ JobOK(t, job[t]) /\ job[t].pc = "get"
      /\ receiveBuffer \in Seq(PortChar) /\ receiveBuffer # <<>>
      /\ Len(receiveBuffer) <= receiveBufferSize
  BY DEF RightsInv, PortJobs, GetChar
<1>2. /\ job[t].want \in Nat \ {0} /\ job[t].text = <<>> /\ port.lengths[t] # {}
      /\ Gets(job[t]) /\ ~ Puts(job[t])
  BY <1>1 DEF JobOK, Gets, Puts
<1>3. /\ receiveBuffer' \in Seq(PortChar) /\ Len(receiveBuffer') <= receiveBufferSize
      /\ <<Head(receiveBuffer)>> \in Seq(PortChar) /\ <<Head(receiveBuffer)>> # <<>>
  <2>1. receiveBuffer' = Tail(receiveBuffer) /\ receiveBufferSize \in Nat
    BY PortAssumption DEF GetChar
  <2>2. Tail(receiveBuffer) \in Seq(PortChar) /\ Len(Tail(receiveBuffer)) = Len(receiveBuffer) - 1
    BY <1>1
  <2>3. <<Head(receiveBuffer)>> \in Seq(PortChar) /\ <<Head(receiveBuffer)>> # <<>>  BY <1>1
  <2>4. QED  BY <1>1, <2>1, <2>2, <2>3
<1>4. /\ k \in PortJob /\ k.text = <<>> /\ k.want \in Nat /\ (k.empty <=> ~ HasChars')
  <2>1. e \in BOOLEAN /\ (e <=> ~ HasChars')  BY DEF HasChars
  <2> HIDE DEF e
  <2>2. job[t].want - 1 \in Nat  BY <1>2
  <2>3. k \in PortJob /\ k.text = <<>> /\ k.want = job[t].want - 1
    BY <1>1, <1>2, <2>1, <2>2 DEF PortJob
  <2>4. k.empty = e  BY <1>1 DEF PortJob
  <2>5. QED  BY <2>1, <2>2, <2>3, <2>4
<1>5. job' = [job EXCEPT ![t] = x]  BY DEF GetChar
<1>6. HasRoom' = HasRoom /\ UNCHANGED <<portSem, port, errorFlag>>
  BY DEF GetChar, HasRoom
<1>7. HasChars = TRUE  BY <1>1 DEF HasChars
<1> HIDE DEF k
<1>8. x \in PortJob /\ JobOK(t, x) /\ ~ Puts(x) /\ (Gets(x) <=> ~ k.empty)
  <2>1. CASE "ECHO" \in port.ioControl
    <3>1. /\ x \in PortJob /\ x.pc = "swait" /\ x.text # <<>> /\ x.want = k.want
          /\ x.empty = k.empty
      BY <1>3, <1>4, <2>1 DEF PortJob, PortPlace
    <3> HIDE DEF x
    <3>2. JobOK(t, x)  BY <1>2, <1>4, <2>1, <3>1 DEF JobOK
    <3>3. ~ Puts(x) /\ (Gets(x) <=> ~ k.empty)  BY <1>4, <3>1 DEF Gets, Puts
    <3>4. QED  BY <3>1, <3>2, <3>3
  <2>2. CASE "ECHO" \notin port.ioControl
    <3>1. k.want # NoRead  BY <1>4 DEF NoRead
    <3>2. x = [k EXCEPT !.pc = AfterWrite(k)]  BY <2>2, <3>1 DEF AfterWrite
    <3> HIDE DEF x
    <3>3. QED  BY <1>2, <1>4, <3>2, GoesOn
  <2>3. QED  BY <2>1, <2>2
<1> HIDE DEF x
<1>9. \/ HasChars' = HasChars /\ (Gets(x) <=> Gets(job[t]))
      \/ HasChars' = FALSE /\ Gets(job[t]) /\ ~ Gets(x)
  <2>1. CASE k.empty
    <3>1. HasChars' = FALSE  BY <1>4, <2>1 DEF HasChars
    <3>2. QED  BY <1>2, <1>8, <2>1, <3>1
  <2>2. CASE ~ k.empty
    <3>1. HasChars' = TRUE  BY <1>4, <2>2 DEF HasChars
    <3>2. QED  BY <1>2, <1>7, <1>8, <2>2, <3>1
  <2>3. QED  BY <2>1, <2>2
<1>10. job[t].pc # "blocked" /\ (Puts(x) <=> Puts(job[t]))  BY <1>1, <1>2, <1>8
<1>11. QED  BY <1>3, <1>5, <1>6, <1>8, <1>9, <1>10, Moves

\* A signal, with the jobs as they are then, gives RightsInv where the other right stays.
LEMMA SignalKeepsRights ==
  ASSUME NEW s \in Direction, NEW o \in Direction, o # s,
         NEW j \in PortJobs, portSem \in Semaphores,
         \A t \in Tasks : JobOK(t, j[t]), \A r \in Direction : QueueOK(r, j, portSem),
         portSem[s].cnt = 0, \A t \in Tasks : ~ Holds(s, j[t]), Signal(s, j), ~ errorFlag,
         port \in PORTS, port' = port,
         receiveBuffer' \in Seq(PortChar), Len(receiveBuffer') <= receiveBufferSize,
         IF s = "send" THEN HasRoom' ELSE HasChars',
         RightOK(o, j, portSem, IF o = "send" THEN HasRoom' ELSE HasChars')
  PROVE  RightsInv'
<1>1. /\ job' \in PortJobs /\ portSem' \in Semaphores /\ ~ errorFlag'
      /\ \A t \in Tasks : JobOK(t, job'[t])
      /\ \A r \in Direction : QueueOK(r, job', portSem')
      /\ RightOK(s, job', portSem', TRUE)
      /\ portSem'[o].cnt = portSem[o].cnt /\ \A t \in Tasks : Holds(o, job'[t]) <=> Holds(o, j[t])
  BY Wakes
<1>2. RightOK(o, job', portSem', IF o = "send" THEN HasRoom' ELSE HasChars')
  BY <1>1, RightStays
<1>3. (IF s = "send" THEN HasRoom' ELSE HasChars') = TRUE
  BY DEF HasRoom, HasChars
<1>4. RightOK("send", job', portSem', HasRoom') /\ RightOK("receive", job', portSem', HasChars')
  <2>1. CASE s = "send"
    <3>1. o = "receive"  BY <2>1 DEF Direction
    <3>2. HasRoom' = TRUE  BY <1>3, <2>1
    <3>3. RightOK("receive", job', portSem', HasChars')  BY <1>2, <3>1
    <3>4. QED  BY <1>1, <2>1, <3>2, <3>3
  <2>2. CASE s = "receive"
    <3>1. o = "send"  BY <2>2 DEF Direction
    <3>2. HasChars' = TRUE  BY <1>3, <2>2
    <3>3. RightOK("send", job', portSem', HasRoom')  BY <1>2, <3>1
    <3>4. QED  BY <1>1, <2>2, <3>2, <3>3
  <2>3. QED  BY <2>1, <2>2 DEF Direction
<1>5. QED  BY <1>1, <1>4 DEF RightsInv, JobOK, QueueOK, RightOK, Direction

\* A writer, or a reader at the end of its echo, gives the right to put back.
LEMMA SignalSendKeepsRights ==
  ASSUME RightsInv, NEW t \in Tasks, SignalSend(t)
  PROVE  RightsInv'
<1> DEFINE x == [job[t] EXCEPT !.pc = AfterWrite(job[t])]
           j == [job EXCEPT ![t] = x]
<1>1. /\ job[t] \in PortJob /\ JobOK(t, job[t]) /\ job[t].pc = "ssignal" /\ job[t].text = <<>>
      /\ job \in PortJobs /\ portSem \in Semaphores /\ ~ errorFlag
  BY DEF RightsInv, PortJobs, SignalSend, JobOK
<1>2. /\ x \in PortJob /\ JobOK(t, x) /\ ~ Puts(x) /\ (Gets(x) <=> Gets(job[t]))
  <2>1. job[t].want \in Nat => port.lengths[t] # {}  BY <1>1 DEF JobOK
  <2>2. /\ x \in PortJob /\ JobOK(t, x) /\ ~ Puts(x)
        /\ (Gets(x) <=> job[t].want \in Nat /\ ~ job[t].empty)
    BY <1>1, <2>1, GoesOn
  <2>3. Gets(job[t]) <=> job[t].want \in Nat /\ ~ job[t].empty  BY <1>1 DEF Gets
  <2>4. QED  BY <2>2, <2>3
<1>3. Signal("send", j) /\ UNCHANGED <<buffers, port>>
  <2>1. j = [job EXCEPT ![t].pc = AfterWrite(job[t])]  OBVIOUS
  <2>2. QED  BY <2>1 DEF SignalSend
<1> HIDE DEF x
<1>4. j \in PortJobs /\ j[t] = x /\ \A v \in Tasks \ {t} : j[v] = job[v]
  BY <1>1, <1>2 DEF PortJobs
<1> HIDE DEF j
<1>5. (\A v \in Tasks : JobOK(v, j[v])) /\ \A r \in Direction : QueueOK(r, j, portSem)
  <2>1. \A v \in Tasks : JobOK(v, j[v])  BY <1>2, <1>4 DEF RightsInv
  <2>2. ASSUME NEW r \in Direction PROVE QueueOK(r, j, portSem)
    <3>1. QueueOK(r, job, portSem) /\ job[t].pc # "blocked"  BY <1>1 DEF RightsInv
    <3>2. QED  BY <1>1, <1>4, <3>1, QueuesStay
  <2>3. QED  BY <2>1, <2>2
<1>6. HasRoom' /\ portSem["send"].cnt = 0 /\ \A v \in Tasks : ~ Holds("send", j[v])
  <2>1. Puts(job[t])  BY <1>1 DEF Puts
  <2>2. HasRoom /\ portSem["send"].cnt = 0 /\ \A v \in Tasks \ {t} : ~ Puts(job[v])
    BY <2>1, Entitled
  <2>3. HasRoom'  BY <1>3, <2>2 DEF HasRoom, buffers
  <2>4. \A v \in Tasks : ~ Puts(j[v])  BY <1>2, <1>4, <2>2
  <2>5. QED  BY <2>2, <2>3, <2>4 DEF Holds
<1>7. RightOK("receive", j, portSem, HasChars')
  <2>1. \A v \in Tasks : Holds("receive", j[v]) <=> Holds("receive", job[v])
    BY <1>2, <1>4 DEF Holds
  <2>2. RightOK("receive", job, portSem, HasChars) /\ HasChars' = HasChars
    BY <1>3 DEF RightsInv, HasChars, buffers
  <2>3. QED  BY <2>1, <2>2, RightStays
<1>8. /\ port \in PORTS /\ port' = port /\ receiveBuffer' \in Seq(PortChar)
      /\ Len(receiveBuffer') <= receiveBufferSize
  BY <1>3 DEF RightsInv, buffers
<1>9. QED
  BY <1>1, <1>3, <1>4, <1>5, <1>6, <1>7, <1>8, SignalKeepsRights DEF Direction

\* A reader gives the right to get back and returns.
LEMMA SignalReceiveKeepsRights ==
  ASSUME RightsInv, NEW t \in Tasks, SignalReceive(t)
  PROVE  RightsInv'
<1> DEFINE j == [job EXCEPT ![t] = NoJob]
<1>1. /\ job[t] \in PortJob /\ JobOK(t, job[t]) /\ job[t].pc = "rsignal"
      /\ job \in PortJobs /\ portSem \in Semaphores /\ ~ errorFlag
  BY DEF RightsInv, PortJobs, SignalReceive
<1>2. Gets(job[t]) /\ ~ Puts(job[t])  BY <1>1 DEF Gets, Puts, JobOK
<1>3. NoJob \in PortJob /\ JobOK(t, NoJob) /\ ~ Puts(NoJob) /\ ~ Gets(NoJob)
  BY DEF NoJob, PortJob, PortPlace, JobOK, Puts, Gets, NoRead
<1>4. Signal("receive", j) /\ UNCHANGED <<buffers, port>>  BY DEF SignalReceive
<1>5. j \in PortJobs /\ j[t] = NoJob /\ \A v \in Tasks \ {t} : j[v] = job[v]
  BY <1>1, <1>3 DEF PortJobs
<1> HIDE DEF j
<1>6. (\A v \in Tasks : JobOK(v, j[v])) /\ \A r \in Direction : QueueOK(r, j, portSem)
  <2>1. \A v \in Tasks : JobOK(v, j[v])  BY <1>3, <1>5 DEF RightsInv
  <2>2. ASSUME NEW r \in Direction PROVE QueueOK(r, j, portSem)
    <3>1. QueueOK(r, job, portSem) /\ job[t].pc # "blocked"  BY <1>1 DEF RightsInv
    <3>2. QED  BY <1>1, <1>5, <3>1, QueuesStay
  <2>3. QED  BY <2>1, <2>2
<1>7. HasChars' /\ portSem["receive"].cnt = 0 /\ \A v \in Tasks : ~ Holds("receive", j[v])
  <2>1. HasChars /\ portSem["receive"].cnt = 0 /\ \A v \in Tasks \ {t} : ~ Gets(job[v])
    BY <1>2, Entitled
  <2>2. HasChars'  BY <1>4, <2>1 DEF HasChars, buffers
  <2>3. \A v \in Tasks : ~ Gets(j[v])  BY <1>3, <1>5, <2>1
  <2>4. QED  BY <2>1, <2>2, <2>3 DEF Holds
<1>8. RightOK("send", j, portSem, HasRoom')
  <2>1. \A v \in Tasks : Holds("send", j[v]) <=> Holds("send", job[v])
    BY <1>2, <1>3, <1>5 DEF Holds
  <2>2. RightOK("send", job, portSem, HasRoom) /\ HasRoom' = HasRoom
    BY <1>4 DEF RightsInv, HasRoom, buffers
  <2>3. QED  BY <2>1, <2>2, RightStays
<1>9. /\ port \in PORTS /\ port' = port /\ receiveBuffer' \in Seq(PortChar)
      /\ Len(receiveBuffer') <= receiveBufferSize
  BY <1>4 DEF RightsInv, buffers
<1>10. QED
  BY <1>1, <1>4, <1>5, <1>6, <1>7, <1>8, <1>9, SignalKeepsRights DEF Direction

\* The room that the interrupt makes in a full send buffer gives the right to put.
LEMMA TakeKeepsRights ==
  ASSUME RightsInv, sendBuffer \in Seq(PortItem), Len(sendBuffer) <= sendBufferSize,
         NEW n \in {0, 1}, n <= Len(sendBuffer), TakeFromSendBuffer(n),
         UNCHANGED <<receiveBuffer, port>>
  PROVE  RightsInv'
<1>1. /\ sendBuffer' \in Seq(PortItem) /\ Len(sendBuffer') = Len(sendBuffer) - n
      /\ sendBufferSize \in Nat
  BY PortAssumption DEF TakeFromSendBuffer
<1>2. HasChars' = HasChars  BY DEF HasChars
<1>3. CASE n > 0 /\ Len(sendBuffer) = sendBufferSize
  <2>1. Signal("send", job)  BY <1>3 DEF TakeFromSendBuffer
  <2>2. HasRoom'  BY <1>1, <1>3 DEF HasRoom
  <2>3. RightOK("send", job, portSem, HasRoom) /\ ~ HasRoom  BY <1>3 DEF RightsInv, HasRoom
  <2>4. portSem["send"].cnt = 0 /\ \A v \in Tasks : ~ Holds("send", job[v])
    BY <2>3 DEF RightOK
  <2>5. RightOK("receive", job, portSem, HasChars')  BY <1>2 DEF RightsInv
  <2>6. /\ job \in PortJobs /\ portSem \in Semaphores /\ ~ errorFlag /\ port \in PORTS
        /\ \A v \in Tasks : JobOK(v, job[v])
        /\ \A r \in Direction : QueueOK(r, job, portSem)
        /\ receiveBuffer' \in Seq(PortChar) /\ Len(receiveBuffer') <= receiveBufferSize
    BY DEF RightsInv
  <2>7. QED  BY <2>1, <2>2, <2>4, <2>5, <2>6, SignalKeepsRights DEF Direction
<1>4. CASE ~ (n > 0 /\ Len(sendBuffer) = sendBufferSize)
  <2>1. UNCHANGED <<portSem, job, errorFlag>>  BY <1>4 DEF TakeFromSendBuffer
  <2>2. HasRoom' <=> HasRoom  BY <1>1, <1>4 DEF HasRoom
  <2>3. HasRoom' = HasRoom  BY <2>2 DEF HasRoom
  <2>4. QED  BY <2>1, <2>3, RightsStay
<1>5. QED  BY <1>3, <1>4

\* The first character in an empty receive buffer gives the right to get.
LEMMA StoredKeepsRights ==
  ASSUME RightsInv, NEW c \in PortChar, Stored(c), port' = port
  PROVE  RightsInv'
<1>1. /\ receiveBuffer \in Seq(PortChar) /\ receiveBuffer' = Append(receiveBuffer, c)
      /\ Len(receiveBuffer) < receiveBufferSize /\ receiveBufferSize \in Nat
      /\ sendBuffer' = sendBuffer
  BY PortAssumption DEF RightsInv, Stored
<1>2. /\ receiveBuffer' \in Seq(PortChar) /\ Len(receiveBuffer') <= receiveBufferSize
      /\ receiveBuffer' # <<>>
  BY <1>1
<1>3. HasRoom' = HasRoom /\ HasChars' = TRUE  BY <1>1, <1>2 DEF HasRoom, HasChars
<1>4. CASE receiveBuffer = <<>>
  <2>1. Signal("receive", job)  BY <1>4 DEF Stored
  <2>2. RightOK("receive", job, portSem, HasChars) /\ ~ HasChars  BY <1>4 DEF RightsInv, HasChars
  <2>3. portSem["receive"].cnt = 0 /\ \A v \in Tasks : ~ Holds("receive", job[v])
    BY <2>2 DEF RightOK
  <2>4. RightOK("send", job, portSem, HasRoom')  BY <1>3 DEF RightsInv
  <2>5. /\ job \in PortJobs /\ portSem \in Semaphores /\ ~ errorFlag /\ port \in PORTS
        /\ \A v \in Tasks : JobOK(v, job[v])
        /\ \A r \in Direction : QueueOK(r, job, portSem)
    BY DEF RightsInv
  <2>6. QED  BY <1>2, <1>3, <2>1, <2>3, <2>4, <2>5, SignalKeepsRights DEF Direction
<1>5. CASE receiveBuffer # <<>>
  <2>1. UNCHANGED <<portSem, job, errorFlag>>  BY <1>5 DEF Stored
  <2>2. RightOK("receive", job, portSem, TRUE)  BY <1>5 DEF RightsInv, HasChars, RightOK
  <2>3. QED
    BY <1>2, <1>3, <2>1, <2>2 DEF RightsInv, JobOK, QueueOK, RightOK
<1>6. QED  BY <1>4, <1>5

\* A sequence without one of its items.
LEMMA OneLess ==
  ASSUME NEW w \in Seq(Tasks), NEW i \in 1 .. Len(w)
  PROVE  /\ RemoveAt(w, i) \in Seq(Tasks) /\ Len(RemoveAt(w, i)) = Len(w) - 1
         /\ \A k \in 1 .. Len(w) - 1 :
              RemoveAt(w, i)[k] = w[IF k < i THEN k ELSE k + 1]
<1>1. /\ SubSeq(w, 1, i - 1) \in Seq(Tasks) /\ Len(SubSeq(w, 1, i - 1)) = i - 1
      /\ \A k \in 1 .. i - 1 : SubSeq(w, 1, i - 1)[k] = w[k]
  OBVIOUS
<1>2. /\ SubSeq(w, i + 1, Len(w)) \in Seq(Tasks) /\ Len(SubSeq(w, i + 1, Len(w))) = Len(w) - i
      /\ \A k \in 1 .. Len(w) - i : SubSeq(w, i + 1, Len(w))[k] = w[i + k]
  OBVIOUS
<1>3. RemoveAt(w, i) = SubSeq(w, 1, i - 1) \o SubSeq(w, i + 1, Len(w))  BY DEF RemoveAt
<1> DEFINE a == SubSeq(w, 1, i - 1)
           b == SubSeq(w, i + 1, Len(w))
<1> HIDE DEF a, b
<1>4. /\ a \o b \in Seq(Tasks) /\ Len(a \o b) = Len(a) + Len(b)
      /\ \A k \in 1 .. Len(a) + Len(b) : (a \o b)[k] = IF k <= Len(a) THEN a[k] ELSE b[k - Len(a)]
  <2>1. a \in Seq(Tasks) /\ b \in Seq(Tasks)  BY <1>1, <1>2 DEF a, b
  <2>2. QED  BY <2>1
<1>5. /\ Len(a) = i - 1 /\ \A k \in 1 .. i - 1 : a[k] = w[k]
      /\ Len(b) = Len(w) - i /\ \A k \in 1 .. Len(w) - i : b[k] = w[i + k]
  BY <1>1, <1>2 DEF a, b
<1>6. RemoveAt(w, i) = a \o b  BY <1>3 DEF a, b
<1>7. i \in Nat /\ Len(w) \in Nat /\ 1 <= i /\ i <= Len(w)  OBVIOUS
<1>8. \A k \in 1 .. Len(w) - 1 : (a \o b)[k] = w[IF k < i THEN k ELSE k + 1]
  <2>1. ASSUME NEW k \in 1 .. Len(w) - 1 PROVE (a \o b)[k] = w[IF k < i THEN k ELSE k + 1]
    <3>1. CASE k < i  BY <1>4, <1>5, <1>7, <3>1
    <3>2. CASE ~ k < i
      <4>1. (a \o b)[k] = b[k - (i - 1)]  BY <1>4, <1>5, <1>7, <3>2
      <4>2. k - (i - 1) \in 1 .. Len(w) - i /\ i + (k - (i - 1)) = k + 1  BY <1>7, <3>2
      <4>3. QED  BY <1>5, <3>2, <4>1, <4>2
    <3>3. QED  BY <3>1, <3>2
  <2>2. QED  BY <2>1
<1>9. QED  BY <1>4, <1>5, <1>6, <1>7, <1>8

\* A task gives up its place in a list.
LEMMA GiveUpKeepsRights ==
  ASSUME RightsInv, NEW t \in Tasks, NEW s \in Direction, GiveUp(t, s), ~ Gets(job[t])
  PROVE  RightsInv'
<1> DEFINE w == portSem[s].wait
<1>1. /\ job \in PortJobs /\ portSem \in Semaphores /\ portSem[s].cnt \in {0, 1} /\ w \in Seq(Tasks)
      /\ JobOK(t, job[t]) /\ HasRoom' = HasRoom /\ HasChars' = HasChars /\ port' = port
      /\ receiveBuffer' = receiveBuffer /\ errorFlag' = errorFlag
  BY DEF RightsInv, Semaphores, GiveUp, buffers, HasRoom, HasChars
<1>2. \A r \in Direction : QueueOK(r, job, portSem)  BY DEF RightsInv
<1>3. PICK i \in 1 .. Len(w) : w[i] = t /\ portSem' = WithWait(portSem, s, RemoveAt(w, i))
  <2>1. PICK i \in DOMAIN w : w[i] = t /\ portSem' = [portSem EXCEPT ![s].wait = RemoveAt(@, i)]
    BY DEF GiveUp
  <2>2. portSem' = WithWait(portSem, s, RemoveAt(w, i))  BY <2>1 DEF WithWait
  <2>3. i \in 1 .. Len(w)  BY <1>1
  <2>4. QED  BY <2>1, <2>2, <2>3
<1>4. job[t].pc = "blocked" /\ (job[t].text = <<>> <=> s = "receive")
  BY <1>2, <1>3 DEF QueueOK
<1>5. NoJob \in PortJob /\ JobOK(t, NoJob) /\ ~ Puts(NoJob) /\ ~ Gets(NoJob)
  BY DEF NoJob, PortJob, PortPlace, JobOK, Puts, Gets, NoRead
<1>6. job' \in PortJobs /\ job'[t] = NoJob /\ \A v \in Tasks \ {t} : job'[v] = job[v]
  <2>1. job' = [job EXCEPT ![t] = NoJob]  BY DEF GiveUp
  <2>2. QED  BY <1>1, <1>5, <2>1 DEF PortJobs
<1> DEFINE x == RemoveAt(w, i)
<1>7. /\ x \in Seq(Tasks) /\ Len(x) = Len(w) - 1
      /\ \A k \in 1 .. Len(w) - 1 : x[k] = w[IF k < i THEN k ELSE k + 1]
  BY <1>1, <1>3, OneLess
<1> HIDE DEF x
<1>8. /\ portSem' \in Semaphores /\ portSem'[s].wait = x /\ portSem'[s].cnt = portSem[s].cnt
      /\ \A r \in Direction \ {s} : portSem'[r] = portSem[r]
  <2>1. portSem' = WithWait(portSem, s, x)  BY <1>3 DEF x
  <2>2. QED  BY <1>1, <1>7, <2>1, WaitChanged, Zenon
<1>9. QueueOK(s, job', portSem')
  <2>1. \A k \in 1 .. Len(x) : \E m \in 1 .. Len(w) : x[k] = w[m] /\ m # i
    <3>1. ASSUME NEW k \in 1 .. Len(x) PROVE \E m \in 1 .. Len(w) : x[k] = w[m] /\ m # i
      <4>1. CASE k < i  BY <1>1, <1>7, <3>1, <4>1
      <4>2. CASE ~ k < i
        <5>1. k + 1 \in 1 .. Len(w) /\ k + 1 # i /\ x[k] = w[k + 1]  BY <1>1, <1>7, <3>1, <4>2
        <5>2. QED  BY <5>1
      <4>3. QED  BY <4>1, <4>2
    <3>2. QED  BY <3>1
  <2>2. ASSUME NEW k \in 1 .. Len(x)
        PROVE  /\ x[k] \in Tasks \ {t}
               /\ job'[x[k]].pc = "blocked" /\ (job'[x[k]].text = <<>> <=> s = "receive")
    <3>1. PICK m \in 1 .. Len(w) : x[k] = w[m] /\ m # i  BY <2>1
    <3>2. \A a, b \in 1 .. Len(w) : w[a] = w[b] => a = b  BY <1>2 DEF QueueOK
    <3>3. w[m] # w[i]  BY <3>1, <3>2
    <3>4. w[m] \in Tasks  BY <1>1
    <3>5. job[w[m]].pc = "blocked" /\ (job[w[m]].text = <<>> <=> s = "receive")
      BY <1>2 DEF QueueOK
    <3>6. job'[x[k]] = job[w[m]]  BY <1>3, <1>6, <3>1, <3>3, <3>4
    <3>7. QED  BY <1>3, <3>1, <3>3, <3>4, <3>5, <3>6
  <2>3. \A k \in 1 .. Len(x) : /\ job'[x[k]].pc = "blocked"
                               /\ job'[x[k]].text = <<>> <=> s = "receive"
    BY <2>2
  <2>4. \A k, m \in 1 .. Len(x) : x[k] = x[m] => k = m
    <3>1. \A k, m \in 1 .. Len(w) : w[k] = w[m] => k = m  BY <1>2 DEF QueueOK
    <3>2. ASSUME NEW k \in 1 .. Len(x), NEW m \in 1 .. Len(x), x[k] = x[m] PROVE k = m
      <4> DEFINE p(n) == IF n < i THEN n ELSE n + 1
      <4>1. k \in 1 .. Len(w) - 1 /\ m \in 1 .. Len(w) - 1  BY <1>1, <1>7
      <4>2. x[k] = w[p(k)] /\ x[m] = w[p(m)]  BY <1>7, <4>1
      <4>3. p(k) \in 1 .. Len(w) /\ p(m) \in 1 .. Len(w)  BY <1>1, <4>1
      <4>4. p(k) = p(m)  BY <3>1, <3>2, <4>2, <4>3
      <4>5. QED  BY <4>1, <4>4
    <3>3. QED  BY <3>2
  <2>5. x # <<>> => portSem[s].cnt = 0
    <3>1. w # <<>>  BY <1>3
    <3>2. QED  BY <1>2, <3>1 DEF QueueOK
  <2>6. QED  BY <1>8, <2>3, <2>4, <2>5 DEF QueueOK
<1>10. ASSUME NEW r \in Direction \ {s} PROVE QueueOK(r, job', portSem')
  <2>1. \A k \in 1 .. Len(portSem[r].wait) : portSem[r].wait[k] \in Tasks \ {t}
    BY <1>1, <1>2, <1>4 DEF QueueOK, Direction, Semaphores
  <2>2. portSem'[r] = portSem[r] /\ QueueOK(r, job, portSem)  BY <1>2, <1>8
  <2>3. \A k \in 1 .. Len(portSem[r].wait) : job'[portSem[r].wait[k]] = job[portSem[r].wait[k]]
    BY <1>6, <2>1
  <2>4. QED  BY <2>2, <2>3 DEF QueueOK
<1>11. ASSUME NEW r \in Direction
       PROVE  RightOK(r, job', portSem', IF r = "send" THEN HasRoom ELSE HasChars)
  <2>1. RightOK(r, job, portSem, IF r = "send" THEN HasRoom ELSE HasChars)
    BY DEF RightsInv, Direction
  <2>2. \A v \in Tasks : Holds(r, job'[v]) <=> Holds(r, job[v])
    BY <1>4, <1>5, <1>6 DEF Holds, Puts
  <2>3. portSem'[r].cnt = portSem[r].cnt  BY <1>8
  <2>4. QED  BY <2>1, <2>2, <2>3, RightStays
<1>12. \A v \in Tasks : JobOK(v, job'[v])  BY <1>5, <1>6 DEF RightsInv
<1>13. QED
  <2>1. RightOK("send", job', portSem', HasRoom) /\ RightOK("receive", job', portSem', HasChars)
    BY <1>11 DEF Direction
  <2>2. \A r \in Direction : QueueOK(r, job', portSem')  BY <1>9, <1>10
  <2>3. QED  BY <1>1, <1>6, <1>8, <1>12, <2>1, <2>2 DEF RightsInv, JobOK, Direction

----------------------------------------------------------------------------
\* The line: what is under way are the next characters of each task, in order.

InOrder(u, t, tr, wr) ==
  /\ tr <= wr
  /\ \A i \in 1 .. Len(u) : u[i].from = t => u[i].n \in tr + 1 .. wr
  /\ \A n \in tr + 1 .. wr : \E i \in 1 .. Len(u) : u[i].from = t /\ u[i].n = n
  /\ \A i, j \in 1 .. Len(u) : u[i].from = t /\ u[j].from = t /\ i < j => u[i].n < u[j].n

Under == txReg \o sendBuffer
LineTypes ==
  /\ sendBuffer \in Seq(PortItem) /\ Len(sendBuffer) <= sendBufferSize
  /\ txReg \in Seq(PortItem) /\ Len(txReg) <= 1
  /\ transmitted \in [Tasks -> Nat] /\ written \in [Tasks -> Nat]
  /\ receiveFlowControl \in {NoFlow, "STOP", "START"}
AllInOrder == \A t \in Tasks : InOrder(Under, t, transmitted[t], written[t])
LineInv == LineTypes /\ AllInOrder /\ PendingIsDrained

\* One more character at the end.
LEMMA OneMoreInOrder ==
  ASSUME NEW u \in Seq(PortItem), NEW v \in Seq(PortItem), NEW t, NEW tr \in Nat, NEW wr \in Nat,
         InOrder(u, t, tr, wr), Len(v) = Len(u) + 1, \A i \in 1 .. Len(u) : v[i] = u[i],
         NEW up \in Nat,
         \/ v[Len(v)].from = t /\ v[Len(v)].n = wr + 1 /\ up = wr + 1
         \/ v[Len(v)].from # t /\ up = wr
  PROVE  InOrder(v, t, tr, up)
<1> DEFINE m == Len(u)
<1>1. m \in Nat /\ Len(v) = m + 1 /\ \A i \in 1 .. Len(v) : i \in 1 .. m \/ i = m + 1
  OBVIOUS
<1>2. /\ tr <= wr
      /\ \A i \in 1 .. m : u[i].from = t => u[i].n \in tr + 1 .. wr
      /\ \A n \in tr + 1 .. wr : \E i \in 1 .. m : u[i].from = t /\ u[i].n = n
      /\ \A i, j \in 1 .. m : u[i].from = t /\ u[j].from = t /\ i < j => u[i].n < u[j].n
  BY DEF InOrder
<1> HIDE DEF m
<1>3. wr <= up /\ \A i \in 1 .. m : v[i] = u[i]  BY DEF m
<1>4. tr <= up  BY <1>2, <1>3
<1>5. \A i \in 1 .. Len(v) : v[i].from = t => v[i].n \in tr + 1 .. up
  BY <1>1, <1>2, <1>3
<1>6. ASSUME NEW n \in tr + 1 .. up
      PROVE  \E i \in 1 .. Len(v) : v[i].from = t /\ v[i].n = n
  <2>1. CASE n \in tr + 1 .. wr
    <3>1. PICK i \in 1 .. m : u[i].from = t /\ u[i].n = n  BY <1>2, <2>1
    <3>2. i \in 1 .. Len(v) /\ v[i] = u[i]  BY <1>1, <1>3
    <3>3. QED  BY <3>1, <3>2
  <2>2. CASE n = wr + 1  BY <1>1, <2>2
  <2>3. QED  BY <2>1, <2>2
<1>7. ASSUME NEW i \in 1 .. Len(v), NEW j \in 1 .. Len(v), v[i].from = t, v[j].from = t, i < j
      PROVE  v[i].n < v[j].n
  <2>1. i \in 1 .. m  BY <1>1, <1>7
  <2>2. CASE j \in 1 .. m  BY <1>2, <1>3, <1>7, <2>1, <2>2
  <2>3. CASE j = m + 1
    <3>1. v[i].n \in tr + 1 .. wr /\ v[j].n = wr + 1  BY <1>1, <1>2, <1>3, <1>7, <2>1, <2>3
    <3>2. QED  BY <3>1
  <2>4. QED  BY <1>1, <2>2, <2>3
<1>8. QED  BY <1>4, <1>5, <1>6, <1>7 DEF InOrder

\* A character before all, which is of no task.
LEMMA FlowInOrder ==
  ASSUME NEW u \in Seq(PortItem), NEW v \in Seq(PortItem), NEW t, NEW tr \in Nat, NEW wr \in Nat,
         InOrder(u, t, tr, wr), Len(v) = Len(u) + 1, \A i \in 1 .. Len(u) : v[i + 1] = u[i],
         v[1].from # t
  PROVE  InOrder(v, t, tr, wr)
<1>1. ASSUME NEW i \in 1 .. Len(v), v[i].from = t
      PROVE  i - 1 \in 1 .. Len(u) /\ v[i] = u[i - 1]
  <2>1. i # 1  BY <1>1
  <2>2. i - 1 \in 1 .. Len(u) /\ (i - 1) + 1 = i  BY <2>1
  <2>3. QED  BY <2>2
<1>2. ASSUME NEW i \in 1 .. Len(v), v[i].from = t PROVE v[i].n \in tr + 1 .. wr
  <2>1. i - 1 \in 1 .. Len(u) /\ v[i] = u[i - 1]  BY <1>1, <1>2
  <2>2. \A a \in 1 .. Len(u) : u[a].from = t => u[a].n \in tr + 1 .. wr  BY DEF InOrder
  <2>3. QED  BY <1>2, <2>1, <2>2
<1>3. ASSUME NEW n \in tr + 1 .. wr
      PROVE  \E i \in 1 .. Len(v) : v[i].from = t /\ v[i].n = n
  <2>1. PICK i \in 1 .. Len(u) : u[i].from = t /\ u[i].n = n  BY DEF InOrder
  <2>2. i + 1 \in 1 .. Len(v) /\ v[i + 1] = u[i]  OBVIOUS
  <2>3. QED  BY <2>1, <2>2
<1>4. ASSUME NEW i \in 1 .. Len(v), NEW j \in 1 .. Len(v), v[i].from = t, v[j].from = t, i < j
      PROVE  v[i].n < v[j].n
  <2>1. /\ i - 1 \in 1 .. Len(u) /\ v[i] = u[i - 1] /\ j - 1 \in 1 .. Len(u) /\ v[j] = u[j - 1]
        /\ i - 1 < j - 1
    BY <1>1, <1>4
  <2>2. \A a, b \in 1 .. Len(u) : u[a].from = t /\ u[b].from = t /\ a < b => u[a].n < u[b].n
    BY DEF InOrder
  <2>3. u[i - 1].from = t /\ u[j - 1].from = t  BY <1>4, <2>1
  <2>4. u[i - 1].n < u[j - 1].n  BY <2>1, <2>2, <2>3
  <2>5. QED  BY <2>1, <2>4
<1>5. QED  BY <1>2, <1>3, <1>4 DEF InOrder

\* Only the characters count, not the place where they wait.
LEMMA SameInOrder ==
  ASSUME NEW u, NEW v, NEW t, NEW tr, NEW wr, InOrder(u, t, tr, wr), Len(v) = Len(u),
         \A i \in 1 .. Len(u) : v[i] = u[i]
  PROVE  InOrder(v, t, tr, wr)
<1>1. \A i \in 1 .. Len(v) : v[i].from = t => v[i].n \in tr + 1 .. wr  BY DEF InOrder
<1>2. \A n \in tr + 1 .. wr : \E i \in 1 .. Len(v) : v[i].from = t /\ v[i].n = n
  <2> SUFFICES ASSUME NEW n \in tr + 1 .. wr
               PROVE  \E i \in 1 .. Len(v) : v[i].from = t /\ v[i].n = n
    OBVIOUS
  <2>1. PICK i \in 1 .. Len(u) : u[i].from = t /\ u[i].n = n  BY DEF InOrder
  <2>2. QED  BY <2>1
<1>3. ASSUME NEW i \in 1 .. Len(v), NEW j \in 1 .. Len(v), v[i].from = t, v[j].from = t, i < j
      PROVE  v[i].n < v[j].n
  BY <1>3 DEF InOrder
<1>4. QED  BY <1>1, <1>2, <1>3 DEF InOrder

\* The first character leaves: it is the next of its task.
LEMMA FirstLeaves ==
  ASSUME NEW u \in Seq(PortItem), NEW v \in Seq(PortItem), NEW t, NEW tr \in Nat, NEW wr \in Nat,
         InOrder(u, t, tr, wr), Len(u) = Len(v) + 1, \A i \in 1 .. Len(v) : u[i + 1] = v[i],
         NEW up \in Nat,
         \/ u[1].from = t /\ up = u[1].n
         \/ u[1].from # t /\ up = tr
  PROVE  InOrder(v, t, up, wr)
<1>1. 1 \in 1 .. Len(u) /\ Len(v) \in Nat  OBVIOUS
<1>2. CASE u[1].from = t /\ up = u[1].n
  <2>1. u[1].n \in tr + 1 .. wr  BY <1>1, <1>2 DEF InOrder
  <2>2. PICK k \in 1 .. Len(u) : u[k].from = t /\ u[k].n = tr + 1
    <3>1. tr + 1 \in tr + 1 .. wr  BY <2>1
    <3>2. \A n \in tr + 1 .. wr : \E i \in 1 .. Len(u) : u[i].from = t /\ u[i].n = n
      BY DEF InOrder
    <3>3. QED  BY <3>1, <3>2
  <2>3. k = 1
    <3>1. CASE k > 1
      <4>1. u[1].n < u[k].n  BY <1>1, <1>2, <2>2, <3>1 DEF InOrder
      <4>2. QED  BY <2>1, <2>2, <4>1
    <3>2. QED  BY <3>1
  <2>4. up = tr + 1 /\ up <= wr  BY <1>2, <2>1, <2>2, <2>3
  <2>5. ASSUME NEW i \in 1 .. Len(v), v[i].from = t PROVE v[i].n \in up + 1 .. wr
    <3>1. i + 1 \in 1 .. Len(u) /\ u[i + 1] = v[i] /\ 1 < i + 1  OBVIOUS
    <3>2. u[1].n < u[i + 1].n  BY <1>1, <1>2, <2>5, <3>1 DEF InOrder
    <3>3. u[i + 1].n \in tr + 1 .. wr  BY <2>5, <3>1 DEF InOrder
    <3>4. v[i].n = u[i + 1].n /\ up = u[1].n  BY <1>2, <3>1
    <3>5. v[i].n \in tr + 1 .. wr /\ up < v[i].n  BY <3>2, <3>3, <3>4
    <3>6. QED  BY <3>5
  <2>6. ASSUME NEW n \in up + 1 .. wr PROVE \E i \in 1 .. Len(v) : v[i].from = t /\ v[i].n = n
    <3>1. n \in tr + 1 .. wr /\ n # up  BY <2>4
    <3>2. PICK i \in 1 .. Len(u) : u[i].from = t /\ u[i].n = n  BY <3>1 DEF InOrder
    <3>3. i # 1  BY <1>2, <3>1, <3>2
    <3>4. i - 1 \in 1 .. Len(v) /\ (i - 1) + 1 = i  BY <1>1, <3>3
    <3>5. QED  BY <3>2, <3>4
  <2>7. ASSUME NEW i \in 1 .. Len(v), NEW j \in 1 .. Len(v), v[i].from = t, v[j].from = t, i < j
        PROVE  v[i].n < v[j].n
    <3>1. /\ i + 1 \in 1 .. Len(u) /\ u[i + 1] = v[i] /\ j + 1 \in 1 .. Len(u) /\ u[j + 1] = v[j]
          /\ i + 1 < j + 1
      BY <2>7
    <3>2. \A a, b \in 1 .. Len(u) : u[a].from = t /\ u[b].from = t /\ a < b => u[a].n < u[b].n
      BY DEF InOrder
    <3>3. u[i + 1].from = t /\ u[j + 1].from = t  BY <2>7, <3>1
    <3>4. u[i + 1].n < u[j + 1].n  BY <3>1, <3>2, <3>3
    <3>5. QED  BY <3>1, <3>4
  <2>8. QED  BY <2>4, <2>5, <2>6, <2>7 DEF InOrder
<1>3. CASE u[1].from # t /\ up = tr
  <2>1. tr <= wr  BY DEF InOrder
  <2>2. ASSUME NEW i \in 1 .. Len(v), v[i].from = t PROVE v[i].n \in tr + 1 .. wr
    <3>1. i + 1 \in 1 .. Len(u) /\ u[i + 1] = v[i]  OBVIOUS
    <3>2. QED  BY <2>2, <3>1 DEF InOrder
  <2>3. ASSUME NEW n \in tr + 1 .. wr PROVE \E i \in 1 .. Len(v) : v[i].from = t /\ v[i].n = n
    <3>1. PICK i \in 1 .. Len(u) : u[i].from = t /\ u[i].n = n  BY DEF InOrder
    <3>2. i # 1  BY <1>3, <3>1
    <3>3. i - 1 \in 1 .. Len(v) /\ (i - 1) + 1 = i  BY <1>1, <3>2
    <3>4. QED  BY <3>1, <3>3
  <2>4. ASSUME NEW i \in 1 .. Len(v), NEW j \in 1 .. Len(v), v[i].from = t, v[j].from = t, i < j
        PROVE  v[i].n < v[j].n
    <3>1. /\ i + 1 \in 1 .. Len(u) /\ u[i + 1] = v[i] /\ j + 1 \in 1 .. Len(u) /\ u[j + 1] = v[j]
          /\ i + 1 < j + 1
      BY <2>4
    <3>2. \A a, b \in 1 .. Len(u) : u[a].from = t /\ u[b].from = t /\ a < b => u[a].n < u[b].n
      BY DEF InOrder
    <3>3. u[i + 1].from = t /\ u[j + 1].from = t  BY <2>4, <3>1
    <3>4. u[i + 1].n < u[j + 1].n  BY <3>1, <3>2, <3>3
    <3>5. QED  BY <3>1, <3>4
  <2>5. QED  BY <1>3, <2>1, <2>2, <2>3, <2>4 DEF InOrder
<1>4. QED  BY <1>2, <1>3

\* The items of two sequences, one after the other.
LEMMA Joined ==
  ASSUME NEW a \in Seq(PortItem), NEW b \in Seq(PortItem)
  PROVE  /\ a \o b \in Seq(PortItem) /\ Len(a \o b) = Len(a) + Len(b)
         /\ \A i \in 1 .. Len(a) : (a \o b)[i] = a[i]
         /\ \A i \in 1 .. Len(b) : (a \o b)[Len(a) + i] = b[i]
OBVIOUS

\* Nothing that the line depends on changes.
LEMMA LineStays ==
  ASSUME LineInv,
         UNCHANGED <<sendBuffer, txReg, transmitted, written, receiveFlowControl,
                     sendStopped, txEnabled>>
  PROVE  LineInv'
BY DEF LineInv, LineTypes, AllInOrder, Under, PendingIsDrained

\* A character is put behind those that are under way.
LEMMA PutKeepsLine ==
  ASSUME LineInv, NEW t \in Tasks, NEW c \in PortChar, HasRoom, Put(t, c),
         UNCHANGED <<transmitted, receiveFlowControl, sendStopped>>
  PROVE  LineInv'
<1> DEFINE x == [from |-> t, n |-> written[t] + 1, c |-> c]
<1>1. /\ sendBuffer \in Seq(PortItem) /\ Len(sendBuffer) <= sendBufferSize
      /\ txReg \in Seq(PortItem) /\ Len(txReg) <= 1
      /\ transmitted \in [Tasks -> Nat] /\ written \in [Tasks -> Nat] /\ sendBufferSize \in Nat
  BY PortAssumption DEF LineInv, LineTypes
<1>2. x \in PortItem /\ x.from = t /\ x.n = written[t] + 1  BY <1>1 DEF PortItem
<1>3. \/ /\ Direct /\ txReg' = <<x>> /\ UNCHANGED <<sendBuffer, txEnabled>>
      \/ /\ ~ Direct /\ sendBuffer' = Append(sendBuffer, x) /\ txReg' = txReg
         /\ txEnabled' = (txEnabled \/ (sendBuffer = <<>> /\ ~ sendStopped))
  BY DEF Put
<1>4. written' = [written EXCEPT ![t] = @ + 1]  BY DEF Put
<1> HIDE DEF x
<1>5. /\ written' \in [Tasks -> Nat] /\ written'[t] = written[t] + 1
      /\ \A v \in Tasks \ {t} : written'[v] = written[v]
  BY <1>1, <1>4
<1>6. /\ sendBuffer' \in Seq(PortItem) /\ Len(sendBuffer') <= sendBufferSize
      /\ txReg' \in Seq(PortItem) /\ Len(txReg') <= 1
      /\ Len(Under') = Len(Under) + 1 /\ Under'[Len(Under')] = x
      /\ \A i \in 1 .. Len(Under) : Under'[i] = Under[i]
  <2>1. CASE Direct /\ txReg' = <<x>> /\ UNCHANGED <<sendBuffer, txEnabled>>
    <3>1. sendBuffer = <<>> /\ txReg = <<>> /\ sendBuffer' = <<>> /\ txReg' = <<x>>
      BY <2>1 DEF Direct, Writable
    <3>2. Under = <<>> /\ Under' = <<x>>  BY <1>2, <3>1 DEF Under
    <3>3. QED  BY <1>1, <1>2, <3>1, <3>2
  <2>2. CASE ~ Direct /\ sendBuffer' = Append(sendBuffer, x) /\ txReg' = txReg
    <3>1. /\ sendBuffer' \in Seq(PortItem) /\ Len(sendBuffer') = Len(sendBuffer) + 1
          /\ sendBuffer'[Len(sendBuffer) + 1] = x
          /\ \A i \in 1 .. Len(sendBuffer) : sendBuffer'[i] = sendBuffer[i]
      BY <1>1, <1>2, <2>2
    <3>2. Len(sendBuffer') <= sendBufferSize  BY <1>1, <3>1 DEF HasRoom
    <3>3. Under = txReg \o sendBuffer /\ Under' = txReg \o sendBuffer'  BY <2>2 DEF Under
    <3> DEFINE a == txReg \o sendBuffer
               b == txReg \o sendBuffer'
    <3>4. /\ Len(a) = Len(txReg) + Len(sendBuffer)
          /\ \A i \in 1 .. Len(txReg) : a[i] = txReg[i]
          /\ \A i \in 1 .. Len(sendBuffer) : a[Len(txReg) + i] = sendBuffer[i]
      BY <1>1, Joined
    <3>5. /\ Len(b) = Len(txReg) + Len(sendBuffer')
          /\ \A i \in 1 .. Len(txReg) : b[i] = txReg[i]
          /\ \A i \in 1 .. Len(sendBuffer') : b[Len(txReg) + i] = sendBuffer'[i]
      BY <1>1, <3>1, Joined
    <3> HIDE DEF a, b
    <3>6. Len(b) = Len(a) + 1 /\ b[Len(b)] = x
      <4>1. /\ Len(b) = Len(txReg) + (Len(sendBuffer) + 1)
            /\ Len(sendBuffer) + 1 \in 1 .. Len(sendBuffer')
        BY <1>1, <3>1, <3>5
      <4>2. b[Len(txReg) + (Len(sendBuffer) + 1)] = x  BY <3>1, <3>5, <4>1
      <4>3. QED  BY <1>1, <3>1, <3>4, <4>1, <4>2
    <3>7. ASSUME NEW i \in 1 .. Len(a) PROVE b[i] = a[i]
      <4>1. CASE i \in 1 .. Len(txReg)  BY <3>4, <3>5, <4>1
      <4>2. CASE i \notin 1 .. Len(txReg)
        <5>1. i - Len(txReg) \in 1 .. Len(sendBuffer) /\ Len(txReg) + (i - Len(txReg)) = i
          BY <1>1, <3>4, <4>2
        <5>2. i - Len(txReg) \in 1 .. Len(sendBuffer')  BY <1>1, <3>1, <5>1
        <5>3. a[i] = sendBuffer[i - Len(txReg)] /\ b[i] = sendBuffer'[i - Len(txReg)]
          BY <3>4, <3>5, <5>1, <5>2
        <5>4. QED  BY <3>1, <5>1, <5>3
      <4>3. QED  BY <4>1, <4>2
    <3>8. Under = a /\ Under' = b  BY <3>3 DEF a, b
    <3>9. QED  BY <1>1, <2>2, <3>1, <3>2, <3>6, <3>7, <3>8
  <2>3. QED  BY <1>3, <2>1, <2>2
<1>7. Under \in Seq(PortItem) /\ Under' \in Seq(PortItem)  BY <1>1, <1>6, Joined DEF Under
<1>8. AllInOrder'
  <2>1. ASSUME NEW v \in Tasks PROVE InOrder(Under', v, transmitted[v], written'[v])
    <3>1. /\ InOrder(Under, v, transmitted[v], written[v]) /\ transmitted[v] \in Nat
          /\ written[v] \in Nat /\ written'[v] \in Nat
      BY <1>1, <1>5 DEF LineInv, AllInOrder
    <3>2. \/ /\ Under'[Len(Under')].from = v /\ Under'[Len(Under')].n = written[v] + 1
             /\ written'[v] = written[v] + 1
          \/ Under'[Len(Under')].from # v /\ written'[v] = written[v]
      BY <1>2, <1>5, <1>6
    <3>3. QED  BY <1>6, <1>7, <3>1, <3>2, OneMoreInOrder
  <2>2. QED  BY <2>1 DEF AllInOrder
<1>9. PendingIsDrained'
  <2>1. PendingIsDrained  BY DEF LineInv
  <2>2. CASE Direct /\ txReg' = <<x>> /\ UNCHANGED <<sendBuffer, txEnabled>>
    BY <2>1, <2>2, Zenon DEF PendingIsDrained
  <2>3. CASE /\ ~ Direct /\ sendBuffer' = Append(sendBuffer, x) /\ txReg' = txReg
             /\ txEnabled' = (txEnabled \/ (sendBuffer = <<>> /\ ~ sendStopped))
    BY <2>1, <2>3, Zenon DEF PendingIsDrained
  <2>4. QED  BY <1>3, <2>2, <2>3
<1>10. LineTypes'  BY <1>1, <1>5, <1>6 DEF LineInv, LineTypes
<1>11. QED  BY <1>8, <1>9, <1>10 DEF LineInv

\* A character of the flow control goes into the register, if that is empty.
LEMMA FlowKeepsLine ==
  ASSUME LineTypes, AllInOrder, NEW c \in PortChar, txReg = <<>>, txReg' = <<Flow(c)>>,
         UNCHANGED <<sendBuffer, transmitted, written>>,
         receiveFlowControl' \in {NoFlow, "STOP", "START"}
  PROVE  LineTypes' /\ AllInOrder'
<1>1. /\ sendBuffer \in Seq(PortItem) /\ transmitted \in [Tasks -> Nat]
      /\ written \in [Tasks -> Nat]
  BY DEF LineTypes
<1>2. Flow(c) \in PortItem /\ Flow(c).from = "port"  BY DEF Flow, PortItem
<1>3. txReg' \in Seq(PortItem) /\ Len(txReg') = 1 /\ txReg'[1] = Flow(c)  BY <1>2
<1>4. Under \in Seq(PortItem) /\ Under = sendBuffer  BY <1>1 DEF Under
<1>5. /\ Under' \in Seq(PortItem) /\ Len(Under') = Len(Under) + 1 /\ Under'[1] = Flow(c)
      /\ \A i \in 1 .. Len(Under) : Under'[i + 1] = Under[i]
  <2>1. Under' = txReg' \o sendBuffer  BY DEF Under
  <2> DEFINE a == txReg' \o sendBuffer
  <2>2. /\ a \in Seq(PortItem) /\ Len(a) = 1 + Len(sendBuffer) /\ a[1] = txReg'[1]
        /\ \A i \in 1 .. Len(sendBuffer) : a[1 + i] = sendBuffer[i]
    BY <1>1, <1>3, Joined
  <2> HIDE DEF a
  <2>3. Under' = a  BY <2>1 DEF a
  <2>4. QED  BY <1>1, <1>3, <1>4, <2>2, <2>3
<1>6. ASSUME NEW v \in Tasks PROVE InOrder(Under', v, transmitted[v], written[v])
  <2>1. Under'[1].from # v  BY <1>2, <1>5, PortAssumption
  <2>2. /\ InOrder(Under, v, transmitted[v], written[v])
        /\ transmitted[v] \in Nat /\ written[v] \in Nat
    BY <1>1 DEF AllInOrder
  <2>3. QED  BY <1>4, <1>5, <2>1, <2>2, FlowInOrder
<1>7. AllInOrder'  BY <1>6 DEF AllInOrder
<1>8. QED  BY <1>1, <1>3, <1>7 DEF LineTypes

\* A character of the flow control goes out at once or is left to the interrupt.
LEMMA SendFlowKeepsLine ==
  ASSUME LineInv, NEW c \in {"STOP", "START"}, SendFlow(c),
         UNCHANGED <<sendBuffer, transmitted, written, sendStopped>>
  PROVE  LineInv'
<1>1. LineTypes /\ AllInOrder /\ PendingIsDrained  BY DEF LineInv
<1>2. CASE Writable
  <2>1. txReg = <<>> /\ txReg' = <<Flow(c)>> /\ UNCHANGED <<txEnabled, receiveFlowControl>>
    BY <1>2 DEF SendFlow, Writable
  <2>2. LineTypes' /\ AllInOrder'
    <3>1. c \in PortChar /\ receiveFlowControl' \in {NoFlow, "STOP", "START"}
      BY <1>1, <2>1 DEF PortChar, LineTypes
    <3>2. QED  BY <1>1, <2>1, <3>1, FlowKeepsLine
  <2>3. PendingIsDrained'  BY <1>1, <2>1, Zenon DEF PendingIsDrained
  <2>4. QED  BY <2>2, <2>3 DEF LineInv
<1>3. CASE ~ Writable
  <2>1. txEnabled' = TRUE /\ receiveFlowControl' = c /\ txReg' = txReg
    BY <1>3 DEF SendFlow
  <2>2. LineTypes' /\ AllInOrder'
    BY <1>1, <2>1 DEF LineTypes, AllInOrder, Under
  <2>3. PendingIsDrained'  BY <2>1 DEF PendingIsDrained
  <2>4. QED  BY <2>2, <2>3 DEF LineInv
<1>4. QED  BY <1>2, <1>3

\* The first character of the send buffer goes into the register.
LEMMA TakeKeepsLine ==
  ASSUME LineTypes, AllInOrder, txReg = <<>>, sendBuffer # <<>>, txReg' = <<sendBuffer[1]>>,
         sendBuffer' = SubSeq(sendBuffer, 2, Len(sendBuffer)),
         UNCHANGED <<transmitted, written, receiveFlowControl>>
  PROVE  LineTypes' /\ AllInOrder'
<1>1. /\ sendBuffer \in Seq(PortItem) /\ Len(sendBuffer) <= sendBufferSize /\ sendBufferSize \in Nat
      /\ Len(sendBuffer) > 0 /\ sendBuffer[1] \in PortItem
  BY PortAssumption DEF LineTypes
<1>2. /\ sendBuffer' \in Seq(PortItem) /\ Len(sendBuffer') = Len(sendBuffer) - 1
      /\ \A i \in 1 .. Len(sendBuffer) - 1 : sendBuffer'[i] = sendBuffer[i + 1]
  BY <1>1
<1>3. txReg' \in Seq(PortItem) /\ Len(txReg') = 1 /\ txReg'[1] = sendBuffer[1]  BY <1>1
<1>4. Under = sendBuffer  BY <1>1 DEF Under
<1>5. Len(Under') = Len(Under) /\ \A i \in 1 .. Len(Under) : Under'[i] = Under[i]
  <2>1. Under' = txReg' \o sendBuffer'  BY DEF Under
  <2> DEFINE a == txReg' \o sendBuffer'
  <2>2. /\ Len(a) = 1 + Len(sendBuffer') /\ a[1] = txReg'[1]
        /\ \A i \in 1 .. Len(sendBuffer') : a[1 + i] = sendBuffer'[i]
    BY <1>2, <1>3, Joined
  <2> HIDE DEF a
  <2>3. Len(a) = Len(sendBuffer)  BY <1>1, <1>2, <2>2
  <2>4. ASSUME NEW i \in 1 .. Len(sendBuffer) PROVE a[i] = sendBuffer[i]
    <3>1. CASE i = 1  BY <1>3, <2>2, <3>1
    <3>2. CASE i # 1
      <4>1. i - 1 \in 1 .. Len(sendBuffer') /\ 1 + (i - 1) = i /\ (i - 1) + 1 = i
            /\ i - 1 \in 1 .. Len(sendBuffer) - 1
        BY <1>1, <1>2, <3>2
      <4>2. a[i] = sendBuffer'[i - 1] /\ sendBuffer'[i - 1] = sendBuffer[i]  BY <1>2, <2>2, <4>1
      <4>3. QED  BY <4>2
    <3>3. QED  BY <3>1, <3>2
  <2>5. Under' = a  BY <2>1 DEF a
  <2>6. QED  BY <1>4, <2>3, <2>4, <2>5
<1>6. AllInOrder'
  <2> SUFFICES ASSUME NEW v \in Tasks PROVE InOrder(Under', v, transmitted'[v], written'[v])
    BY DEF AllInOrder
  <2>1. InOrder(Under, v, transmitted[v], written[v])  BY DEF AllInOrder
  <2>2. QED  BY <1>5, <2>1, SameInOrder
<1>7. LineTypes'  BY <1>1, <1>2, <1>3 DEF LineTypes
<1>8. QED  BY <1>6, <1>7

\* The register holds one character or none.
LEMMA OneItem ==
  ASSUME NEW r \in Seq(PortItem), r # <<>>, Len(r) <= 1
  PROVE  Len(r) = 1 /\ Head(r) = r[1] /\ r[1] \in PortItem
<1> DEFINE n == Len(r)
<1>1. n \in Nat /\ n # 0 /\ n <= 1  OBVIOUS
<1> HIDE DEF n
<1>2. n = 1  BY <1>1
<1>3. QED  BY <1>2 DEF n

\* A sequence of the first item alone.
LEMMA OneTaken ==
  ASSUME NEW r \in Seq(PortItem), r # <<>>
  PROVE  SubSeq(r, 1, 1) = <<r[1]>>
<1> DEFINE q == SubSeq(r, 1, 1)
           n == Len(r)
<1>1. n \in Nat /\ n # 0  OBVIOUS
<1> HIDE DEF n
<1>2. 1 <= n  BY <1>1
<1>3. q \in Seq(PortItem) /\ Len(q) = 1 /\ q[1] = r[1]  BY <1>2 DEF n
<1> HIDE DEF q
<1>4. q = <<q[1]>>  BY <1>3
<1>5. QED  BY <1>3, <1>4 DEF q

\* The character in the register leaves: the next of its task, or one of no task.
LEMMA TransmitKeepsLine ==
  ASSUME LineInv, Transmit
  PROVE  LineInv'
<1>1. /\ sendBuffer \in Seq(PortItem) /\ txReg \in Seq(PortItem) /\ Len(txReg) = 1
      /\ transmitted \in [Tasks -> Nat] /\ written \in [Tasks -> Nat]
      /\ UNCHANGED <<sendBuffer, written, receiveFlowControl, sendStopped, txEnabled>>
      /\ txReg' = <<>>
  <2>1. txReg # <<>> /\ txReg \in Seq(PortItem) /\ Len(txReg) <= 1
    BY DEF LineInv, LineTypes, Transmit
  <2>3. Len(txReg) = 1  BY <2>1, OneItem
  <2>4. /\ sendBuffer \in Seq(PortItem) /\ transmitted \in [Tasks -> Nat]
        /\ written \in [Tasks -> Nat]
    BY DEF LineInv, LineTypes
  <2>5. /\ UNCHANGED <<sendBuffer, written, receiveFlowControl, sendStopped, txEnabled>>
        /\ txReg' = <<>>
    BY DEF Transmit, buffers, flow
  <2>6. QED  BY <2>1, <2>3, <2>4, <2>5
<1> DEFINE x == txReg[1]
<1>2. x \in PortItem /\ Head(txReg) = x /\ x.from \in Tasks \cup {"port"} /\ x.n \in Nat
  <2>1. txReg # <<>>  BY DEF Transmit
  <2>2. x \in PortItem /\ Head(txReg) = x  BY <1>1, <2>1, OneItem
  <2>3. QED  BY <2>2 DEF PortItem
<1>3. IF x.from = "port" THEN transmitted' = transmitted
      ELSE transmitted' = [transmitted EXCEPT ![x.from] = x.n]
  BY <1>2 DEF Transmit
<1> DEFINE a == txReg \o sendBuffer
<1>4. /\ a \in Seq(PortItem) /\ Len(a) = 1 + Len(sendBuffer) /\ a[1] = x
      /\ \A i \in 1 .. Len(sendBuffer) : a[1 + i] = sendBuffer[i]
  <2>1. /\ a \in Seq(PortItem) /\ Len(a) = Len(txReg) + Len(sendBuffer)
        /\ \A i \in 1 .. Len(txReg) : a[i] = txReg[i]
        /\ \A i \in 1 .. Len(sendBuffer) : a[Len(txReg) + i] = sendBuffer[i]
    BY <1>1, Joined
  <2> HIDE DEF a
  <2>2. 1 \in 1 .. Len(txReg)  BY <1>1
  <2>3. QED  BY <1>1, <2>1, <2>2
<1>5. Under = a /\ Under' = sendBuffer  BY <1>1 DEF Under
<1> HIDE DEF a, x
<1>6. transmitted' \in [Tasks -> Nat]  BY <1>1, <1>2, <1>3
<1>7. ASSUME NEW v \in Tasks PROVE InOrder(Under', v, transmitted'[v], written[v])
  <2>1. InOrder(a, v, transmitted[v], written[v])  BY <1>5 DEF LineInv, AllInOrder
  <2>2. \/ a[1].from = v /\ transmitted'[v] = a[1].n
        \/ a[1].from # v /\ transmitted'[v] = transmitted[v]
    BY <1>1, <1>2, <1>3, <1>4, PortAssumption
  <2>3. transmitted[v] \in Nat /\ transmitted'[v] \in Nat /\ written[v] \in Nat  BY <1>1, <1>6
  <2>4. InOrder(sendBuffer, v, transmitted'[v], written[v])
    <3>1. /\ a \in Seq(PortItem) /\ sendBuffer \in Seq(PortItem)
          /\ Len(a) = Len(sendBuffer) + 1
          /\ \A i \in 1 .. Len(sendBuffer) : a[i + 1] = sendBuffer[i]
      BY <1>1, <1>4
    <3>2. QED  BY ONLY <2>1, <2>2, <2>3, <3>1, FirstLeaves
  <2>5. QED  BY <1>5, <2>4
<1>8. AllInOrder'  BY <1>1, <1>7 DEF AllInOrder
<1>9. LineTypes'  BY <1>1, <1>6 DEF LineInv, LineTypes
<1>10. PendingIsDrained'  BY <1>1 DEF LineInv, PendingIsDrained
<1>11. QED  BY <1>8, <1>9, <1>10 DEF LineInv

----------------------------------------------------------------------------
(* The rights and the line together make the inductive invariant.          *)

PortInv == RightsInv /\ LineInv

\* The steps of the tasks.
LEMMA TasksKeepPort ==
  ASSUME PortInv, NEW t \in Tasks, TaskStep(t)
  PROVE  PortInv'
<1>1. /\ RightsInv /\ LineInv /\ sendBuffer \in Seq(PortItem)
  BY DEF PortInv, LineInv, LineTypes
<1>2. CASE WaitToSend(t) \/ WaitToReceive(t)
  <2>1. RightsInv'  BY <1>1, <1>2, WaitsKeepRights
  <2>2. UNCHANGED <<sendBuffer, txReg, transmitted, written, receiveFlowControl,
                    sendStopped, txEnabled>>
    BY <1>2 DEF WaitToSend, WaitToReceive, buffers, flow, uart, line
  <2>3. QED  BY <1>1, <2>1, <2>2, LineStays DEF PortInv
<1>3. CASE PutCR(t)
  <2>1. RightsInv'  BY <1>1, <1>3, PutCRKeepsRights
  <2>2. Put(t, "CR") /\ UNCHANGED <<transmitted, receiveFlowControl, sendStopped>>
    BY <1>3 DEF PutCR, flow, line
  <2>3. HasRoom  BY <1>1, <1>3, Entitled DEF PutCR, Puts
  <2>4. "CR" \in PortChar  BY DEF PortChar
  <2>5. QED  BY <1>1, <2>1, <2>2, <2>3, <2>4, PutKeepsLine DEF PortInv
<1>4. CASE PutChar(t)
  <2>1. RightsInv'  BY <1>1, <1>4, PutCharKeepsRights
  <2>2. Put(t, Head(job[t].text)) /\ UNCHANGED <<transmitted, receiveFlowControl, sendStopped>>
    BY <1>4 DEF PutChar, flow, line
  <2>3. HasRoom  BY <1>1, <1>4, Entitled DEF PutChar, Puts
  <2>4. Head(job[t].text) \in PortChar
    <3>1. job[t].text \in Seq(PortChar) /\ job[t].text # <<>>
      BY <1>1, <1>4 DEF RightsInv, PortJobs, PortJob, JobOK, PutChar
    <3>2. QED  BY <3>1
  <2>5. QED  BY <1>1, <2>1, <2>2, <2>3, <2>4, PutKeepsLine DEF PortInv
<1>5. CASE SignalSend(t) \/ SignalReceive(t)
  <2>1. RightsInv'  BY <1>1, <1>5, SignalSendKeepsRights, SignalReceiveKeepsRights
  <2>2. UNCHANGED <<sendBuffer, txReg, transmitted, written, receiveFlowControl,
                    sendStopped, txEnabled>>
    BY <1>5 DEF SignalSend, SignalReceive, buffers, flow, uart, line
  <2>3. QED  BY <1>1, <2>1, <2>2, LineStays DEF PortInv
<1>6. CASE GetChar(t)
  <2>1. RightsInv'  BY <1>1, <1>6, GetCharKeepsRights
  <2>2. UNCHANGED <<sendBuffer, transmitted, written, sendStopped>>
    BY <1>6 DEF GetChar, line
  <2>3. \/ SendFlow("START")
        \/ UNCHANGED <<receiveFlowControl, txReg, txEnabled>>
    BY <1>6 DEF GetChar
  <2>4. LineInv'  BY <1>1, <2>2, <2>3, SendFlowKeepsLine, LineStays
  <2>5. QED  BY <2>1, <2>4 DEF PortInv
<1>7. QED  BY <1>2, <1>3, <1>4, <1>5, <1>6 DEF TaskStep

\* The calls.
LEMMA CallsKeepPort ==
  ASSUME PortInv, NEW t \in Tasks, PortCalls(t)
  PROVE  PortInv'
<1>1. RightsInv'  BY CallsKeepRights DEF PortInv
<1>2. UNCHANGED <<sendBuffer, txReg, transmitted, written, receiveFlowControl,
                  sendStopped, txEnabled>>
  BY DEF PortCalls, eSerialPort_write, eSerialPort_read, buffers, flow, uart, line
<1>3. QED  BY <1>1, <1>2, LineStays DEF PortInv

\* A wait that ends early: the task has no right, EchoNotReleased sees to that.
LEMMA GiveUpKeepsPort ==
  ASSUME PortInv, EchoNotReleased, NEW t \in Tasks, NEW s \in Direction, GiveUp(t, s),
         s = "send" => t \in port.releasable
  PROVE  PortInv'
<1>1. RightsInv /\ JobOK(t, job[t]) /\ portSem \in Semaphores /\ QueueOK(s, job, portSem)
      /\ port \in PORTS
  BY DEF PortInv, RightsInv
<1>2. PICK i \in DOMAIN portSem[s].wait : portSem[s].wait[i] = t  BY DEF GiveUp
<1>3. i \in 1 .. Len(portSem[s].wait)  BY <1>1, <1>2 DEF Semaphores
<1>4. job[t].pc = "blocked" /\ (job[t].text = <<>> <=> s = "receive")
  BY <1>1, <1>2, <1>3 DEF QueueOK
<1>5. ~ Gets(job[t])
  <2>1. CASE s = "receive"  BY <1>4, <2>1 DEF Gets
  <2>2. CASE s = "send"
    <3>1. job[t].text # <<>> /\ t \in port.releasable \cap Tasks  BY <1>4, <2>2
    <3>2. SUFFICES ASSUME job[t].want \in Nat PROVE FALSE  BY DEF Gets
    <3>3. "ECHO" \in port.ioControl /\ port.lengths[t] # {}  BY <1>1, <3>1, <3>2 DEF JobOK
    <3>4. QED  BY <1>1, <3>1, <3>3 DEF EchoNotReleased
  <2>3. QED  BY <2>1, <2>2 DEF Direction
<1>6. RightsInv'  BY <1>1, <1>5, GiveUpKeepsRights
<1>7. UNCHANGED <<sendBuffer, txReg, transmitted, written, receiveFlowControl,
                  sendStopped, txEnabled>>
  BY DEF GiveUp, buffers, flow, uart, line
<1>8. QED  BY <1>6, <1>7, LineStays DEF PortInv

\* The transmit interrupt.
LEMMA ReadySendKeepsPort ==
  ASSUME PortInv, eiSIOCBR_readySend
  PROVE  PortInv'
<1>1. /\ RightsInv /\ LineInv /\ LineTypes /\ AllInOrder /\ PendingIsDrained
      /\ txEnabled /\ txReg = <<>>
      /\ UNCHANGED <<receiveBuffer, sendStopped, transmitted, written, port>>
  BY DEF PortInv, LineInv, eiSIOCBR_readySend, Writable, line
<1>2. CASE /\ receiveFlowControl # NoFlow
           /\ txReg' = <<Flow(receiveFlowControl)>> /\ receiveFlowControl' = NoFlow
           /\ UNCHANGED <<sendBuffer, portSem, job, errorFlag, txEnabled>>
  <2>1. receiveFlowControl \in PortChar  BY <1>1, <1>2 DEF LineTypes, PortChar
  <2>2. LineTypes' /\ AllInOrder'  BY <1>1, <1>2, <2>1, FlowKeepsLine
  <2>3. PendingIsDrained'  BY <1>1, <1>2, Zenon DEF PendingIsDrained
  <2>4. RightsInv'  BY <1>1, <1>2, RightsStay DEF HasRoom
  <2>5. QED  BY <2>2, <2>3, <2>4 DEF PortInv, LineInv
<1>3. CASE /\ receiveFlowControl = NoFlow /\ ~ sendStopped /\ sendBuffer # <<>>
           /\ txReg' = <<Head(sendBuffer)>> /\ TakeFromSendBuffer(1)
           /\ UNCHANGED <<receiveFlowControl, txEnabled>>
  <2>1. /\ sendBuffer \in Seq(PortItem) /\ Len(sendBuffer) <= sendBufferSize /\ 1 <= Len(sendBuffer)
        /\ Head(sendBuffer) = sendBuffer[1]
    BY <1>1, <1>3 DEF LineTypes
  <2>2. sendBuffer' = SubSeq(sendBuffer, 2, Len(sendBuffer))  BY <1>3 DEF TakeFromSendBuffer
  <2>3. LineTypes' /\ AllInOrder'  BY <1>1, <1>3, <2>1, <2>2, TakeKeepsLine
  <2>4. PendingIsDrained'  BY <1>1, <1>3, Zenon DEF PendingIsDrained
  <2>5. RightsInv'  BY <1>1, <1>3, <2>1, TakeKeepsRights
  <2>6. QED  BY <2>3, <2>4, <2>5 DEF PortInv, LineInv
<1>4. CASE /\ receiveFlowControl = NoFlow /\ (sendStopped \/ sendBuffer = <<>>)
           /\ txEnabled' = FALSE
           /\ UNCHANGED <<sendBuffer, portSem, job, errorFlag, txReg, receiveFlowControl>>
  <2>1. LineTypes' /\ AllInOrder'  BY <1>1, <1>4 DEF LineTypes, AllInOrder, Under
  <2>2. PendingIsDrained'  BY <1>1, <1>4, Zenon DEF PendingIsDrained
  <2>3. RightsInv'  BY <1>1, <1>4, RightsStay DEF HasRoom
  <2>4. QED  BY <2>1, <2>2, <2>3 DEF PortInv, LineInv
<1>5. QED  BY <1>2, <1>3, <1>4 DEF eiSIOCBR_readySend

\* The receive interrupt.
LEMMA ReadyReceiveKeepsPort ==
  ASSUME PortInv, NEW c \in port.incoming, eiSIOCBR_readyReceive(c)
  PROVE  PortInv'
<1>1. /\ RightsInv /\ LineInv /\ LineTypes /\ AllInOrder /\ PendingIsDrained
      /\ written' = written /\ port' = port /\ port \in PORTS
      /\ sendBuffer \in Seq(PortItem) /\ Len(sendBuffer) <= sendBufferSize
      /\ txReg \in Seq(PortItem) /\ Len(txReg) <= 1
  BY DEF PortInv, LineInv, eiSIOCBR_readyReceive, RightsInv, LineTypes
<1>2. c \in PortChar  BY <1>1, PortAssumption DEF PortChar
<1>3. CASE Stopped(c)
  <2>1. /\ sendStopped' = TRUE
        /\ UNCHANGED <<sendBuffer, receiveBuffer, receiveFlowControl, errorFlag, portSem, job>>
        /\ UNCHANGED <<txReg, txEnabled, transmitted>>
    BY <1>3 DEF Stopped, buffers, uart, line
  <2>2. LineTypes' /\ AllInOrder'  BY <1>1, <2>1 DEF LineTypes, AllInOrder, Under
  <2>3. PendingIsDrained'  BY <1>1, <2>1, Zenon DEF PendingIsDrained
  <2>4. RightsInv'  BY <1>1, <2>1, RightsStay DEF HasRoom
  <2>5. QED  BY <2>2, <2>3, <2>4 DEF PortInv, LineInv
<1>4. CASE Restarted(c)
  <2> DEFINE n == IF Writable /\ sendBuffer # <<>> THEN 1 ELSE 0
  <2>1. /\ sendStopped' = FALSE /\ TakeFromSendBuffer(n)
        /\ txReg' = txReg \o SubSeq(sendBuffer, 1, n)
        /\ txEnabled' = (txEnabled \/ n < Len(sendBuffer))
        /\ UNCHANGED <<receiveBuffer, receiveFlowControl, transmitted>>
    BY <1>4 DEF Restarted, line
  <2>2. /\ n \in {0, 1} /\ n <= Len(sendBuffer)
        /\ sendBuffer' = SubSeq(sendBuffer, n + 1, Len(sendBuffer))
    BY <1>1, <2>1 DEF TakeFromSendBuffer
  <2>3. RightsInv'  BY <1>1, <2>1, <2>2, TakeKeepsRights
  <2>4. LineTypes' /\ AllInOrder'
    <3>1. CASE Writable /\ sendBuffer # <<>>
      <4>1. txReg = <<>> /\ n = 1  BY <3>1 DEF Writable
      <4>2. txReg' = <<sendBuffer[1]>> /\ sendBuffer' = SubSeq(sendBuffer, 2, Len(sendBuffer))
        <5>1. txReg' = <<>> \o SubSeq(sendBuffer, 1, 1)  BY <2>1, <4>1
        <5>2. SubSeq(sendBuffer, 1, 1) = <<sendBuffer[1]>>  BY <1>1, <3>1, OneTaken
        <5>3. QED  BY <1>1, <2>2, <3>1, <4>1, <5>1, <5>2
      <4>3. QED  BY <1>1, <2>1, <3>1, <4>1, <4>2, TakeKeepsLine
    <3>2. CASE ~ (Writable /\ sendBuffer # <<>>)
      <4>1. n = 0  BY <3>2
      <4>2. txReg' = txReg /\ sendBuffer' = sendBuffer
        <5>1. /\ txReg' = txReg \o SubSeq(sendBuffer, 1, 0)
              /\ sendBuffer' = SubSeq(sendBuffer, 1, Len(sendBuffer))
          BY <2>1, <2>2, <4>1
        <5>2. SubSeq(sendBuffer, 1, 0) = <<>>  BY <1>1
        <5>3. QED  BY <1>1, <5>1, <5>2
      <4>3. QED  BY <1>1, <2>1, <4>2 DEF LineTypes, AllInOrder, Under
    <3>3. QED  BY <3>1, <3>2
  <2>5. PendingIsDrained'
    <3>1. receiveFlowControl # NoFlow => txEnabled'  BY <1>1, <2>1, Zenon DEF PendingIsDrained
    <3>2. sendBuffer' # <<>> => txEnabled'
      <4>1. sendBuffer' # <<>> => n < Len(sendBuffer)  BY <1>1, <2>2
      <4>2. QED  BY <2>1, <4>1, Zenon
    <3>3. QED  BY <2>1, <3>1, <3>2, Zenon DEF PendingIsDrained
  <2>6. QED  BY <2>3, <2>4, <2>5 DEF PortInv, LineInv
<1>5. CASE Dropped(c)
  <2>1. /\ UNCHANGED <<sendBuffer, receiveBuffer, receiveFlowControl, errorFlag, portSem, job>>
        /\ UNCHANGED <<txReg, txEnabled, transmitted, sendStopped>>
    BY <1>5 DEF Dropped, buffers, uart, line, flow
  <2>2. LineInv'  BY <1>1, <2>1, LineStays
  <2>3. RightsInv'  BY <1>1, <2>1, RightsStay DEF HasRoom
  <2>4. QED  BY <2>2, <2>3 DEF PortInv
<1>6. CASE Stored(c)
  <2>1. RightsInv'  BY <1>1, <1>2, <1>6, StoredKeepsRights
  <2>2. UNCHANGED <<sendBuffer, sendStopped, transmitted>>  BY <1>6 DEF Stored, line
  <2>3. \/ SendFlow("STOP")
        \/ UNCHANGED <<receiveFlowControl, txReg, txEnabled>>
    BY <1>6 DEF Stored
  <2>4. LineInv'  BY <1>1, <2>2, <2>3, SendFlowKeepsLine, LineStays
  <2>5. QED  BY <2>1, <2>4 DEF PortInv
<1>7. QED  BY <1>3, <1>4, <1>5, <1>6 DEF eiSIOCBR_readyReceive

\* The UART sends.
LEMMA TransmitKeepsPort ==
  ASSUME PortInv, Transmit
  PROVE  PortInv'
<1>1. LineInv'  BY TransmitKeepsLine DEF PortInv
<1>2. UNCHANGED <<portSem, port, errorFlag, job, receiveBuffer, sendBuffer>>
  BY DEF Transmit, buffers
<1>3. RightsInv'  BY <1>2, RightsStay DEF PortInv, HasRoom
<1>4. QED  BY <1>1, <1>3 DEF PortInv

\* The port as it is opened.
LEMMA PortStarts ==
  ASSUME PortInit
  PROVE  PortInv
<1>1. /\ port \in PORTS /\ sendBuffer = <<>> /\ receiveBuffer = <<>> /\ txReg = <<>>
      /\ receiveFlowControl = NoFlow /\ ~ errorFlag
      /\ transmitted = [t \in Tasks |-> 0] /\ written = [t \in Tasks |-> 0]
      /\ job = [t \in Tasks |-> NoJob] /\ {sendBufferSize, receiveBufferSize} \subseteq Nat \ {0}
  BY PortAssumption DEF PortInit
<1>2. NoJob \in PortJob /\ ~ Puts(NoJob) /\ ~ Gets(NoJob) /\ \A t \in Tasks : JobOK(t, NoJob)
  BY DEF NoJob, PortJob, PortPlace, JobOK, Puts, Gets, NoRead
<1>3. job \in PortJobs /\ \A t \in Tasks : job[t] = NoJob  BY <1>1, <1>2 DEF PortJobs
<1>4. /\ portSem \in Semaphores /\ \A s \in Direction : portSem[s].wait = <<>>
      /\ portSem["send"].cnt = 1 /\ portSem["receive"].cnt = 0
  <2> DEFINE x == [cnt |-> 1, wait |-> <<>>]
             y == [cnt |-> 0, wait |-> <<>>]
  <2>1. x \in [cnt : {0, 1}, wait : Seq(Tasks)] /\ x.cnt = 1 /\ x.wait = <<>>  OBVIOUS
  <2>2. y \in [cnt : {0, 1}, wait : Seq(Tasks)] /\ y.cnt = 0 /\ y.wait = <<>>  OBVIOUS
  <2>3. portSem = [send |-> x, receive |-> y]  BY DEF PortInit
  <2> HIDE DEF x, y
  <2>4. portSem = [d \in Direction |-> IF d = "send" THEN x ELSE y]  BY <2>3 DEF Direction
  <2>5. portSem["send"] = x /\ portSem["receive"] = y  BY <2>4 DEF Direction
  <2>6. portSem \in Semaphores  BY <2>1, <2>2, <2>4 DEF Semaphores
  <2>7. QED  BY <2>1, <2>2, <2>5, <2>6 DEF Direction
<1>5. RightsInv
  <2>1. RightOK("send", job, portSem, HasRoom)
    <3>1. HasRoom  BY <1>1 DEF HasRoom
    <3>2. QED  BY <1>2, <1>3, <1>4, <3>1 DEF RightOK, Holds
  <2>2. RightOK("receive", job, portSem, HasChars)
    BY <1>1, <1>2, <1>3, <1>4 DEF RightOK, Holds, HasChars
  <2>3. \A s \in Direction : QueueOK(s, job, portSem)  BY <1>4 DEF QueueOK
  <2>4. receiveBuffer \in Seq(PortChar) /\ Len(receiveBuffer) <= receiveBufferSize  BY <1>1
  <2>5. QED  BY <1>1, <1>2, <1>3, <1>4, <2>1, <2>2, <2>3, <2>4 DEF RightsInv
<1>6. LineInv
  <2>1. LineTypes  BY <1>1 DEF LineTypes
  <2>2. AllInOrder
    <3>1. Under = <<>>  BY <1>1 DEF Under
    <3>2. QED  BY <1>1, <3>1 DEF AllInOrder, InOrder
  <2>3. PendingIsDrained  BY <1>1 DEF PendingIsDrained
  <2>4. QED  BY <2>1, <2>2, <2>3 DEF LineInv
<1>7. QED  BY <1>5, <1>6 DEF PortInv

\* The number of tasks with a right.
LEMMA AtMostOne ==
  ASSUME NEW S, \A t, u \in S : t = u
  PROVE  Cardinality(S) = IF S = {} THEN 0 ELSE 1
<1>1. CASE S = {}  BY <1>1, FS_EmptySet
<1>2. CASE S # {}
  <2>1. PICK t \in S : TRUE  BY <1>2
  <2>2. S = {t}  BY <2>1
  <2>3. QED  BY <1>2, <2>2, FS_Singleton
<1>3. QED  BY <1>1, <1>2

\* The invariant implies the property.
LEMMA PortInvIsEnough == PortInv => PortOK
<1> SUFFICES ASSUME PortInv PROVE PortOK  OBVIOUS
<1>1. RightsInv /\ LineInv /\ LineTypes /\ AllInOrder /\ PendingIsDrained
  BY DEF PortInv, LineInv
<1>2. TokensOK
  <2>1. /\ \A t \in Tasks : t \in MayPut <=> Holds("send", job[t])
        /\ MayPut \subseteq Tasks
    BY DEF MayPut, Holds, Puts
  <2>2. /\ \A t \in Tasks : t \in MayGet <=> Holds("receive", job[t])
        /\ MayGet \subseteq Tasks
    <3>1. ASSUME NEW t \in Tasks PROVE job[t].want # NoRead <=> job[t].want \in Nat
      <4>1. job[t].want \in Nat \cup {NoRead}  BY <1>1 DEF RightsInv, PortJobs, PortJob
      <4>2. QED  BY <4>1 DEF NoRead
    <3>2. QED  BY <3>1 DEF MayGet, Holds, Gets
  <2>3. RightOK("send", job, portSem, HasRoom) /\ RightOK("receive", job, portSem, HasChars)
    BY <1>1 DEF RightsInv
  <2>4. \A r \in Direction : /\ portSem[r].cnt \in {0, 1}
                             /\ (portSem[r].wait # <<>> => portSem[r].cnt = 0)
    BY <1>1 DEF RightsInv, Semaphores, QueueOK
  <2>5. portSem.send.cnt + Cardinality(MayPut) = (IF Len(sendBuffer) = sendBufferSize THEN 0 ELSE 1)
    <3>1. Cardinality(MayPut) = IF MayPut = {} THEN 0 ELSE 1
      BY <2>1, <2>3, AtMostOne DEF RightOK
    <3>2. MayPut = {} <=> \A t \in Tasks : ~ Holds("send", job[t])  BY <2>1
    <3>3. portSem["send"].cnt \in {0, 1}  BY <2>4 DEF Direction
    <3>4. CASE HasRoom  BY <2>3, <3>1, <3>2, <3>3, <3>4 DEF RightOK, HasRoom
    <3>5. CASE ~ HasRoom  BY <2>3, <3>1, <3>2, <3>3, <3>5 DEF RightOK, HasRoom
    <3>6. QED  BY <3>4, <3>5
  <2>6. portSem.receive.cnt + Cardinality(MayGet) = (IF receiveBuffer = <<>> THEN 0 ELSE 1)
    <3>1. Cardinality(MayGet) = IF MayGet = {} THEN 0 ELSE 1
      BY <2>2, <2>3, AtMostOne DEF RightOK
    <3>2. MayGet = {} <=> \A t \in Tasks : ~ Holds("receive", job[t])  BY <2>2
    <3>3. portSem["receive"].cnt \in {0, 1}  BY <2>4 DEF Direction
    <3>4. CASE HasChars  BY <2>3, <3>1, <3>2, <3>3, <3>4 DEF RightOK, HasChars
    <3>5. CASE ~ HasChars  BY <2>3, <3>1, <3>2, <3>3, <3>5 DEF RightOK, HasChars
    <3>6. QED  BY <3>4, <3>5
  <2>7. DOMAIN portSem = Direction  BY <1>1 DEF RightsInv, Semaphores
  <2>8. Len(sendBuffer) <= sendBufferSize /\ Len(receiveBuffer) <= receiveBufferSize /\ ~ errorFlag
    BY <1>1 DEF RightsInv, LineTypes
  <2>9. QED  BY <2>4, <2>5, <2>6, <2>7, <2>8 DEF TokensOK
<1>3. WrittenInOrder
  <2>1. ASSUME NEW t \in Tasks
        PROVE  LET own == {i \in DOMAIN Under : Under[i].from = t}
               IN  /\ transmitted[t] <= written[t]
                   /\ {Under[i].n : i \in own} = transmitted[t] + 1 .. written[t]
                   /\ \A i, j \in own : i < j => Under[i].n < Under[j].n
    <3>1. InOrder(Under, t, transmitted[t], written[t])  BY <1>1 DEF AllInOrder
    <3>2. DOMAIN Under = 1 .. Len(Under)
      <4>1. txReg \in Seq(PortItem) /\ sendBuffer \in Seq(PortItem)  BY <1>1 DEF LineTypes
      <4>2. Under \in Seq(PortItem)  BY <4>1, Joined DEF Under
      <4>3. QED  BY <4>2
    <3> DEFINE own == {i \in DOMAIN Under : Under[i].from = t}
    <3>3. \A i : i \in own <=> i \in 1 .. Len(Under) /\ Under[i].from = t  BY <3>2
    <3> HIDE DEF own
    <3>4. {Under[i].n : i \in own} = transmitted[t] + 1 .. written[t]
      BY <3>1, <3>3 DEF InOrder
    <3>5. \A i, j \in own : i < j => Under[i].n < Under[j].n  BY <3>1, <3>3 DEF InOrder
    <3>6. QED  BY <3>1, <3>4, <3>5 DEF InOrder, own
  <2>2. QED  BY <2>1 DEF WrittenInOrder, Under
<1>4. QED  BY <1>1, <1>2, <1>3 DEF PortOK

\* Where no task that echoes what it reads is released from its waiting by another, the
\* rights to put and to get are neither lost nor given twice, what each task writes leaves
\* the port once and in order, and the transmit interrupt is on while it has something to
\* send (tSerialPortMain.c), for every size of the buffers, set of tasks and peer.
THEOREM PortKeepsItsRights ==
  ASSUME EchoNotReleased
  PROVE  PortSpec => []PortOK
<1>1. PortInit => PortInv  BY PortStarts
<1>2. PortInv /\ [PortNext]_pvars => PortInv'
  <2> SUFFICES ASSUME PortInv, [PortNext]_pvars PROVE PortInv'  OBVIOUS
  <2>1. CASE UNCHANGED pvars
    <3>1. UNCHANGED <<portSem, port, errorFlag, job, receiveBuffer, sendBuffer>>
      BY <2>1 DEF pvars, buffers
    <3>2. UNCHANGED <<sendBuffer, txReg, transmitted, written, receiveFlowControl,
                      sendStopped, txEnabled>>
      BY <2>1 DEF pvars, buffers, flow, uart, line
    <3>3. RightsInv'  BY <3>1, RightsStay DEF PortInv, HasRoom
    <3>4. QED  BY <3>2, <3>3, LineStays DEF PortInv
  <2>2. CASE PortNext
    <3>1. ASSUME NEW t \in Tasks, TaskStep(t) PROVE PortInv'  BY <3>1, TasksKeepPort
    <3>2. ASSUME NEW t \in Tasks, PortCalls(t) PROVE PortInv'  BY <3>2, CallsKeepPort
    <3>3. ASSUME NEW t \in Tasks, GiveUp(t, "receive") PROVE PortInv'
      BY <3>3, GiveUpKeepsPort DEF Direction
    <3>4. ASSUME NEW t \in Tasks, t \in port.releasable, GiveUp(t, "send") PROVE PortInv'
      BY <3>4, GiveUpKeepsPort DEF Direction
    <3>5. CASE eiSIOCBR_readySend  BY <3>5, ReadySendKeepsPort
    <3>6. ASSUME NEW c \in port.incoming, eiSIOCBR_readyReceive(c) PROVE PortInv'
      BY <3>6, ReadyReceiveKeepsPort
    <3>7. CASE Transmit  BY <3>7, TransmitKeepsPort
    <3>8. QED  BY <2>2, <3>1, <3>2, <3>3, <3>4, <3>5, <3>6, <3>7 DEF PortNext
  <2>3. QED  BY <2>1, <2>2
<1>3. QED  BY <1>1, <1>2, PortInvIsEnough, PTL DEF PortSpec

\* What a step may put into the register while the peer has stopped the port.
Obeys == sendStopped /\ txReg' # txReg => txReg' = <<>> \/ txReg'[1].from = "port" \/ ~ sendStopped'

\* The flow control puts only its own characters into the register.
LEMMA FlowObeys ==
  ASSUME NEW c, SendFlow(c) \/ UNCHANGED txReg
  PROVE  Obeys
<1>1. CASE UNCHANGED txReg  BY <1>1 DEF Obeys
<1>2. CASE SendFlow(c) /\ txReg' # txReg
  <2>1. txReg' = <<Flow(c)>>  BY <1>2 DEF SendFlow
  <2>2. txReg'[1].from = "port"  BY <2>1 DEF Flow
  <2>3. QED  BY <2>2 DEF Obeys
<1>3. QED  BY <1>1, <1>2

\* A writer does not go past a STOP.
LEMMA PutObeys ==
  ASSUME NEW t, NEW c, Put(t, c)
  PROVE  Obeys
<1>1. CASE Direct  BY <1>1 DEF Direct, Obeys
<1>2. CASE ~ Direct  BY <1>2 DEF Put, Obeys
<1>3. QED  BY <1>1, <1>2

\* Nothing goes into the UART while the peer has stopped the port, but for the flow
\* control of the other direction (tSerialPortMain.c, the writer and the interrupt).
THEOREM StopIsObeyed == PortSpec => StopObeyed
<1>1. [PortNext]_pvars => [Obeys]_pvars
  <2> SUFFICES ASSUME PortNext PROVE Obeys  BY DEF Obeys, pvars
  <2>1. ASSUME NEW t \in Tasks, TaskStep(t) PROVE Obeys
    <3>1. CASE WaitToSend(t) \/ WaitToReceive(t) \/ SignalSend(t) \/ SignalReceive(t)
      BY <3>1 DEF WaitToSend, WaitToReceive, SignalSend, SignalReceive, uart, Obeys
    <3>2. CASE PutCR(t)  BY <3>2, PutObeys DEF PutCR
    <3>3. CASE PutChar(t)  BY <3>3, PutObeys DEF PutChar
    <3>4. CASE GetChar(t)
      <4>1. SendFlow("START") \/ UNCHANGED txReg  BY <3>4 DEF GetChar
      <4>2. QED  BY <4>1, FlowObeys
    <3>5. QED  BY <2>1, <3>1, <3>2, <3>3, <3>4 DEF TaskStep
  <2>2. ASSUME NEW t \in Tasks, PortCalls(t) PROVE Obeys
    BY <2>2 DEF PortCalls, eSerialPort_write, eSerialPort_read, uart, Obeys
  <2>3. ASSUME NEW t, NEW s, GiveUp(t, s) PROVE Obeys
    BY <2>3 DEF GiveUp, uart, Obeys
  <2>4. CASE eiSIOCBR_readySend
    <3>1. CASE txReg' = <<Flow(receiveFlowControl)>>
      <4>1. txReg'[1].from = "port"  BY <3>1 DEF Flow
      <4>2. QED  BY <4>1 DEF Obeys
    <3>2. CASE txReg' = txReg \/ ~ sendStopped  BY <3>2 DEF Obeys
    <3>3. QED  BY <2>4, <3>1, <3>2 DEF eiSIOCBR_readySend
  <2>5. ASSUME NEW c, eiSIOCBR_readyReceive(c) PROVE Obeys
    <3>1. CASE Stopped(c) \/ Dropped(c)  BY <3>1 DEF Stopped, Dropped, uart, Obeys
    <3>2. CASE Restarted(c)  BY <3>2 DEF Restarted, Obeys
    <3>3. CASE Stored(c)
      <4>1. SendFlow("STOP") \/ UNCHANGED txReg  BY <3>3 DEF Stored
      <4>2. QED  BY <4>1, FlowObeys
    <3>4. QED  BY <2>5, <3>1, <3>2, <3>3 DEF eiSIOCBR_readyReceive
  <2>6. CASE Transmit  BY <2>6 DEF Transmit, Obeys
  <2>7. QED  BY <2>1, <2>2, <2>3, <2>4, <2>5, <2>6 DEF PortNext
<1>2. QED  BY <1>1, PTL DEF PortSpec, StopObeyed, Obeys
=============================================================================
