----------------------------- MODULE KeepAlive ------------------------------
(***************************************************************************)
(* The keep-alive of the MQTT client (mqtt_client_dowork) on the tick      *)
(* counter of the TOPPERS adapter, which drops the fraction of a           *)
(* millisecond at every reading and follows the system time when it is     *)
(* set.  Real time passes in units, MS of them to a millisecond and SEC    *)
(* milliseconds to a second.  A point in time that the client keeps is     *)
(* modelled by its age, in milliseconds of the tick counter; that of       *)
(* timeSincePing is NONE when it is 0.                                     *)
(***************************************************************************)
EXTENDS Integers

CONSTANTS
  MS, SEC,
  keepAliveInterval,  \* in seconds
  MaxIdle,   \* bound of the model on the time between two calls of DoWork while connected
  MaxDown,   \* bound of the model on the time without a connection
  MaxSend,   \* bound of the model on the time a PINGREQ takes to be sent
  Jump,      \* how far the system time is set forward; 0: never
  MaySend,   \* does the application send while it is connected?
  LossWhilePinging \* may a connection be lost while PINGREQ is not answered?

ASSUME KeepAliveAssumption ==
  /\ {MS, SEC, keepAliveInterval} \subseteq Nat \ {0}
  /\ MaxIdle \in Nat /\ MaxIdle >= MS /\ {MaxDown, MaxSend, Jump} \subseteq Nat
  /\ {MaySend, LossWhilePinging} \subseteq BOOLEAN

VARIABLES
  conn,    \* "down", "connecting", "up", or "noping" after NO_PING_RESPONSE
  since,   \* system time since the tick counter was read
  sendAge, pingAge,  \* of packetSendTimeMs and timeSincePing
  idle,    \* time since DoWork last returned
  quiet,   \* time since a packet was last sent
  waited,  \* time since PINGREQ was sent on this connection and not answered, or NONE
  hub,     \* "answers" or "silent"
  resp     \* has PINGRESP arrived in the socket?

kvars == <<conn, since, sendAge, pingAge, idle, quiet, waited, hub, resp>>

NONE == -1
maxPingRespTime == IF 80 < keepAliveInterval \div 2 THEN 80 ELSE keepAliveInterval \div 2

KeepInit ==
  /\ conn = "down" /\ since = 0 /\ sendAge = 0 /\ pingAge = NONE
  /\ idle = 0 /\ quiet = 0 /\ waited = NONE /\ hub = "answers" /\ resp = FALSE

Later(age, d) == IF age = NONE THEN NONE ELSE age + d

\* What tickcounter_get_current_ms adds to the counter.
Elapsed == since \div MS

\* sendPacketItem: the counter is read and the packet sent.
SendPacketItem ==
  /\ sendAge' = 0 /\ pingAge' = Later(pingAge, Elapsed) /\ since' = 0 /\ quiet' = 0

----------------------------------------------------------------------------
\* mqtt_client_dowork after xio_dowork, which has left ping of timeSincePing and
\* wait of waited.

\* Fault: the response is overdue a second too early.
ResponseOverdue_early(ping) == ping # NONE /\ Later(ping, Elapsed) \div SEC >= maxPingRespTime

\* Fault: PINGREQ is sent a second late.
PingDue_late == (sendAge + Elapsed) \div SEC > keepAliveInterval

ResponseOverdue(ping) == ping # NONE /\ Later(ping, Elapsed) \div SEC > maxPingRespTime
PingDue == (sendAge + Elapsed) \div SEC >= keepAliveInterval

NoPingResponse(ping) ==
  /\ ResponseOverdue(ping)
  /\ conn' = "noping" /\ since' = 0 /\ sendAge' = 0 /\ pingAge' = NONE
  /\ waited' = NONE /\ quiet' = quiet

\* Fault: the time of PINGREQ is not kept.
SendPing_forget(ping) ==
  /\ ~ ResponseOverdue(ping) /\ PingDue
  /\ \E d \in 0 .. MaxSend :
       /\ sendAge' = d \div MS /\ pingAge' = NONE /\ since' = 0
       /\ quiet' = d /\ waited' = d
  /\ conn' = "up"

\* The counter is read once before and once after PINGREQ is sent.
SendPing(ping) ==
  /\ ~ ResponseOverdue(ping) /\ PingDue
  /\ \E d \in 0 .. MaxSend :
       /\ sendAge' = d \div MS /\ pingAge' = 0 /\ since' = 0
       /\ quiet' = d /\ waited' = d
  /\ conn' = "up"

NothingDue(ping, wait) ==
  /\ ~ ResponseOverdue(ping) /\ ~ PingDue
  /\ conn' = "up" /\ sendAge' = sendAge + Elapsed /\ pingAge' = Later(ping, Elapsed)
  /\ since' = 0 /\ quiet' = quiet /\ waited' = wait

KeepsAlive(ping, wait) ==
  /\ NoPingResponse(ping) \/ SendPing(ping) \/ NothingDue(ping, wait)
  /\ idle' = 0 /\ resp' = FALSE /\ hub' = hub

\* xio_dowork hands over PINGRESP if it is there.  The application has slept for a
\* millisecond since the last call.
DoWork ==
  /\ conn = "up" /\ idle >= MS
  /\ KeepsAlive(IF resp THEN NONE ELSE pingAge, IF resp THEN NONE ELSE waited)

\* The application sends a message, or the client acknowledges one.
SendMessage ==
  /\ conn = "up" /\ MaySend /\ idle >= MS
  /\ SendPacketItem
  /\ UNCHANGED <<conn, idle, waited, hub, resp>>

\* onOpenComplete on a new connection sends CONNECT.
Connect ==
  /\ conn \in {"down", "noping"}
  /\ conn' = "connecting" /\ hub' = "answers"
  /\ SendPacketItem
  /\ UNCHANGED <<idle, waited, resp>>

\* xio_dowork hands over CONNACK.
Connack == conn = "connecting" /\ KeepsAlive(pingAge, waited)

----------------------------------------------------------------------------
\* The hub, the network and the clock (external).

Lose ==
  /\ conn \in {"connecting", "up"} /\ (waited # NONE => LossWhilePinging)
  /\ conn' = "down" /\ waited' = NONE /\ resp' = FALSE
  /\ UNCHANGED <<since, sendAge, pingAge, idle, quiet, hub>>

Answer ==
  /\ hub = "answers" /\ waited # NONE /\ ~ resp
  /\ resp' = TRUE
  /\ UNCHANGED <<conn, since, sendAge, pingAge, idle, quiet, waited, hub>>

FallSilent ==
  /\ conn = "up" /\ hub = "answers"
  /\ hub' = "silent"
  /\ UNCHANGED <<conn, since, sendAge, pingAge, idle, quiet, waited, resp>>

Time ==
  /\ idle < (IF conn = "up" THEN MaxIdle ELSE MaxDown)
  /\ since' = since + 1 /\ idle' = idle + 1 /\ quiet' = quiet + 1 /\ waited' = Later(waited, 1)
  /\ UNCHANGED <<conn, sendAge, pingAge, hub, resp>>

\* The NTP client sets the system time (set_tim).
SetTime ==
  /\ since < Jump
  /\ since' = since + Jump
  /\ UNCHANGED <<conn, sendAge, pingAge, idle, quiet, waited, hub, resp>>

KeepNext ==
  \/ DoWork \/ SendMessage \/ Connect \/ Connack
  \/ Lose \/ Answer \/ FallSilent \/ Time \/ SetTime

KeepSpec == KeepInit /\ [][KeepNext]_kvars

\* Time passes, and the application calls DoWork again and again.
FairKeepSpec == KeepSpec /\ WF_kvars(Time) /\ WF_kvars(DoWork)

----------------------------------------------------------------------------
\* NO_PING_RESPONSE is reported only when the hub has had more than maxPingRespTime
\* seconds and its answer is not there: "We haven't gotten a ping response in the
\* alloted time" (mqtt_client.c:1273).
NoFalseAlarm ==
  [][conn' = "noping" /\ conn # "noping" =>
       ~ resp /\ waited >= (maxPingRespTime + 1) * SEC * MS]_kvars

\* While connected, the client sends something within twice the keep-alive interval
\* of real time: the tick counter loses less than half of the time (mqtt_client.c:1279).
PingWithinTwice == conn = "up" => quiet < 2 * keepAliveInterval * SEC * MS + MaxIdle + MaxSend

\* PINGREQ is sent when the keep-alive interval has passed (mqtt_client.c:1281), at the
\* next call of DoWork.
PingInTime == conn = "up" => quiet <= keepAliveInterval * SEC * MS + MaxIdle + MaxSend

\* A hub that no longer answers is noticed (mqtt_client.c:1271).
SilenceNoticed == (hub = "silent" /\ conn = "up") ~> conn # "up"
=============================================================================
