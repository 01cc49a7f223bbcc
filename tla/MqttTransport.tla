---------------------------- MODULE MqttTransport ----------------------------
(***************************************************************************)
(* The IoT Hub client from the calls of the application to the packets:    *)
(* its core (iothub_client/src/iothub_client_core_ll.c) and its MQTT       *)
(* transport (iothubtransport_mqtt_common.c), over MqttChannel.            *)
(* One thread does everything: the application calls the client between    *)
(* two calls of DoWork, and DoWork is modelled in the steps core ("idle"), *)
(* InitializeConnection ("conn"), what the packet state asks for ("work"), *)
(* mqtt_client_dowork ("recv") and the timeouts ("acks").  Between two     *)
(* steps the network and the hub may move.  Times are ages, in Ticks.      *)
(***************************************************************************)
EXTENDS MqttChannel, FiniteSets

CONSTANTS
  Msgs, Gets, Reps,  \* messages, requests for the twin and reported states
  USHRT_MAX,
  RETRIES,           \* MAX_SEND_RECOUNT_LIMIT
  RESEND,            \* RESEND_TIMEOUT_VALUE_MIN, in Ticks
  TWINWAIT,          \* ON_DEMAND_GET_TWIN_REQUEST_TIMEOUT_SECS, in Ticks
  CONNWAIT,          \* connect_timeout_in_sec, in Ticks
  MSGTIMEOUT,        \* message_timeout_value, in Ticks: 0 means never
  AUTO               \* the request for the twin that the transport makes itself

ASSUME TransportAssumption ==
  /\ {RETRIES, RESEND, TWINWAIT, CONNWAIT, MSGTIMEOUT} \subseteq Nat
  /\ USHRT_MAX \in Nat \ {0, 1} /\ AUTO \notin Gets \cup Reps
  /\ Msgs \cap Gets = {} /\ Msgs \cap Reps = {} /\ Gets \cap Reps = {}

VARIABLES
  core,  \* waitingToSend, iot_msg_queue, iot_ack_queue, the twin callback, and
         \* complete_twin_update_encountered
  tr,    \* the transport
  pc,    \* where DoWork is; in process_queued_ack_messages with the entry
  told   \* history: what the application asked for, and what it was told

Idle == pc.at = "idle"
Goto(place) == pc' = [at |-> place, i |-> 1]

TransportInit ==
  /\ ChannelInit
  /\ core = [waiting |-> <<>>, reports |-> <<>>, acks |-> <<>>, callback |-> FALSE, complete |-> FALSE]
  /\ tr = [status |-> "NOT_CONNECTED", pkt |-> "CONNECT", topics |-> {}, toSub |-> {},
           getSent |-> FALSE, subRecv |-> FALSE, subPid |-> 0, pid |-> 1, recover |-> TRUE,
           cage |-> 0, inflight |-> <<>>, twinAck |-> <<>>, twinPend |-> <<>>]
  /\ pc = [at |-> "idle", i |-> 1]
  /\ told = [asked |-> {}, conf |-> [m \in Msgs |-> <<>>], answers |-> [g \in Gets |-> 0],
             reps |-> [r \in Reps |-> 0], toggles |-> 0, whole |-> FALSE, early |-> FALSE]

----------------------------------------------------------------------------
\* Parts of the handlers.

\* The entries of the list q that are in S, in their order.
Only(q, S) ==
  LET kept == {i \in 1 .. Len(q) : q[i] \in S}
      place(n) == CHOOSE i \in kept : Cardinality(kept \cap 1 .. i) = n
  IN  [n \in 1 .. Cardinality(kept) |-> q[place(n)]]

\* get_next_packet_id, i times.
PidAfter(pid, i) == ((pid - 1 + i) % (USHRT_MAX - 1)) + 1

changeStateToSubscribeIfAllowed(t) ==
  [t EXCEPT !.pkt = IF @ \in {"CONNACK", "CONNECT", "DISCONNECT", "ERROR"} THEN @ ELSE "SUBSCRIBE"]

\* Subscribe_DeviceTwin and subscribeToNotifyStateIfNeeded.
SubscribeTopic(t, topic) ==
  changeStateToSubscribeIfAllowed(
    IF topic \in t.topics THEN t
    ELSE [t EXCEPT !.topics = @ \cup {topic}, !.toSub = @ \cup {topic}])

\* Fault: the status still says connected after an error.
mqtt_error_callback_status(t) == [t EXCEPT !.pkt = "ERROR", !.getSent = FALSE, !.toSub = @ \cup t.topics]

mqtt_error_callback(t) ==
  [t EXCEPT !.status = IF @ = "PENDING_CLOSE" THEN @ ELSE "EXECUTE_DISCONNECT",
            !.pkt = "ERROR", !.getSent = FALSE, !.toSub = @ \cup t.topics]

\* The application is told the result for the messages ms.
SendComplete(td, ms, result) ==
  [td EXCEPT !.conf = [m \in Msgs |-> IF m \in ms THEN Append(@[m], result) ELSE @[m]]]

\* The application gets an answer to the requests gs (a twin, or NULL).
TwinAnswered(td, gs) ==
  [td EXCEPT !.answers = [g \in Gets |-> IF g \in gs THEN @[g] + 1 ELSE @[g]]]

\* Fault: the oldest reported state is taken to be the one that is answered.
ReportedStateComplete_head(c, td, id) ==
  [core |-> [c EXCEPT !.acks = IF @ = <<>> THEN @ ELSE Tail(@)],
   told |-> [td EXCEPT !.reps = [r \in Reps |-> IF c.acks # <<>> /\ r = Head(c.acks)
                                                THEN @[r] + 1 ELSE @[r]]]]

\* The callback of the reported state id, if the core still has it.
ReportedStateComplete(c, td, id) ==
  [core |-> [c EXCEPT !.acks = Only(@, ToSet(@) \ {id})],
   told |-> [td EXCEPT !.reps = [r \in Reps |-> IF r = id /\ Contains(c.acks, r)
                                                THEN @[r] + 1 ELSE @[r]]]]

\* The twin or a patch of it for the callback of the application.
RetrievePropertyComplete(c, td, state) ==
  LET seen == c.complete \/ state = "COMPLETE"
  IN  IF ~c.callback THEN [core |-> c, told |-> td]
      ELSE [core |-> [c EXCEPT !.complete = seen],
            told |-> [td EXCEPT !.whole = @ \/ state = "COMPLETE",
                                !.early = @ \/ (seen /\ state = "PARTIAL" /\ ~td.whole)]]

\* What DisconnectFromClient may come to.  A DISCONNECT is sent and the
\* connection closed; or the send fails; or it stays in the buffer, and after
\* MAX_DISCONNECT_VALUE attempts the connection is destroyed below mqtt_client.
DisconnectFromClient(t) ==
  LET dropped(u, m, n) ==
        [tr |-> [u EXCEPT !.getSent = FALSE, !.status = "NOT_CONNECTED", !.pkt = "DISCONNECT"],
         mq |-> Destroyed(m), net |-> HungUp(n)]
  IN  IF t.pkt = "DISCONNECT" THEN {[tr |-> t, mq |-> mq, net |-> net]}
      ELSE IF t.status # "CONNECTED" THEN {dropped(t, mq, net)}
      ELSE {dropped(t, Closed(mq), net)}
           \cup (IF net.state = "lost" THEN {dropped(mqtt_error_callback(t), Closed(mq), net)} ELSE {})
           \cup (IF MayFail("block") THEN {dropped(t, mq, Fault(net))} ELSE {})

BecomesOutcome(o) == mq' = o.mq /\ net' = o.net

----------------------------------------------------------------------------
\* Calls of the application.

SendEventAsync(m) ==
  /\ Idle /\ m \in net.scene.asks \ told.asked
  /\ core' = [core EXCEPT !.waiting = Append(@, [msg |-> m, age |-> 0])]
  /\ told' = [told EXCEPT !.asked = @ \cup {m}]
  /\ UNCHANGED <<mq, net, tr, pc>>

\* Fault: a topic that is given up stays among those that are due.
SetDeviceTwinCallback_due(on) ==
  /\ Idle /\ told.toggles < net.scene.toggles
  /\ tr' = IF on THEN SubscribeTopic(tr, "twin") ELSE [tr EXCEPT !.topics = @ \ {"twin", "notify"}]
  /\ core' = [core EXCEPT !.callback = on]
  /\ told' = [told EXCEPT !.toggles = @ + 1]
  /\ UNCHANGED <<mq, net, pc>>

SetDeviceTwinCallback(on) ==
  /\ Idle /\ told.toggles < net.scene.toggles
  /\ tr' = IF on THEN SubscribeTopic(tr, "twin")
           ELSE [tr EXCEPT !.topics = @ \ {"twin", "notify"}, !.toSub = @ \ {"twin", "notify"}]
  /\ core' = [core EXCEPT !.callback = on]
  /\ told' = [told EXCEPT !.toggles = @ + 1]
  /\ UNCHANGED <<mq, net, pc>>

GetTwinAsync(g) ==
  /\ Idle /\ g \in net.scene.asks \ told.asked
  /\ LET pid == PidAfter(tr.pid, 1)
     IN  tr' = [SubscribeTopic(tr, "twin") EXCEPT
                  !.pid = pid,
                  !.twinPend = Append(@, [pid |-> pid, kind |-> "demand", id |-> g, age |-> 0])]
  /\ core' = [core EXCEPT !.complete = TRUE]
  /\ told' = [told EXCEPT !.asked = @ \cup {g}]
  /\ UNCHANGED <<mq, net, pc>>

SendReportedState(r) ==
  /\ Idle /\ r \in net.scene.asks \ told.asked
  /\ tr' = SubscribeTopic(tr, "twin")
  /\ core' = [core EXCEPT !.reports = Append(@, r)]
  /\ told' = [told EXCEPT !.asked = @ \cup {r}]
  /\ UNCHANGED <<mq, net, pc>>

\* IoTHubClientCore_LL_Destroy: the transport gives back what it has, the core
\* what was never sent.
Destroy ==
  /\ Idle
  /\ \E o \in DisconnectFromClient(tr) :
       /\ BecomesOutcome(o)
       /\ tr' = [o.tr EXCEPT !.inflight = <<>>, !.twinAck = <<>>, !.twinPend = <<>>]
  /\ core' = [core EXCEPT !.waiting = <<>>, !.reports = <<>>, !.acks = <<>>]
  /\ LET waits == {e.msg : e \in ToSet(core.waiting) \cup ToSet(tr.inflight)}
         all == ToSet(tr.twinAck) \cup ToSet(tr.twinPend)
         ids(kind) == {e.id : e \in {x \in all : x.kind = kind}}
         td == TwinAnswered(SendComplete(told, waits, "destroy"), ids("demand"))
     IN  told' = [td EXCEPT !.reps = [r \in Reps |-> IF r \in ids("report") /\ Contains(core.acks, r)
                                                     THEN @[r] + 1 ELSE @[r]]]
  /\ Goto("gone")

----------------------------------------------------------------------------
\* IoTHubClientCore_LL_DoWork: DoTimeouts, then ProcessItem for each reported
\* state until one may not be sent; one whose publish fails is dropped.

Late(e) == MSGTIMEOUT # 0 /\ e.age > MSGTIMEOUT

\* The first k reported states were published, of those that were tried.
ProcessItems(k, tried) ==
  [tr EXCEPT !.pid = PidAfter(@, tried),
             !.twinAck = @ \o [i \in 1 .. k |-> [pid |-> PidAfter(tr.pid, i), kind |-> "report",
                                                id |-> core.reports[i], age |-> 0]]]

CoreDoWork ==
  LET n == IF tr.pkt = "PUBLISH" /\ tr.subRecv THEN Len(core.reports) ELSE 0
      packets == [i \in 1 .. n |-> [type |-> "REPORT", pid |-> PidAfter(tr.pid, i)]]
  IN  /\ Idle
      /\ \E k \in Accepted(n) :
           LET tried == IF Breaks(k, n) THEN k + 1 ELSE n
               t == ProcessItems(k, tried)
           IN  /\ ChannelSent(packets, k)
               /\ tr' = IF Breaks(k, n) THEN mqtt_error_callback(t) ELSE t
               /\ core' = [core EXCEPT !.waiting = Only(@, {e \in ToSet(@) : ~Late(e)}),
                                       !.reports = SubSeq(@, tried + 1, Len(@)),
                                       !.acks = @ \o SubSeq(core.reports, 1, k)]
      /\ told' = SendComplete(told, {e.msg : e \in {x \in ToSet(core.waiting) : Late(x)}}, "timeout")
      /\ Goto("conn")

----------------------------------------------------------------------------
\* InitializeConnection.  When it fails, only the timeouts follow.

\* The retry control says now: ResetConnectionIfNecessary, SendMqttConnectMsg.
ConnectNow ==
  /\ pc.at = "conn" /\ tr.status = "NOT_CONNECTED" /\ tr.recover
  /\ mq' = Connecting(mq) /\ net' = Dialling(net)
  /\ tr' = [tr EXCEPT !.pkt = "CONNECT", !.status = "CONNECTING", !.cage = 0]
  /\ Goto("work") /\ UNCHANGED <<core, told>>

\* The retry control says later, or the connection cannot be opened.
ConnectLater ==
  /\ pc.at = "conn" /\ tr.status = "NOT_CONNECTED" /\ tr.recover
  /\ Goto("acks") /\ UNCHANGED <<mq, net, core, tr, told>>

ExecuteDisconnect ==
  /\ pc.at = "conn" /\ tr.status = "EXECUTE_DISCONNECT"
  /\ \E o \in DisconnectFromClient(tr) : BecomesOutcome(o) /\ tr' = o.tr
  /\ Goto("work") /\ UNCHANGED <<core, told>>

ConnectTimedOut == tr.status = "CONNECTING" /\ tr.cage > CONNWAIT

ConnackTimeout ==
  /\ pc.at = "conn" /\ ConnectTimedOut
  /\ \E o \in DisconnectFromClient([tr EXCEPT !.pkt = "ERROR"]) : BecomesOutcome(o) /\ tr' = o.tr
  /\ Goto("acks") /\ UNCHANGED <<core, told>>

\* The SAS token has to be renewed.
SasExpired ==
  /\ pc.at = "conn" /\ tr.status = "CONNECTED" /\ MayFail("sas")
  /\ \E o \in DisconnectFromClient(tr) :
       /\ mq' = o.mq /\ net' = Fault(o.net)
       /\ tr' = [o.tr EXCEPT !.pkt = "UNKNOWN", !.toSub = @ \cup tr.topics]
  /\ Goto("work") /\ UNCHANGED <<core, told>>

\* Fault: the client waits for CONNACK without a limit.
StayConnected_forever ==
  /\ pc.at = "conn" /\ tr.status # "EXECUTE_DISCONNECT"
  /\ ~(tr.status = "NOT_CONNECTED" /\ tr.recover)
  /\ Goto("work") /\ UNCHANGED <<mq, net, core, tr, told>>

StayConnected ==
  /\ pc.at = "conn" /\ tr.status # "EXECUTE_DISCONNECT" /\ ~ConnectTimedOut
  /\ ~(tr.status = "NOT_CONNECTED" /\ tr.recover)
  /\ Goto("work") /\ UNCHANGED <<mq, net, core, tr, told>>

----------------------------------------------------------------------------
\* DoWork by the status and the packet state.

\* The hub refused the connection: mqtt_client_disconnect closes it.
PendingClose ==
  /\ pc.at = "work" /\ tr.status = "PENDING_CLOSE"
  /\ mq' = Closed(mq) /\ net' = HungUp(net)
  /\ tr' = [tr EXCEPT !.status = "NOT_CONNECTED"]
  /\ Goto("recv") /\ UNCHANGED <<core, told>>

Working(pkts) == pc.at = "work" /\ tr.status # "PENDING_CLOSE" /\ tr.pkt \in pkts

\* SubscribeToMqttProtocol: one packet for all topics that are due.
SubscribeToMqttProtocol ==
  LET topics == tr.toSub \cap tr.topics
      pid == PidAfter(tr.pid, 1)
      t == [tr EXCEPT !.pid = pid, !.subPid = IF "twin" \in topics THEN pid ELSE @]
  IN  /\ Working({"CONNACK", "SUBSCRIBE"})
      /\ IF tr.toSub = {} THEN tr' = [tr EXCEPT !.pkt = "PUBLISH"] /\ UNCHANGED <<mq, net>>
         ELSE \E k \in Accepted(1) :
                /\ ChannelSent(<<[type |-> "SUBSCRIBE", pid |-> pid, topics |-> topics]>>, k)
                /\ tr' = [(IF k = 1 THEN [t EXCEPT !.toSub = @ \ topics]
                           ELSE IF Breaks(k, 1) THEN mqtt_error_callback(t) ELSE t)
                          EXCEPT !.pkt = "SUBSCRIBE"]
      /\ Goto("recv") /\ UNCHANGED <<core, told>>

\* The topics are subscribed: the twin is asked for, and messages may follow.
SubackReceived ==
  LET pid == PidAfter(tr.pid, 1)
      asks == tr.topics \cap {"twin", "notify"} # {} /\ ~tr.getSent
      t == [tr EXCEPT !.pid = pid]
  IN  /\ Working({"SUBACK"})
      /\ IF ~asks THEN tr' = [tr EXCEPT !.pkt = "PUBLISH"] /\ UNCHANGED <<mq, net>>
         ELSE \E k \in Accepted(1) :
                /\ ChannelSent(<<[type |-> "GET", pid |-> pid]>>, k)
                /\ tr' = [(IF k = 1
                           THEN [t EXCEPT !.getSent = TRUE,
                                          !.twinAck = Append(@, [pid |-> pid, kind |-> "auto",
                                                                 id |-> AUTO, age |-> 0])]
                           ELSE IF Breaks(k, 1) THEN mqtt_error_callback(t) ELSE t)
                          EXCEPT !.pkt = "PUBLISH"]
      /\ Goto("recv") /\ UNCHANGED <<core, told>>

\* Fault: what could not be published stays in waitingToSend too.
PublishWaiting_keep(k, n) == SubSeq(core.waiting, 1 + IF k < n THEN k ELSE n, n)

\* waitingToSend after it was published: nothing stays, whatever became of it.
PublishWaiting(k, n) == <<>>

\* Every waiting message is published, or confirmed as failed; then
\* sendPendingGetTwinRequests: a request whose publish fails is forgotten.
PublishAll ==
  LET n == Len(core.waiting)
      all == n + Len(tr.twinPend)
      inflight(i) == [msg |-> core.waiting[i].msg, pid |-> PidAfter(tr.pid, i), retry |-> 1, age |-> 0]
      packets == [i \in 1 .. all |->
                    IF i <= n THEN [type |-> "PUBLISH", pid |-> inflight(i).pid, msg |-> core.waiting[i].msg]
                    ELSE [type |-> "GET", pid |-> tr.twinPend[i - n].pid]]
  IN  /\ Working({"PUBLISH"})
      /\ \E k \in Accepted(all) :
           LET m == IF k < n THEN k ELSE n
               t == [tr EXCEPT !.pid = PidAfter(@, n), !.twinPend = <<>>,
                               !.inflight = @ \o [i \in 1 .. m |-> inflight(i)],
                               !.twinAck = @ \o SubSeq(tr.twinPend, 1, k - m),
                               !.getSent = @ \/ k > n]
           IN  /\ ChannelSent(packets, k)
               /\ tr' = IF Breaks(k, all) THEN mqtt_error_callback(t) ELSE t
               /\ told' = SendComplete(told, {core.waiting[i].msg : i \in m + 1 .. n}, "error")
               /\ core' = [core EXCEPT !.waiting = PublishWaiting(k, n)]
      /\ Goto("recv")

NothingToDo ==
  /\ pc.at = "work" /\ tr.status # "PENDING_CLOSE"
  /\ tr.pkt \notin {"CONNACK", "SUBSCRIBE", "SUBACK", "PUBLISH"}
  /\ Goto("recv") /\ UNCHANGED <<mq, net, core, tr, told>>

----------------------------------------------------------------------------
\* mqtt_client_dowork and the callbacks it leads to.

Reads == pc.at = "recv" /\ mq.xio = "live"

\* onOpenComplete with IO_OPEN_OK: CONNECT is sent, unless the client believes
\* that it has a connection; then the new one is closed.
onOpenComplete ==
  /\ Reads /\ net.state = "opening"
  /\ IF mq.sock THEN mq' = Closed(mq) /\ net' = HungUp(net)
     ELSE /\ mq' = [mq EXCEPT !.sock = TRUE]
          /\ net' = [net EXCEPT !.state = "open", !.up = <<[type |-> "CONNECT"]>>]
  /\ UNCHANGED <<core, tr, pc, told>>

\* onOpenComplete with an error.
onOpenError ==
  /\ Reads /\ net.state = "opening" /\ MayFail("lose")
  /\ tr' = IF mq.sock THEN tr ELSE mqtt_error_callback(tr)
  /\ mq' = Closed(mq) /\ net' = Fault(HungUp(net))
  /\ UNCHANGED <<core, pc, told>>

\* mqtt_operation_complete_callback for CONNACK.
OnConnack(code) ==
  /\ tr' = CASE code = "ok" -> [tr EXCEPT !.pkt = "CONNACK", !.recover = TRUE, !.status = "CONNECTED"]
             [] OTHER -> [tr EXCEPT !.pkt = "ERROR", !.status = "PENDING_CLOSE",
                                    !.recover = @ /\ code # "bad"]
  /\ mq' = [mq EXCEPT !.conn = @ \/ code = "ok"]
  /\ UNCHANGED <<core, told>>

\* Fault: the oldest message is taken to be the one that is acknowledged.
Acknowledged_head(e, pid) == e = Head(tr.inflight)

Acknowledged(e, pid) == e.pid = pid

\* mqtt_operation_complete_callback for PUBACK.
OnPuback(pid) ==
  /\ told' = SendComplete(told, {e.msg : e \in {x \in ToSet(tr.inflight) : Acknowledged(x, pid)}}, "ok")
  /\ tr' = [tr EXCEPT !.inflight = Only(@, {e \in ToSet(@) : ~Acknowledged(e, pid)})]
  /\ UNCHANGED <<mq, core>>

\* mqtt_operation_complete_callback for SUBACK.
OnSuback(pid) ==
  /\ tr' = [tr EXCEPT !.pkt = "SUBACK", !.subRecv = @ \/ pid = tr.subPid]
  /\ UNCHANGED <<mq, core, told>>

\* mqtt_notification_callback for the answer to the first request with this ID.
OnTwin(pid) ==
  LET found == {i \in 1 .. Len(tr.twinAck) : tr.twinAck[i].pid = pid}
      i == CHOOSE x \in found : \A y \in found : x <= y
      e == tr.twinAck[i]
      t == [tr EXCEPT !.twinAck = RemoveAt(@, i)]
      automatic == RetrievePropertyComplete(core, told, "COMPLETE")
      reported == ReportedStateComplete(core, told, e.id)
  IN  /\ IF found = {} THEN UNCHANGED <<core, tr, told>>
         ELSE \/ /\ e.kind = "demand" /\ tr' = t /\ UNCHANGED core
                 /\ told' = [TwinAnswered(told, {e.id}) EXCEPT !.whole = TRUE]
              \/ /\ e.kind = "auto" /\ tr' = SubscribeTopic(t, "notify")
                 /\ core' = automatic.core /\ told' = automatic.told
              \/ /\ e.kind = "report" /\ tr' = SubscribeTopic(t, "notify")
                 /\ core' = reported.core /\ told' = reported.told
      /\ UNCHANGED mq

\* mqtt_notification_callback for a patch.
OnPatch ==
  LET patched == RetrievePropertyComplete(core, told, "PARTIAL")
  IN  core' = patched.core /\ told' = patched.told /\ UNCHANGED <<mq, tr>>

\* The next packet that came is read.
Receive ==
  LET p == Head(net.down)
  IN  /\ Reads /\ mq.sock /\ net.down # <<>>
      /\ net' = [net EXCEPT !.down = Tail(@)]
      /\ \/ p.type = "CONNACK" /\ OnConnack(p.code)
         \/ p.type = "PUBACK" /\ OnPuback(p.pid)
         \/ p.type = "SUBACK" /\ OnSuback(p.pid)
         \/ p.type = "TWIN" /\ OnTwin(p.pid)
         \/ p.type = "PATCH" /\ OnPatch
      /\ UNCHANGED pc

\* onIoError, and the keep-alive when no answer comes: set_error_callback.
ConnectionError ==
  /\ Reads /\ net.down = <<>>
  /\ net.state = "lost" \/ (net.state = "silent" /\ mq.conn)
  /\ tr' = mqtt_error_callback(tr) /\ mq' = Closed(mq) /\ net' = HungUp(net)
  /\ UNCHANGED <<core, pc, told>>

\* mqtt_client_dowork returns.  With a handle whose connection is destroyed its
\* behaviour is undefined.
DoworkReturns ==
  /\ pc.at = "recv"
  /\ mq.xio = "live" => net.down = <<>> /\ net.state # "lost"
  /\ Goto(IF mq.xio = "stale" THEN "undefined" ELSE "acks")
  /\ UNCHANGED <<mq, net, core, tr, told>>

----------------------------------------------------------------------------
\* process_queued_ack_messages, one entry after the other.

InAcks == pc.at = "acks" /\ pc.i <= Len(tr.inflight)
Entry == tr.inflight[pc.i]
Expired == InAcks /\ Entry.age > RESEND
Removed == [tr EXCEPT !.inflight = RemoveAt(@, pc.i)]
NextEntry == pc' = [at |-> pc.at, i |-> pc.i + 1]

StillWaiting == InAcks /\ ~Expired /\ NextEntry /\ UNCHANGED <<mq, net, core, tr, told>>

\* No answer after the last attempt: the connection is given up too.
GiveUp ==
  /\ Expired /\ Entry.retry >= RETRIES
  /\ told' = SendComplete(told, {Entry.msg}, "timeout")
  /\ \E o \in DisconnectFromClient(Removed) : BecomesOutcome(o) /\ tr' = o.tr
  /\ UNCHANGED <<core, pc>>

Again == [tr EXCEPT !.inflight[pc.i].retry = @ + 1, !.inflight[pc.i].age = 0]

Resend ==
  /\ Expired /\ Entry.retry < RETRIES /\ tr.pkt = "PUBLISH"
  /\ \E k \in Accepted(1) :
       /\ ChannelSent(<<[type |-> "PUBLISH", pid |-> Entry.pid, msg |-> Entry.msg]>>, k)
       /\ \/ k = 1 /\ tr' = Again /\ NextEntry /\ UNCHANGED told
          \/ k = 0 /\ tr' = (IF Breaks(k, 1) THEN mqtt_error_callback(Removed) ELSE Removed)
             /\ told' = SendComplete(told, {Entry.msg}, "error") /\ UNCHANGED pc
  /\ UNCHANGED core

\* Fault: an attempt counts only when something was sent.
CountAttempt_not ==
  /\ Expired /\ Entry.retry < RETRIES /\ tr.pkt # "PUBLISH"
  /\ tr' = [tr EXCEPT !.inflight[pc.i].age = 0] /\ NextEntry /\ UNCHANGED <<mq, net, core, told>>

\* Not connected: the attempt counts all the same.
CountAttempt ==
  /\ Expired /\ Entry.retry < RETRIES /\ tr.pkt # "PUBLISH"
  /\ tr' = Again /\ NextEntry /\ UNCHANGED <<mq, net, core, told>>

\* Fault: a request that is given up stays in the queue of those that wait.
RemoveExpiredGets_stay ==
  /\ pc.at = "acks" /\ pc.i > Len(tr.inflight)
  /\ told' = TwinAnswered(told, {e.id : e \in {x \in ToSet(tr.twinAck) : x.kind = "demand" /\ x.age >= TWINWAIT}})
  /\ Goto("idle") /\ UNCHANGED <<mq, net, core, tr>>

\* removeExpiredPendingGetTwinRequests and removeExpiredGetTwinRequestsPendingAck.
RemoveExpiredGets ==
  LET all == ToSet(tr.twinPend) \cup ToSet(tr.twinAck)
      gone == {e \in all : e.kind = "demand" /\ e.age >= TWINWAIT}
  IN  /\ pc.at = "acks" /\ pc.i > Len(tr.inflight)
      /\ tr' = [tr EXCEPT !.twinPend = Only(@, all \ gone), !.twinAck = Only(@, all \ gone)]
      /\ told' = TwinAnswered(told, {e.id : e \in gone})
      /\ Goto("idle") /\ UNCHANGED <<mq, net, core>>

----------------------------------------------------------------------------
\* Time passes between two calls of DoWork (external).

Older(e, max) == [e EXCEPT !.age = IF @ < max THEN @ + 1 ELSE @]
OlderGets(q) == [i \in 1 .. Len(q) |-> IF q[i].kind = "demand" THEN Older(q[i], TWINWAIT) ELSE q[i]]

Tick ==
  /\ Idle
  /\ tr' = [tr EXCEPT
              !.cage = IF tr.status = "CONNECTING" /\ @ <= CONNWAIT THEN @ + 1 ELSE @,
              !.inflight = [i \in 1 .. Len(@) |-> Older(@[i], RESEND + 1)],
              !.twinAck = OlderGets(@), !.twinPend = OlderGets(@)]
  /\ core' = IF MSGTIMEOUT = 0 THEN core
             ELSE [core EXCEPT !.waiting = [i \in 1 .. Len(@) |-> Older(@[i], MSGTIMEOUT + 1)]]
  /\ UNCHANGED <<mq, net, pc, told>>

Application ==
  \/ \E m \in Msgs : SendEventAsync(m)
  \/ \E on \in BOOLEAN : SetDeviceTwinCallback(on)
  \/ \E g \in Gets : GetTwinAsync(g)
  \/ \E r \in Reps : SendReportedState(r)

DoWork ==
  \/ CoreDoWork
  \/ ConnectNow \/ ConnectLater \/ ExecuteDisconnect \/ ConnackTimeout \/ StayConnected
  \/ PendingClose \/ SubscribeToMqttProtocol \/ SubackReceived \/ PublishAll \/ NothingToDo
  \/ onOpenComplete \/ Receive \/ ConnectionError \/ DoworkReturns
  \/ StillWaiting \/ GiveUp \/ Resend \/ CountAttempt \/ RemoveExpiredGets

\* The network and the hub move between two calls of DoWork.
Outside == Idle /\ (HubPatch \/ NetworkFails) /\ UNCHANGED <<core, tr, pc, told>>
Hub == Idle /\ HubStep /\ UNCHANGED <<core, tr, pc, told>>

\* The network of a patient client is slow, but not slower than the time the client
\* waits: time passes only when no packet is under way on a connection that works.
Quiet == net.state # "opening" /\ (net.state = "open" => net.up = <<>> /\ net.down = <<>>)
TimePasses == (net.scene.patient => Quiet) /\ Tick

TransportNext == Application \/ Destroy \/ DoWork \/ SasExpired \/ onOpenError \/ Hub \/ Outside \/ TimePasses

transportvars == <<mq, net, core, tr, pc, told>>
TransportSpec == TransportInit /\ [][TransportNext]_transportvars

\* The application goes on calling DoWork, and time passes: nothing else is assumed
\* of the network and the hub, but for a patient client.  There the retry control says
\* now again and again, a connection that is opened opens, the keep-alive notices a dead
\* one, and the hub accepts at some time.
Accepting == Hub /\ (Head(net.up).type = "CONNECT" => Last(net'.down).code = "ok")
FairTransportSpec ==
  /\ TransportSpec /\ WF_transportvars(DoWork) /\ SF_transportvars(TimePasses)
  /\ SF_transportvars(net.scene.patient /\ ConnectNow)
  /\ SF_transportvars(net.scene.patient /\ onOpenComplete)
  /\ SF_transportvars(net.scene.patient /\ ConnectionError)
  /\ SF_transportvars(net.scene.patient /\ Accepting)
=============================================================================
