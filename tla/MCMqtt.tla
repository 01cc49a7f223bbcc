------------------------------- MODULE MCMqtt -------------------------------
(***************************************************************************)
(* The IoT Hub client for TLC, and its properties.                         *)
(***************************************************************************)
EXTENDS MqttTransport

CONSTANTS m1, m2, g1, r1, r2

Scene(asks, toggles, connacks, faults, maxfault, patches, patient) ==
  [asks |-> asks, toggles |-> toggles, connacks |-> connacks, faults |-> faults,
   maxfault |-> maxfault, patches |-> patches, patient |-> patient]

\* Messages to a hub that may refuse the connection; the twin, asked for and reported,
\* with a patch; reported states with the callback set and given up.
HubScenes == {Scene({m1, m2}, 0, {"ok", "busy", "bad"}, {"lose", "silent", "block"}, 2, 0, FALSE),
              Scene({g1, r1}, 1, {"ok"}, {"lose", "sas"}, 1, 1, FALSE),
              Scene({r1, r2}, 2, {"ok"}, {"lose", "sas"}, 1, 0, FALSE)}

\* A message and a request for the twin, whatever happens; a message of a patient client.
FairScenes == {Scene({m1, g1}, 0, {"ok", "busy"}, {"lose", "silent"}, 1, 0, FALSE),
               Scene({m1}, 0, {"ok", "busy"}, {"lose", "silent", "block"}, 2, 0, TRUE)}

Count(q, Test(_)) == Cardinality({i \in 1 .. Len(q) : Test(q[i])})

\* The types.
TransportTypeOK ==
  /\ mq \in [xio : {"none", "live", "stale"}, sock : BOOLEAN, conn : BOOLEAN]
  /\ net.state \in {"none", "opening", "open", "lost", "silent"}
  /\ tr.status \in {"NOT_CONNECTED", "CONNECTING", "CONNECTED", "PENDING_CLOSE", "EXECUTE_DISCONNECT"}
  /\ tr.pkt \in {"CONNECT", "CONNACK", "SUBSCRIBE", "SUBACK", "PUBLISH", "DISCONNECT", "ERROR", "UNKNOWN"}
  /\ tr.toSub \subseteq tr.topics /\ tr.topics \subseteq {"twin", "notify"}

\* A message that SendEventAsync accepted is in one place: it waits, or it is in
\* flight, or the application was told once what became of it; after the client
\* is destroyed it was told (SendEventAsync to Destroy).
ToldOnce ==
  \A m \in Msgs :
    LET isM(e) == e.msg = m
    IN  /\ Count(core.waiting, isM) + Count(tr.inflight, isM) + Len(told.conf[m])
             = (IF m \in told.asked THEN 1 ELSE 0)
        /\ (pc.at = "gone" /\ m \in told.asked) => told.conf[m] # <<>>

\* The transport keeps the promise of the core: every message is confirmed once,
\* and as sent only if the hub has it (iothub_client_core_ll.c, SendComplete).
Promise == INSTANCE EventSpec WITH
  Events <- Msgs, Results <- {"ok", "error", "timeout", "destroy"},
  accepted <- told.asked \cap Msgs, outcome <- told.conf, received <- net.got \cap Msgs,
  pending <- {e.msg : e \in ToSet(core.waiting) \cup ToSet(tr.inflight)}
PromiseKept == Promise!Spec

\* The states agree: the transport is connected only on a connection that
\* mqtt_client holds too, and it publishes only while it is connected or has an
\* error to handle (mqtt_operation_complete_callback, DisconnectFromClient).
StatesAgree ==
  /\ tr.status = "CONNECTED" => mq.xio = "live" /\ mq.sock /\ mq.conn
                                /\ net.state \in {"open", "lost", "silent"}
  /\ tr.pkt = "PUBLISH" => tr.status \in {"CONNECTED", "EXECUTE_DISCONNECT"}
  /\ tr.status = "CONNECTING" => mq.xio # "stale"

\* What transport, MQTT client and network take the connection for.
ConnectionOK == TransportTypeOK /\ StatesAgree

\* The two queues of reported states that wait for an answer, of the core and
\* of the transport, hold the same ones in the same order (ProcessItem,
\* IoTHubClientCore_LL_ReportedStateComplete).
AcksMatch ==
  LET reports == {p \in 1 .. Len(tr.twinAck) : tr.twinAck[p].kind = "report"}
  IN  /\ \A p \in reports : Contains(core.acks, tr.twinAck[p].id)
      /\ \A i, j \in 1 .. Len(core.acks) :
           i <= j => \E p, q \in reports :
                       p <= q /\ tr.twinAck[p].id = core.acks[i] /\ tr.twinAck[q].id = core.acks[j]
      /\ \A r \in Reps :
           LET isR(a) == a = r
               reportsR(e) == e.kind = "report" /\ e.id = r
           IN  /\ told.reps[r] + Count(core.acks, isR) + Count(core.reports, isR) <= 1
               /\ Count(tr.twinAck, reportsR) <= 1

\* A request for the twin is answered at most once, and never while it is still
\* queued (GetTwinAsync to the callback).
AnsweredOnce ==
  \A g \in Gets :
    LET isG(e) == e.kind = "demand" /\ e.id = g
    IN  told.answers[g] + Count(tr.twinAck, isG) + Count(tr.twinPend, isG) <= 1

\* Everything the application asks for is in one place or told of once: messages,
\* requests for the twin, reported states (iothub_client_core_ll.c and the transport).
OnceEach == ToldOnce /\ AnsweredOnce /\ AcksMatch

\* A request for the twin is queued or answered, as the interface promises.
NoGetLost ==
  \A g \in Gets :
    LET isG(e) == e.kind = "demand" /\ e.id = g
    IN  g \in told.asked => told.answers[g] + Count(tr.twinAck, isG) + Count(tr.twinPend, isG) >= 1

\* Once the topic of the twin is subscribed and messages may be published, the
\* twin was asked for (SRS_IOTHUB_MQTT_TRANSPORT_07_055).
TwinAskedAfterSuback ==
  (Idle /\ tr.status = "CONNECTED" /\ tr.pkt = "PUBLISH" /\ core.callback /\ tr.subRecv /\ tr.toSub = {})
     => tr.getSent

\* The callback of the application gets no patch before it got a whole twin
\* (SRS_IOTHUBCLIENT_LL_07_015).
NoEarlyPatch == ~told.early

\* mqtt_client_dowork does nothing when the client is disconnected
\* (SRS_MQTT_CLIENT_18_001).
DoworkDefined == pc.at # "undefined"

\* A connection that has opened is used to send CONNECT (SRS_MQTT_CLIENT_07_009).
OpenSendsConnect ==
  [][net.state = "opening" /\ net.state' # "opening" /\ mq'.xio = "none" => net'.faults > net.faults]_transportvars

\* The application is told what became of every message, and gets an answer to
\* every request for the twin that is waiting, whatever the network and the hub
\* do (process_queued_ack_messages, DoTimeouts, removeExpired...).
EventuallyTold ==
  /\ \A m \in Msgs : m \in told.asked ~> told.conf[m] # <<>>
  /\ []<>(pc.at = "gone" \/ \A q \in {tr.twinAck, tr.twinPend} : \A e \in ToSet(q) : e.kind # "demand")

\* The client gets back to a connection on which it publishes, whatever failed
\* (DisconnectFromClient, InitializeConnection, onOpenComplete).
Recovers ==
  net.scene.patient => []<>(pc.at = "gone" \/ (tr.status = "CONNECTED" /\ tr.pkt = "PUBLISH" /\ net.state = "open"))
=============================================================================
