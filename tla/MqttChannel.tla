----------------------------- MODULE MqttChannel -----------------------------
(***************************************************************************)
(* The connection below the MQTT transport of the IoT Hub client: the      *)
(* connection state of umqtt (umqtt/src/mqtt_client.c) over its TLS and    *)
(* socket layers, and, external to the program, the network and the hub.   *)
(* The handlers work on two records:                                       *)
(*   mq   xio   the handle mqtt_client keeps: "none" (NULL), "live", or    *)
(*              "stale" when the transport has destroyed what it points to *)
(*        sock  socketConnected          conn  clientConnected             *)
(*   net  state of the connection, the packets under way up and down, the  *)
(*        topics the hub sends on (a session outlives a connection), the   *)
(*        messages it got, the patches it sent, the faults so far, and the *)
(*        scene, which never changes                                       *)
(***************************************************************************)
EXTENDS Naturals, Sequences, SequencesExt

CONSTANT SCENES  \* what the application, the hub and the network may do; of each scene:
  \* asks      the requests of the application
  \* toggles   bound of the model on the calls of SetDeviceTwinCallback
  \* connacks  the answers the hub gives to CONNECT
  \* faults    what may go wrong, and maxfault, how often
  \* patches   bound of the model on the patches of the twin
  \* patient   the client waits longer than the network takes

ASSUME SceneAssumption ==
  \A s \in SCENES :
    /\ s.connacks \subseteq {"ok", "busy", "bad"} /\ "ok" \in s.connacks
    /\ s.faults \subseteq {"lose", "silent", "block", "sas"}
    /\ {s.maxfault, s.patches, s.toggles} \subseteq Nat /\ s.patient \in BOOLEAN

VARIABLES mq, net

ChannelInit ==
  /\ mq = [xio |-> "none", sock |-> FALSE, conn |-> FALSE]
  /\ \E scene \in SCENES :
       net = [scene |-> scene, state |-> "none", up |-> <<>>, down |-> <<>>, subs |-> {},
              got |-> {}, patches |-> 0, faults |-> 0]

MayFail(fault) == fault \in net.scene.faults /\ net.faults < net.scene.maxfault
Fault(n) == [n EXCEPT !.faults = @ + 1]

----------------------------------------------------------------------------
\* Nothing of a connection is left; the hub keeps the session.
HungUp(n) == [n EXCEPT !.state = "none", !.up = <<>>, !.down = <<>>]

\* close_connection: xio_close calls on_connection_closed before it returns.
Closed(m) == [xio |-> "none", sock |-> FALSE, conn |-> FALSE]

\* xio_destroy by the transport: mqtt_client keeps the handle.
Destroyed(m) == [m EXCEPT !.xio = IF @ = "live" THEN "stale" ELSE @]

\* mqtt_client_connect: xio_open has started.
Connecting(m) == [m EXCEPT !.xio = "live"]
Dialling(n) == [n EXCEPT !.state = "opening"]

\* How many of n packets that are sent one after the other are accepted: a
\* connection that is lost may show it at any of them.
Accepted(n) ==
  IF mq.xio # "live" \/ net.state \in {"none", "opening"} THEN {0}
  ELSE IF net.state = "lost" THEN 0 .. n ELSE {n}

\* A send that fails on a connection reports an error to mqtt_client and closes it.
Breaks(k, n) == k < n /\ mq.xio = "live" /\ net.state = "lost"

\* The packets ps were sent; a connection that is dead swallows them.
WithSent(n, ps) == IF n.state = "open" THEN [n EXCEPT !.up = @ \o ps] ELSE n

\* mq and net after the first k of the packets ps were accepted.
ChannelSent(ps, k) ==
  /\ mq' = IF Breaks(k, Len(ps)) THEN Closed(mq) ELSE mq
  /\ net' = IF Breaks(k, Len(ps)) THEN HungUp(net) ELSE WithSent(net, SubSeq(ps, 1, k))

----------------------------------------------------------------------------
\* The hub and the network (external).

Answer(p, code) ==
  CASE p.type = "CONNECT" -> <<[type |-> "CONNACK", code |-> code]>>
    [] p.type = "SUBSCRIBE" -> <<[type |-> "SUBACK", pid |-> p.pid]>>
    [] p.type = "PUBLISH" -> <<[type |-> "PUBACK", pid |-> p.pid]>>
    [] OTHER -> IF "twin" \in net.subs THEN <<[type |-> "TWIN", pid |-> p.pid]>> ELSE <<>>

\* The hub takes the next packet and answers it.
HubStep ==
  /\ net.state = "open" /\ net.up # <<>>
  /\ LET p == Head(net.up)
     IN  \E code \in IF p.type = "CONNECT" THEN net.scene.connacks ELSE {"ok"} :
           net' = [net EXCEPT !.up = Tail(@), !.down = @ \o Answer(p, code),
                              !.subs = IF p.type = "SUBSCRIBE" THEN @ \cup p.topics ELSE @,
                              !.got = IF p.type = "PUBLISH" THEN @ \cup {p.msg} ELSE @]
  /\ UNCHANGED mq

\* The desired properties change at the service.
HubPatch ==
  /\ net.state = "open" /\ mq.conn /\ "notify" \in net.subs /\ net.patches < net.scene.patches
  /\ net' = [net EXCEPT !.down = Append(@, [type |-> "PATCH"]), !.patches = @ + 1]
  /\ UNCHANGED mq

\* The connection ends, or the network goes dead; what was under way may be lost.
NetworkFails ==
  \E fault \in {"lose", "silent"}, rest \in {net.down, <<>>} :
    /\ MayFail(fault) /\ net.state = "open"
    /\ net' = [Fault(net) EXCEPT !.state = IF fault = "lose" THEN "lost" ELSE "silent",
                                 !.up = <<>>, !.down = rest]
    /\ UNCHANGED mq
=============================================================================
