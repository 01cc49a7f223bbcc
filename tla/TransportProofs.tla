--------------------------- MODULE TransportProofs ---------------------------
(***************************************************************************)
(* The transport, the MQTT client below it and the network agree on the    *)
(* state of the connection, for all messages and requests, whatever the    *)
(* scenes let fail, and whatever the limits on time and attempts are.      *)
(***************************************************************************)
EXTENDS MCMqtt, FiniteSetTheorems, SequenceTheorems, TLAPS

----------------------------------------------------------------------------
(* The inductive invariant.                                                *)

\* The lists are lists and the records have their fields; the types of the entries do
\* not matter here.
IsSeq(s) == s \in Seq(ToSet(s))

Shapes ==
  /\ DOMAIN net = {"scene", "state", "up", "down", "subs", "got", "patches", "faults"}
  /\ DOMAIN core = {"waiting", "reports", "acks", "callback", "complete"}
  /\ DOMAIN tr = {"status", "pkt", "topics", "toSub", "getSent", "subRecv", "subPid", "pid",
                  "recover", "cage", "inflight", "twinAck", "twinPend"}
  /\ IsSeq(core.waiting) /\ IsSeq(core.reports) /\ IsSeq(tr.twinPend)

\* The TLS and socket layers are connected.
Opened == net.state \in {"open", "lost", "silent"}

\* mqtt_client holds a handle that lives exactly while there is a connection.
HandleRight ==
  /\ mq.xio = "live" <=> net.state # "none"
  /\ Opened => mq.sock
  /\ mq.conn => mq.sock
  /\ mq.xio = "none" => ~mq.sock

\* Before CONNACK was received, CONNECT or CONNACK is the only packet under way;
\* afterwards neither is ever again.
Without(s, type) == IsSeq(s) /\ \A p \in ToSet(s) : p.type # type
Greeting(up, down) ==
  \/ up = <<[type |-> "CONNECT"]>> /\ down = <<>>
  \/ up = <<>> /\ (down = <<>> \/ (down \in Seq(ToSet(down)) /\ Len(down) = 1 /\ down[1].type = "CONNACK"))
PacketsRight ==
  /\ net.state \in {"none", "opening"} => net.down = <<>>
  /\ net.state # "open" => net.up = <<>>
  /\ Opened /\ ~mq.conn => Greeting(net.up, net.down)
  /\ Opened /\ mq.conn => Without(net.up, "CONNECT") /\ Without(net.down, "CONNACK")

\* What the transport takes a connection for that has come so far, and which packet
\* states it can have meanwhile.
StatusRight ==
  /\ net.state = "opening" => tr.status = "CONNECTING"
  /\ Opened /\ ~mq.conn => \/ tr.status = "CONNECTING"
                           \/ tr.status = "PENDING_CLOSE" /\ net.up = <<>> /\ net.down = <<>>
  /\ Opened /\ mq.conn => tr.status = "CONNECTED"
  /\ tr.status = "EXECUTE_DISCONNECT" => mq.xio = "none"
PacketStateRight ==
  /\ tr.status = "PENDING_CLOSE" => tr.pkt = "ERROR"
  /\ tr.status = "CONNECTING" => tr.pkt = "CONNECT"
  /\ tr.status = "CONNECTED" => tr.pkt \in {"CONNACK", "SUBSCRIBE", "SUBACK", "PUBLISH"}
  /\ tr.status = "EXECUTE_DISCONNECT" => tr.pkt \notin {"DISCONNECT", "UNKNOWN"}
  /\ tr.status = "NOT_CONNECTED" =>
       /\ tr.pkt \notin {"CONNACK", "SUBACK", "PUBLISH"}
       /\ tr.pkt = "SUBSCRIBE" => tr.recover /\ pc.at # "work"
       /\ tr.pkt = "UNKNOWN" => tr.recover
  /\ ~tr.recover => tr.status \in {"PENDING_CLOSE", "NOT_CONNECTED"}
  /\ tr.recover \in BOOLEAN

ConnInv == ConnectionOK /\ Shapes /\ HandleRight /\ PacketsRight /\ StatusRight /\ PacketStateRight

----------------------------------------------------------------------------
(* Lists of packets and of entries.                                        *)

LEMMA SeqIsSeq ==
  ASSUME NEW S, NEW s \in Seq(S)
  PROVE  IsSeq(s) /\ ToSet(s) \subseteq S /\ (s = <<>> <=> Len(s) = 0)
<1>1. \A i \in 1 .. Len(s) : s[i] \in S  OBVIOUS
<1>2. DOMAIN s = 1 .. Len(s)  OBVIOUS
<1>3. ToSet(s) \subseteq S  BY <1>1, <1>2 DEF ToSet
<1>4. s \in Seq(ToSet(s))  BY <1>2 DEF ToSet
<1>5. QED  BY <1>3, <1>4 DEF IsSeq

LEMMA LenIsNat ==
  ASSUME NEW q, IsSeq(q)
  PROVE  Len(q) \in Nat
BY DEF IsSeq

\* What is selected from a list is a list.
LEMMA OnlyIsSeq ==
  ASSUME NEW q, IsSeq(q), NEW S
  PROVE  IsSeq(Only(q, S))
<1> DEFINE kept == {i \in 1 .. Len(q) : q[i] \in S}
           place(n) == CHOOSE i \in kept : Cardinality(kept \cap 1 .. i) = n
           r == [n \in 1 .. Cardinality(kept) |-> q[place(n)]]
<1>1. Len(q) \in Nat  BY DEF IsSeq
<1>2. Cardinality(kept) \in Nat
  <2>1. IsFiniteSet(1 .. Len(q))  BY <1>1, FS_Interval
  <2>2. IsFiniteSet(kept)  BY <2>1, FS_Subset
  <2>3. QED  BY <2>2, FS_CardinalityType
<1>3. Only(q, S) = r  BY DEF Only
<1> HIDE DEF kept, place
<1>4. r \in Seq({q[place(n)] : n \in 1 .. Cardinality(kept)})  BY <1>2
<1>5. IsSeq(r)  BY <1>4, SeqIsSeq
<1>6. QED  BY <1>3, <1>5

LEMMA AppendIsSeq ==
  ASSUME NEW q, IsSeq(q), NEW e
  PROVE  IsSeq(Append(q, e))
<1> DEFINE r == Append(q, e)
<1>1. r \in Seq(ToSet(q) \cup {e})
  <2>1. q \in Seq(ToSet(q) \cup {e})  BY DEF IsSeq
  <2>2. QED  BY <2>1
<1> HIDE DEF r
<1>2. IsSeq(r)  BY <1>1, SeqIsSeq
<1>3. QED  BY <1>2 DEF r

LEMMA RestIsSeq ==
  ASSUME NEW q, IsSeq(q), NEW j \in Nat
  PROVE  IsSeq(SubSeq(q, j + 1, Len(q)))
<1> DEFINE r == SubSeq(q, j + 1, Len(q))
<1>1. r \in Seq(ToSet(q))
  <2>1. q \in Seq(ToSet(q)) /\ j + 1 \in 1 .. j + 1 /\ j + 1 \in Int  BY DEF IsSeq
  <2>2. \A i \in j + 1 .. Len(q) : q[i] \in ToSet(q)  BY <2>1
  <2>3. QED  BY <2>1, <2>2, SubSeqProperties
<1> HIDE DEF r
<1>2. IsSeq(r)  BY <1>1, SeqIsSeq
<1>3. QED  BY <1>2 DEF r

LEMMA ConcatWithout ==
  ASSUME NEW s, NEW r, NEW type, Without(s, type), Without(r, type)
  PROVE  Without(s \o r, type)
<1> DEFINE S == {p \in ToSet(s) \cup ToSet(r) : p.type # type}
<1>1. s \in Seq(S) /\ r \in Seq(S)
  <2>1. ToSet(s) \subseteq S /\ ToSet(r) \subseteq S  BY DEF Without
  <2>2. s \in Seq(ToSet(s)) /\ r \in Seq(ToSet(r))  BY DEF Without, IsSeq
  <2> HIDE DEF S
  <2>3. QED  BY <2>1, <2>2
<1>2. \A p \in S : p.type # type  OBVIOUS
<1> HIDE DEF S
<1> DEFINE t == s \o r
<1>3. t \in Seq(S)  BY <1>1
<1> HIDE DEF t
<1>4. IsSeq(t) /\ ToSet(t) \subseteq S  BY <1>3, SeqIsSeq
<1>5. QED  BY <1>2, <1>4 DEF Without, t

LEMMA TailWithout ==
  ASSUME NEW s, NEW type, Without(s, type), s # <<>>
  PROVE  Without(Tail(s), type) /\ Head(s).type # type
<1> DEFINE S == {p \in ToSet(s) : p.type # type}
<1>1. s \in Seq(S)
  <2>1. ToSet(s) = S  BY DEF Without
  <2>2. s \in Seq(ToSet(s))  BY DEF Without, IsSeq
  <2>3. QED  BY <2>1, <2>2
<1> HIDE DEF S
<1>2. Tail(s) \in Seq(S) /\ Head(s) \in S  BY <1>1
<1>3. IsSeq(Tail(s)) /\ ToSet(Tail(s)) \subseteq S
  <2> DEFINE t == Tail(s)
  <2>1. t \in Seq(S)  BY <1>2
  <2> HIDE DEF t
  <2>2. IsSeq(t) /\ ToSet(t) \subseteq S  BY <2>1, SeqIsSeq
  <2>3. QED  BY <2>2 DEF t
<1>4. \A p \in S : p.type # type  BY DEF S
<1>5. QED  BY <1>2, <1>3, <1>4 DEF Without

LEMMA OneWithout ==
  ASSUME NEW type, NEW p, p.type # type
  PROVE  Without(<<p>>, type)
<1> DEFINE s == <<p>>
<1>1. s \in Seq({p})  OBVIOUS
<1> HIDE DEF s
<1>2. IsSeq(s) /\ ToSet(s) \subseteq {p}  BY <1>1, SeqIsSeq
<1>3. Without(s, type)  BY <1>2 DEF Without
<1>4. QED  BY <1>3 DEF s

\* Of packets of other types, the first k.
LEMMA FirstWithout ==
  ASSUME NEW n \in Nat, NEW ps, NEW type,
         ps \in Seq({ps[i] : i \in 1 .. n}), Len(ps) = n, \A i \in 1 .. n : ps[i].type # type,
         NEW k \in 0 .. n
  PROVE  Without(SubSeq(ps, 1, k), type)
<1> DEFINE S == {ps[i] : i \in 1 .. n}
<1>1. \A p \in S : p.type # type  OBVIOUS
<1> HIDE DEF S
<1>2. SubSeq(ps, 1, k) \in Seq(S)
  <2>1. ps \in Seq(S)  BY DEF S
  <2>2. \A i \in 1 .. k : i \in 1 .. Len(ps)  OBVIOUS
  <2>3. QED  BY <2>1, <2>2, SubSeqProperties
<1>3. QED  BY <1>1, <1>2, SeqIsSeq DEF Without

LEMMA EmptyWithout ==
  ASSUME NEW type
  PROVE  IsSeq(<<>>) /\ Without(<<>>, type)
<1> DEFINE s == <<>>
<1>1. s \in Seq({})  OBVIOUS
<1> HIDE DEF s
<1>2. IsSeq(s) /\ ToSet(s) \subseteq {}  BY <1>1, SeqIsSeq
<1>3. Without(s, type)  BY <1>2 DEF Without
<1>4. QED  BY <1>2, <1>3 DEF s

----------------------------------------------------------------------------
(* What the parts of the handlers change.                                  *)

TrFields == {"status", "pkt", "topics", "toSub", "getSent", "subRecv", "subPid", "pid", "recover",
             "cage", "inflight", "twinAck", "twinPend"}

\* The topics that are due are among those that are subscribed to.
TopicsOK(t) == t.toSub \subseteq t.topics /\ t.topics \subseteq {"twin", "notify"}

\* After an error the status is EXECUTE_DISCONNECT, unless the hub refused the connection.
LEMMA Errors ==
  ASSUME NEW t, DOMAIN t = TrFields, TopicsOK(t)
  PROVE  LET u == mqtt_error_callback(t)
         IN  /\ DOMAIN u = TrFields /\ TopicsOK(u) /\ u.pkt = "ERROR"
             /\ u.status = IF t.status = "PENDING_CLOSE" THEN "PENDING_CLOSE" ELSE "EXECUTE_DISCONNECT"
             /\ u.recover = t.recover /\ u.twinPend = t.twinPend /\ u.topics = t.topics
BY DEF mqtt_error_callback, TrFields, TopicsOK

\* A topic that is asked for may set the packet state to SUBSCRIBE, nothing else.
LEMMA Subscribes ==
  ASSUME NEW t, DOMAIN t = TrFields, TopicsOK(t), NEW topic \in {"twin", "notify"}
  PROVE  LET u == SubscribeTopic(t, topic)
         IN  /\ DOMAIN u = TrFields /\ TopicsOK(u)
             /\ u.status = t.status /\ u.recover = t.recover /\ u.twinPend = t.twinPend
             /\ u.pid = t.pid
             /\ u.pkt = IF t.pkt \in {"CONNACK", "CONNECT", "DISCONNECT", "ERROR"} THEN t.pkt
                        ELSE "SUBSCRIBE"
BY DEF SubscribeTopic, changeStateToSubscribeIfAllowed, TrFields, TopicsOK

\* Without a connection nothing is under way.
NetFields == {"scene", "state", "up", "down", "subs", "got", "patches", "faults"}
Silence(n) == DOMAIN n = NetFields /\ n.state = "none" /\ n.up = <<>> /\ n.down = <<>>

LEMMA Silent ==
  ASSUME NEW n, DOMAIN n = NetFields
  PROVE  Silence(HungUp(n)) /\ Silence(Fault(HungUp(n))) /\ Silence(HungUp(Fault(n)))
BY DEF Silence, HungUp, Fault, NetFields

\* However DisconnectFromClient ends, the connection is gone and the handle with it, unless
\* it was never there.
LEMMA Disconnects ==
  ASSUME ConnInv, NEW t, DOMAIN t = TrFields, TopicsOK(t),
         t.pkt = "DISCONNECT" => net.state = "none",
         NEW o \in DisconnectFromClient(t)
  PROVE  /\ DOMAIN o.tr = TrFields /\ TopicsOK(o.tr)
         /\ o.tr.recover = t.recover /\ o.tr.twinPend = t.twinPend /\ o.tr.topics = t.topics
         /\ o.tr.pkt = "DISCONNECT" /\ (t.pkt # "DISCONNECT" => o.tr.status = "NOT_CONNECTED")
         /\ (t.pkt = "DISCONNECT" => o.tr.status = t.status)
         /\ Silence(o.net)
         /\ o.mq \in [xio : {"none", "live", "stale"}, sock : BOOLEAN, conn : BOOLEAN]
         /\ o.mq.xio # "live" /\ (o.mq.conn => o.mq.sock) /\ (o.mq.xio = "none" => ~o.mq.sock)
<1>1. DOMAIN net = NetFields  BY DEF ConnInv, Shapes, NetFields
<1>2. mq \in [xio : {"none", "live", "stale"}, sock : BOOLEAN, conn : BOOLEAN] /\ HandleRight
  BY DEF ConnInv, ConnectionOK, TransportTypeOK
<1> DEFINE u == mqtt_error_callback(t)
           drop(v) == [v EXCEPT !.getSent = FALSE, !.status = "NOT_CONNECTED", !.pkt = "DISCONNECT"]
           Gone(v) == /\ DOMAIN v = TrFields /\ TopicsOK(v) /\ v.recover = t.recover
                      /\ v.twinPend = t.twinPend /\ v.topics = t.topics
                      /\ v.pkt = "DISCONNECT" /\ v.status = "NOT_CONNECTED"
           Off(m) == /\ m \in [xio : {"none", "live", "stale"}, sock : BOOLEAN, conn : BOOLEAN]
                     /\ m.xio # "live" /\ (m.conn => m.sock) /\ (m.xio = "none" => ~m.sock)
<1>3. Gone(drop(t))  BY DEF TrFields, TopicsOK
<1>4. Gone(drop(u))
  <2>1. DOMAIN u = TrFields /\ TopicsOK(u) /\ u.recover = t.recover /\ u.twinPend = t.twinPend
        /\ u.topics = t.topics
    BY Errors
  <2> HIDE DEF u
  <2>2. QED  BY <2>1 DEF TrFields, TopicsOK
<1>5. Off(Closed(mq)) /\ Destroyed(Closed(mq)) = Closed(mq)  BY DEF Closed, Destroyed
<1>6. Off(Destroyed(mq))  BY <1>2 DEF Destroyed, HandleRight
<1>7. Silence(HungUp(net)) /\ Silence(HungUp(Fault(net)))  BY <1>1, Silent
<1>8. CASE t.pkt = "DISCONNECT"
  <2>1. o.tr = t /\ o.mq = mq /\ o.net = net  BY <1>8 DEF DisconnectFromClient
  <2>2. Silence(net)  BY <1>8, <1>1 DEF ConnInv, PacketsRight, Silence
  <2>3. mq.xio # "live"  BY <1>8, <1>2 DEF HandleRight
  <2>4. QED  BY <2>1, <2>2, <2>3, <1>2, <1>8 DEF HandleRight
<1>9. CASE t.pkt # "DISCONNECT"
  <2>1. \/ o.tr = drop(t) /\ o.mq = Destroyed(mq) /\ o.net = HungUp(net)
        \/ o.tr = drop(t) /\ o.mq = Destroyed(Closed(mq)) /\ o.net = HungUp(net)
        \/ o.tr = drop(u) /\ o.mq = Destroyed(Closed(mq)) /\ o.net = HungUp(net)
        \/ o.tr = drop(t) /\ o.mq = Destroyed(mq) /\ o.net = HungUp(Fault(net))
    BY <1>9 DEF DisconnectFromClient
  <2> HIDE DEF drop, u
  <2>2. Gone(o.tr) /\ Silence(o.net) /\ Off(o.mq)  BY <2>1, <1>3, <1>4, <1>5, <1>6, <1>7
  <2>3. QED  BY <2>2, <1>9
<1>10. QED  BY <1>8, <1>9

\* What sending leaves of the connection when it goes on.
Carried ==
  /\ DOMAIN net' = NetFields /\ mq' = mq /\ net'.state = net.state /\ net'.down = net.down
  /\ net.state # "open" => net'.up = net.up
  /\ net.state = "open" => Without(net'.up, "CONNECT")

\* While it is connected, the transport sends other packets than CONNECT; a connection at
\* which that fails is closed.
LEMMA Sends ==
  ASSUME ConnInv, tr.status \in {"CONNECTED", "EXECUTE_DISCONNECT"},
         NEW n \in Nat, NEW ps, ps \in Seq({ps[i] : i \in 1 .. n}), Len(ps) = n,
         \A i \in 1 .. n : ps[i].type # "CONNECT",
         NEW k \in Accepted(n), ChannelSent(ps, k)
  PROVE  /\ k \in 0 .. n
         /\ Breaks(k, n) => mq' = Closed(mq) /\ Silence(net')
         /\ ~Breaks(k, n) => Carried
<1>1. k \in 0 .. n  BY DEF Accepted
<1>2. DOMAIN net = NetFields  BY DEF ConnInv, Shapes, NetFields
<1>3. Breaks(k, n) => mq' = Closed(mq) /\ Silence(net')  BY <1>2, Silent DEF ChannelSent
<1>4. ASSUME ~Breaks(k, n)  PROVE Carried
  <2>1. mq' = mq /\ net' = WithSent(net, SubSeq(ps, 1, k))  BY <1>4 DEF ChannelSent
  <2>2. CASE net.state # "open"
    <3>1. net' = net  BY <2>1, <2>2 DEF WithSent
    <3>2. QED  BY <2>1, <2>2, <3>1, <1>2 DEF Carried
  <2>3. CASE net.state = "open"
    <3>1. mq.conn
      BY <2>3 DEF ConnInv, HandleRight, StatusRight, Opened
    <3>2. Without(net.up, "CONNECT")  BY <2>3, <3>1 DEF ConnInv, PacketsRight, Opened
    <3>3. Without(SubSeq(ps, 1, k), "CONNECT")  BY <1>1, FirstWithout
    <3> DEFINE first == SubSeq(ps, 1, k)
    <3> HIDE DEF first
    <3>4. Without(net.up \o first, "CONNECT")  BY <3>2, <3>3, ConcatWithout DEF first
    <3>5. net' = [net EXCEPT !.up = net.up \o first]  BY <2>1, <2>3 DEF WithSent, first
    <3>6. QED  BY <2>1, <2>3, <3>4, <3>5, <1>2 DEF Carried, NetFields
  <2>4. QED  BY <2>2, <2>3
<1>5. QED  BY <1>1, <1>3, <1>4

\* Nothing is sent, and nothing changes.
LEMMA SendsNone ==
  ASSUME ConnInv, NEW ps, ps \in Seq({}), NEW k \in Accepted(0), ChannelSent(ps, k)
  PROVE  /\ mq' = mq /\ DOMAIN net' = NetFields
         /\ net'.state = net.state /\ net'.up = net.up /\ net'.down = net.down
<1>a. DOMAIN net = NetFields  BY DEF ConnInv, Shapes, NetFields
<1>1. k = 0 /\ Len(ps) = 0  BY DEF Accepted
<1>2. ~Breaks(k, Len(ps))  BY <1>1 DEF Breaks
<1>3. SubSeq(ps, 1, k) = <<>>  BY <1>1
<1>4. mq' = mq /\ net' = WithSent(net, <<>>)  BY <1>2, <1>3 DEF ChannelSent
<1>5. CASE net.state # "open"  BY <1>4, <1>5, <1>a DEF WithSent
<1>6. CASE net.state = "open"
  <2>1. IsSeq(net.up)
    <3>1. CASE mq.conn  BY <1>6, <3>1 DEF ConnInv, PacketsRight, Opened, Without
    <3>2. CASE ~mq.conn
      <4>1. net.up = <<[type |-> "CONNECT"]>> \/ net.up = <<>>
        BY <1>6, <3>2 DEF ConnInv, PacketsRight, Opened, Greeting
      <4>2. <<[type |-> "CONNECT"]>> \in Seq({[type |-> "CONNECT"]})  OBVIOUS
      <4>3. IsSeq(<<[type |-> "CONNECT"]>>)  BY <4>2, SeqIsSeq
      <4>4. QED  BY <4>1, <4>3, EmptyWithout
    <3>3. QED  BY <3>1, <3>2
  <2>2. net.up \o <<>> = net.up  BY <2>1 DEF IsSeq
  <2>3. net' = [net EXCEPT !.up = net.up]  BY <1>4, <1>6, <2>2 DEF WithSent
  <2>4. QED  BY <1>4, <2>3, <1>a DEF NetFields
<1>7. QED  BY <1>5, <1>6

----------------------------------------------------------------------------
(* The steps.                                                              *)

\* A connection that ended: what the transport has to say of it then.
LEMMA Ended ==
  ASSUME ConnInv, Silence(net'),
         mq' \in [xio : {"none", "live", "stale"}, sock : BOOLEAN, conn : BOOLEAN],
         mq'.xio # "live", mq'.conn => mq'.sock, mq'.xio = "none" => ~mq'.sock,
         DOMAIN tr' = TrFields, TopicsOK(tr'),
         tr'.status \in {"NOT_CONNECTED", "CONNECTING", "PENDING_CLOSE", "EXECUTE_DISCONNECT"},
         tr'.pkt \in {"CONNECT", "CONNACK", "SUBSCRIBE", "SUBACK", "PUBLISH", "DISCONNECT", "ERROR",
                      "UNKNOWN"},
         tr'.status \in {"CONNECTING", "EXECUTE_DISCONNECT"} => mq'.xio = "none",
         PacketStateRight',
         DOMAIN core' = DOMAIN core, IsSeq(core'.waiting), IsSeq(core'.reports), IsSeq(tr'.twinPend)
  PROVE  ConnInv'
<1>1. Shapes'  BY DEF ConnInv, Shapes, Silence, NetFields, TrFields
<1>2. HandleRight' /\ PacketsRight' /\ StatusRight'
  BY DEF HandleRight, PacketsRight, StatusRight, Silence, Opened
<1>3. TransportTypeOK'  BY DEF TransportTypeOK, Silence, TopicsOK
<1>4. StatesAgree'  BY DEF StatesAgree, PacketStateRight
<1>5. QED  BY <1>1, <1>2, <1>3, <1>4 DEF ConnInv, ConnectionOK

\* The same when mqtt_client closed it.
LEMMA ClosedStep ==
  ASSUME ConnInv, Silence(net'), mq' = Closed(mq),
         DOMAIN tr' = TrFields, TopicsOK(tr'),
         tr'.status \in {"NOT_CONNECTED", "CONNECTING", "PENDING_CLOSE", "EXECUTE_DISCONNECT"},
         tr'.pkt \in {"CONNECT", "CONNACK", "SUBSCRIBE", "SUBACK", "PUBLISH", "DISCONNECT", "ERROR",
                      "UNKNOWN"},
         PacketStateRight',
         DOMAIN core' = DOMAIN core, IsSeq(core'.waiting), IsSeq(core'.reports), IsSeq(tr'.twinPend)
  PROVE  ConnInv'
<1>1. /\ mq' \in [xio : {"none", "live", "stale"}, sock : BOOLEAN, conn : BOOLEAN]
      /\ mq'.xio = "none" /\ ~mq'.sock /\ ~mq'.conn
  BY DEF Closed
<1>2. QED  BY <1>1, Ended

\* A connection, or none, that stays as it is.
LEMMA Stays ==
  ASSUME ConnInv, mq' = mq, DOMAIN net' = NetFields,
         net'.state = net.state, net'.down = net.down, net'.up = net.up \/ (net.state = "open" /\ Carried),
         tr.status = "CONNECTED" \/ net'.up = net.up,
         DOMAIN tr' = TrFields, TopicsOK(tr'), tr'.status = tr.status,
         tr'.pkt \in {"CONNECT", "CONNACK", "SUBSCRIBE", "SUBACK", "PUBLISH", "DISCONNECT", "ERROR",
                      "UNKNOWN"},
         PacketStateRight',
         DOMAIN core' = DOMAIN core, IsSeq(core'.waiting), IsSeq(core'.reports), IsSeq(tr'.twinPend)
  PROVE  ConnInv'
<1>1. Shapes'  BY DEF ConnInv, Shapes, NetFields, TrFields
<1>2. HandleRight'  BY DEF ConnInv, HandleRight, Opened
<1>3. PacketsRight'
  <2>1. net'.up = net.up \/ (mq.conn /\ Without(net'.up, "CONNECT"))
    BY DEF ConnInv, ConnectionOK, StatesAgree, Carried
  <2>2. QED  BY <2>1 DEF ConnInv, PacketsRight, Opened, Carried
<1>4. StatusRight'
  BY DEF ConnInv, StatusRight, Opened, Carried, ConnectionOK, StatesAgree
<1>5. TransportTypeOK'  BY DEF ConnInv, ConnectionOK, TransportTypeOK, TopicsOK
<1>6. StatesAgree'
  BY DEF ConnInv, ConnectionOK, TransportTypeOK, StatesAgree, PacketStateRight
<1>7. QED  BY <1>1, <1>2, <1>3, <1>4, <1>5, <1>6 DEF ConnInv, ConnectionOK

\* The application: a topic that is asked for, an entry that is appended.
LEMMA ApplicationStep ==
  ASSUME ConnInv, Application
  PROVE  ConnInv'
<1> USE DEF TrFields, NetFields
<1>1. DOMAIN net = NetFields /\ DOMAIN tr = TrFields /\ TopicsOK(tr)
  BY DEF ConnInv, Shapes, ConnectionOK, TransportTypeOK, TopicsOK
<1>2. PacketStateRight /\ Shapes  BY DEF ConnInv
<1>3. tr.pkt \in {"CONNECT", "CONNACK", "SUBSCRIBE", "SUBACK", "PUBLISH", "DISCONNECT", "ERROR", "UNKNOWN"}
  BY DEF ConnInv, ConnectionOK, TransportTypeOK
<1> DEFINE u == SubscribeTopic(tr, "twin")
<1>4. /\ DOMAIN u = TrFields /\ TopicsOK(u)
      /\ u.status = tr.status /\ u.recover = tr.recover /\ u.twinPend = tr.twinPend
      /\ u.pkt = IF tr.pkt \in {"CONNACK", "CONNECT", "DISCONNECT", "ERROR"} THEN tr.pkt ELSE "SUBSCRIBE"
  BY <1>1, Subscribes
<1> HIDE DEF u
<1>5. ASSUME NEW m \in Msgs, SendEventAsync(m)  PROVE ConnInv'
  <2>1. IsSeq(Append(core.waiting, [msg |-> m, age |-> 0]))
    BY <1>2, AppendIsSeq DEF Shapes
  <2>2. QED
    BY <1>1, <1>2, <1>3, <1>5, <2>1, Stays DEF SendEventAsync, PacketStateRight, Shapes
<1>6. ASSUME NEW on \in BOOLEAN, SetDeviceTwinCallback(on)  PROVE ConnInv'
  <2>1. tr' = IF on THEN u ELSE [tr EXCEPT !.topics = @ \ {"twin", "notify"}, !.toSub = @ \ {"twin", "notify"}]
    BY <1>6 DEF SetDeviceTwinCallback, u
  <2>2. mq' = mq /\ net' = net /\ core' = [core EXCEPT !.callback = on] /\ pc' = pc /\ pc.at = "idle"
    BY <1>6 DEF SetDeviceTwinCallback, Idle
  <2>3. DOMAIN tr' = TrFields /\ TopicsOK(tr') /\ tr'.status = tr.status /\ tr'.recover = tr.recover
    BY <1>1, <1>4, <2>1 DEF TopicsOK
  <2>4. PacketStateRight'  BY <1>1, <1>2, <1>3, <1>4, <2>1, <2>2, <2>3 DEF PacketStateRight
  <2>5. QED
    BY <1>1, <1>2, <1>3, <1>4, <2>1, <2>2, <2>3, <2>4, Stays DEF Shapes
<1>7. ASSUME NEW g \in Gets, GetTwinAsync(g)  PROVE ConnInv'
  <2>0. PICK e : tr' = [u EXCEPT !.pid = PidAfter(tr.pid, 1), !.twinPend = Append(@, e)]
    BY <1>7 DEF GetTwinAsync, u
  <2>1. IsSeq(Append(tr.twinPend, e))  BY <1>2, AppendIsSeq DEF Shapes
  <2>2. mq' = mq /\ net' = net /\ core' = [core EXCEPT !.complete = TRUE] /\ pc' = pc /\ pc.at = "idle"
    BY <1>7 DEF GetTwinAsync, Idle
  <2>3. DOMAIN tr' = TrFields /\ TopicsOK(tr') /\ tr'.status = tr.status /\ tr'.recover = tr.recover
        /\ tr'.pkt = u.pkt /\ IsSeq(tr'.twinPend)
    BY <1>1, <1>4, <2>0, <2>1 DEF TopicsOK
  <2>4. PacketStateRight'  BY <1>1, <1>2, <1>3, <1>4, <2>2, <2>3 DEF PacketStateRight
  <2>5. QED
    BY <1>1, <1>2, <1>3, <1>4, <2>2, <2>3, <2>4, Stays DEF Shapes
<1>8. ASSUME NEW r \in Reps, SendReportedState(r)  PROVE ConnInv'
  <2>1. IsSeq(Append(core.reports, r))  BY <1>2, AppendIsSeq DEF Shapes
  <2>2. mq' = mq /\ net' = net /\ tr' = u /\ core' = [core EXCEPT !.reports = Append(@, r)] /\ pc' = pc
        /\ pc.at = "idle"
    BY <1>8 DEF SendReportedState, Idle, u
  <2>3. PacketStateRight'  BY <1>1, <1>2, <1>3, <1>4, <2>2 DEF PacketStateRight
  <2>4. QED
    BY <1>1, <1>2, <1>3, <1>4, <2>1, <2>2, <2>3, Stays DEF Shapes
<1>9. QED  BY <1>5, <1>6, <1>7, <1>8 DEF Application

\* What ConnInv says of the transport alone.
LEMMA TransportFacts ==
  ASSUME ConnInv
  PROVE  /\ DOMAIN net = NetFields /\ DOMAIN tr = TrFields /\ TopicsOK(tr)
         /\ mq \in [xio : {"none", "live", "stale"}, sock : BOOLEAN, conn : BOOLEAN]
         /\ tr.status \in {"NOT_CONNECTED", "CONNECTING", "CONNECTED", "PENDING_CLOSE", "EXECUTE_DISCONNECT"}
         /\ tr.pkt \in {"CONNECT", "CONNACK", "SUBSCRIBE", "SUBACK", "PUBLISH", "DISCONNECT", "ERROR",
                        "UNKNOWN"}
         /\ IsSeq(core.waiting) /\ IsSeq(core.reports) /\ IsSeq(tr.twinPend)
         /\ PacketStateRight
         /\ (tr.status \in {"NOT_CONNECTED", "EXECUTE_DISCONNECT"} \/ tr.pkt = "DISCONNECT" => net.state = "none")
         /\ (tr.pkt = "PUBLISH" => tr.status \in {"CONNECTED", "EXECUTE_DISCONNECT"})
BY DEF ConnInv, ConnectionOK, TransportTypeOK, StatesAgree, Shapes, TrFields, NetFields, TopicsOK,
       HandleRight, StatusRight, PacketStateRight, Opened

\* DisconnectFromClient, called with the transport as it is or with an error noted.
LEMMA DisconnectStep ==
  ASSUME ConnInv, NEW t, DOMAIN t = TrFields, TopicsOK(t),
         t.recover = tr.recover, t.pkt \in {tr.pkt, "ERROR"},
         t.twinPend = tr.twinPend,
         NEW o \in DisconnectFromClient(t), tr.status = "EXECUTE_DISCONNECT" => t.pkt # "DISCONNECT",
         t.pkt = "DISCONNECT" => t.status = tr.status,
         mq' = o.mq, Silence(net'), DOMAIN tr' = TrFields, TopicsOK(tr'), IsSeq(tr'.twinPend),
         tr'.status = o.tr.status, tr'.recover = o.tr.recover,
         tr'.pkt = "DISCONNECT" \/ (tr'.pkt = "UNKNOWN" /\ tr.recover),
         DOMAIN core' = DOMAIN core, IsSeq(core'.waiting), IsSeq(core'.reports)
  PROVE  ConnInv'
<1>1. t.pkt = "DISCONNECT" => net.state = "none"  BY TransportFacts
<1>2. /\ o.tr.recover = t.recover
      /\ (t.pkt # "DISCONNECT" => o.tr.status = "NOT_CONNECTED")
      /\ (t.pkt = "DISCONNECT" => o.tr.status = t.status)
      /\ o.mq \in [xio : {"none", "live", "stale"}, sock : BOOLEAN, conn : BOOLEAN]
      /\ o.mq.xio # "live" /\ (o.mq.conn => o.mq.sock) /\ (o.mq.xio = "none" => ~o.mq.sock)
  BY <1>1, Disconnects
<1>3. t.pkt = "DISCONNECT" => tr.status = "NOT_CONNECTED"
  BY TransportFacts DEF PacketStateRight
<1>4. tr'.status = "NOT_CONNECTED"  BY <1>2, <1>3
<1>5. PacketStateRight'  BY <1>2, <1>4, TransportFacts DEF PacketStateRight
<1>6. QED  BY <1>2, <1>4, <1>5, Ended

LEMMA DestroyStep ==
  ASSUME ConnInv, Destroy
  PROVE  ConnInv'
<1>1. PICK o \in DisconnectFromClient(tr) :
        /\ mq' = o.mq /\ net' = o.net
        /\ tr' = [o.tr EXCEPT !.inflight = <<>>, !.twinAck = <<>>, !.twinPend = <<>>]
  BY DEF Destroy, BecomesOutcome
<1>2. tr.pkt = "DISCONNECT" => net.state = "none"  BY TransportFacts
<1>3. /\ DOMAIN o.tr = TrFields /\ TopicsOK(o.tr) /\ o.tr.recover = tr.recover
      /\ o.tr.pkt = "DISCONNECT" /\ Silence(o.net)
  BY <1>2, TransportFacts, Disconnects
<1>4. /\ DOMAIN tr' = TrFields /\ TopicsOK(tr') /\ tr'.recover = o.tr.recover
      /\ tr'.status = o.tr.status /\ tr'.pkt = "DISCONNECT" /\ tr'.twinPend = <<>>
  BY <1>1, <1>3 DEF TrFields, TopicsOK
<1>5. core' = [core EXCEPT !.waiting = <<>>, !.reports = <<>>, !.acks = <<>>]  BY DEF Destroy
<1>6. DOMAIN core' = DOMAIN core /\ core'.waiting = <<>> /\ core'.reports = <<>>
  BY <1>5 DEF ConnInv, Shapes
<1>7. tr.status = "EXECUTE_DISCONNECT" => tr.pkt # "DISCONNECT"
  BY TransportFacts DEF PacketStateRight
<1>8. QED
  BY <1>1, <1>3, <1>4, <1>6, <1>7, TransportFacts, DisconnectStep, EmptyWithout

LEMMA CoreDoWorkStep ==
  ASSUME ConnInv, CoreDoWork
  PROVE  ConnInv'
<1> DEFINE n == IF tr.pkt = "PUBLISH" /\ tr.subRecv THEN Len(core.reports) ELSE 0
           ps == [i \in 1 .. n |-> [type |-> "REPORT", pid |-> PidAfter(tr.pid, i)]]
<1>1. PICK k \in Accepted(n) :
        LET tried == IF Breaks(k, n) THEN k + 1 ELSE n
            t == ProcessItems(k, tried)
        IN  /\ ChannelSent(ps, k)
            /\ tr' = IF Breaks(k, n) THEN mqtt_error_callback(t) ELSE t
            /\ core' = [core EXCEPT !.waiting = Only(@, {e \in ToSet(@) : ~Late(e)}),
                                    !.reports = SubSeq(@, tried + 1, Len(@)),
                                    !.acks = @ \o SubSeq(core.reports, 1, k)]
  BY DEF CoreDoWork
<1> DEFINE tried == IF Breaks(k, n) THEN k + 1 ELSE n
           t == ProcessItems(k, tried)
<1>2. n \in Nat  BY TransportFacts DEF IsSeq
<1>3. ps \in Seq({ps[i] : i \in 1 .. n}) /\ Len(ps) = n /\ \A i \in 1 .. n : ps[i].type = "REPORT"
  BY <1>2
<1>4. /\ DOMAIN t = TrFields /\ TopicsOK(t) /\ t.status = tr.status /\ t.pkt = tr.pkt
      /\ t.recover = tr.recover /\ t.twinPend = tr.twinPend
  BY TransportFacts DEF ProcessItems, TrFields, TopicsOK
<1>5. DOMAIN core' = DOMAIN core /\ IsSeq(core'.waiting) /\ IsSeq(core'.reports)
  <2>1. k \in Nat /\ tried \in Nat  BY <1>2 DEF Accepted
  <2>2. IsSeq(Only(core.waiting, {e \in ToSet(core.waiting) : ~Late(e)}))
    BY TransportFacts, OnlyIsSeq
  <2>3. IsSeq(SubSeq(core.reports, tried + 1, Len(core.reports)))
    BY <2>1, TransportFacts, RestIsSeq
  <2>4. QED  BY <1>1, <2>2, <2>3 DEF ConnInv, Shapes
<1>6. pc'.at = "conn"  BY DEF CoreDoWork, Goto
<1>7. CASE n = 0
  <2>1. ps \in Seq({}) /\ ChannelSent(ps, k) /\ k \in Accepted(0)  BY <1>1, <1>7
  <2>2. ~Breaks(k, n)  BY <1>7, <2>1 DEF Breaks, Accepted
  <2>3. tr' = t  BY <1>1, <2>2
  <2>4. /\ mq' = mq /\ DOMAIN net' = NetFields
        /\ net'.state = net.state /\ net'.up = net.up /\ net'.down = net.down
    BY <2>1, SendsNone
  <2> HIDE DEF t, n, ps
  <2>5. PacketStateRight'  BY <1>4, <1>6, <2>3, TransportFacts DEF PacketStateRight
  <2>6. QED  BY <1>4, <1>5, <2>3, <2>4, <2>5, TransportFacts, Stays
<1>8. CASE n # 0
  <2>1. tr.pkt = "PUBLISH" /\ tr.status \in {"CONNECTED", "EXECUTE_DISCONNECT"}
    BY <1>8, TransportFacts
  <2> DEFINE b == Breaks(k, n)
  <2>2. tr' = (IF b THEN mqtt_error_callback(t) ELSE t) /\ ChannelSent(ps, k)  BY <1>1
  <2> HIDE DEF t, n, ps, tried
  <2>3. /\ b => mq' = Closed(mq) /\ Silence(net')
        /\ ~b => Carried
    BY <1>2, <1>3, <2>1, <2>2, Sends
  <2> HIDE DEF b
  <2>4. CASE b
    <3>1. tr' = mqtt_error_callback(t)  BY <2>2, <2>4
    <3>2. DOMAIN tr' = TrFields /\ TopicsOK(tr') /\ tr'.pkt = "ERROR"
          /\ tr'.status = "EXECUTE_DISCONNECT" /\ tr'.recover = tr.recover /\ tr'.twinPend = tr.twinPend
      BY <1>4, <2>1, <3>1, Errors
    <3>3. PacketStateRight'  BY <2>1, <3>2, TransportFacts DEF PacketStateRight
    <3>4. IsSeq(tr'.twinPend)  BY <3>2, TransportFacts
    <3>5. QED  BY <1>5, <2>3, <2>4, <3>2, <3>3, <3>4, ClosedStep
  <2>5. CASE ~b
    <3>1. tr' = t  BY <2>2, <2>5
    <3>2. PacketStateRight'  BY <1>4, <1>6, <3>1, TransportFacts DEF PacketStateRight
    <3>3. tr.status = "CONNECTED" \/ net.state = "none"  BY <2>1, TransportFacts
    <3>4. QED  BY <1>4, <1>5, <2>3, <2>5, <3>1, <3>2, <3>3, TransportFacts, Stays DEF Carried
  <2>6. QED  BY <2>4, <2>5
<1>9. QED  BY <1>7, <1>8

\* InitializeConnection.
LEMMA ConnectStep ==
  ASSUME ConnInv, ConnectNow \/ ConnectLater \/ StayConnected
  PROVE  ConnInv'
<1>1. CASE ConnectNow
  <2>1. /\ mq' = Connecting(mq) /\ net' = Dialling(net) /\ core' = core /\ tr.recover
        /\ tr' = [tr EXCEPT !.pkt = "CONNECT", !.status = "CONNECTING", !.cage = 0]
        /\ tr.status = "NOT_CONNECTED" /\ pc'.at = "work"
    BY <1>1 DEF ConnectNow, Goto
  <2>2. net.state = "none" /\ net.up = <<>> /\ net.down = <<>>
    BY <2>1, TransportFacts DEF ConnInv, PacketsRight
  <2>3. /\ DOMAIN net' = NetFields /\ net'.state = "opening" /\ net'.up = <<>> /\ net'.down = <<>>
        /\ mq' \in [xio : {"none", "live", "stale"}, sock : BOOLEAN, conn : BOOLEAN]
        /\ mq'.xio = "live" /\ mq'.sock = mq.sock /\ mq'.conn = mq.conn
        /\ DOMAIN tr' = TrFields /\ TopicsOK(tr') /\ tr'.pkt = "CONNECT" /\ tr'.status = "CONNECTING"
        /\ tr'.recover = tr.recover /\ tr'.twinPend = tr.twinPend
    BY <2>1, <2>2, TransportFacts DEF Connecting, Dialling, NetFields, TrFields, TopicsOK
  <2>4. Shapes' /\ TransportTypeOK'
    BY <2>1, <2>3 DEF ConnInv, Shapes, NetFields, TrFields, TransportTypeOK, TopicsOK
  <2>5. HandleRight' /\ PacketsRight' /\ StatusRight' /\ PacketStateRight' /\ StatesAgree'
    BY <2>1, <2>3
       DEF ConnInv, HandleRight, PacketsRight, StatusRight, PacketStateRight, StatesAgree, Opened
  <2>6. QED  BY <2>4, <2>5 DEF ConnInv, ConnectionOK
<1>2. CASE ConnectLater \/ StayConnected
  <2>1. /\ mq' = mq /\ net' = net /\ core' = core /\ tr' = tr
        /\ pc'.at = "work" => ~(tr.status = "NOT_CONNECTED" /\ tr.recover)
    BY <1>2 DEF ConnectLater, StayConnected, Goto
  <2>2. PacketStateRight'  BY <2>1, TransportFacts DEF PacketStateRight
  <2>3. QED  BY <2>1, <2>2, TransportFacts, Stays
<1>3. QED  BY <1>1, <1>2

LEMMA DisconnectSteps ==
  ASSUME ConnInv, ExecuteDisconnect \/ ConnackTimeout \/ SasExpired
  PROVE  ConnInv'
<1>1. core' = core  BY DEF ExecuteDisconnect, ConnackTimeout, SasExpired
<1>2. CASE ExecuteDisconnect
  <2>1. PICK o \in DisconnectFromClient(tr) : mq' = o.mq /\ net' = o.net /\ tr' = o.tr
    BY <1>2 DEF ExecuteDisconnect, BecomesOutcome
  <2>2. tr.status = "EXECUTE_DISCONNECT" /\ tr.pkt # "DISCONNECT"
    BY <1>2, TransportFacts DEF ExecuteDisconnect, PacketStateRight
  <2>3. /\ DOMAIN o.tr = TrFields /\ TopicsOK(o.tr) /\ o.tr.twinPend = tr.twinPend
        /\ o.tr.pkt = "DISCONNECT" /\ Silence(o.net)
    BY <2>2, TransportFacts, Disconnects
  <2>4. QED  BY <1>1, <2>1, <2>2, <2>3, TransportFacts, DisconnectStep
<1>3. CASE ConnackTimeout
  <2> DEFINE t == [tr EXCEPT !.pkt = "ERROR"]
  <2>1. PICK o \in DisconnectFromClient(t) : mq' = o.mq /\ net' = o.net /\ tr' = o.tr
    BY <1>3 DEF ConnackTimeout, BecomesOutcome
  <2>2. /\ DOMAIN t = TrFields /\ TopicsOK(t) /\ t.pkt = "ERROR" /\ t.recover = tr.recover
        /\ t.twinPend = tr.twinPend
    BY TransportFacts DEF TrFields, TopicsOK
  <2> HIDE DEF t
  <2>3. /\ DOMAIN o.tr = TrFields /\ TopicsOK(o.tr) /\ o.tr.twinPend = tr.twinPend
        /\ o.tr.pkt = "DISCONNECT" /\ Silence(o.net)
    BY <2>2, Disconnects
  <2>4. QED  BY <1>1, <2>1, <2>2, <2>3, TransportFacts, DisconnectStep
<1>4. CASE SasExpired
  <2>1. PICK o \in DisconnectFromClient(tr) :
          /\ mq' = o.mq /\ net' = Fault(o.net)
          /\ tr' = [o.tr EXCEPT !.pkt = "UNKNOWN", !.toSub = @ \cup tr.topics]
    BY <1>4 DEF SasExpired
  <2>2. tr.status = "CONNECTED" /\ tr.pkt # "DISCONNECT" /\ tr.recover
    BY <1>4, TransportFacts DEF SasExpired, PacketStateRight
  <2>3. /\ DOMAIN o.tr = TrFields /\ TopicsOK(o.tr) /\ o.tr.twinPend = tr.twinPend
        /\ o.tr.pkt = "DISCONNECT" /\ Silence(o.net) /\ o.tr.topics = tr.topics
    BY <2>2, TransportFacts, Disconnects
  <2>4. Silence(net')  BY <2>1, <2>3 DEF Silence, Fault, NetFields
  <2>5. /\ DOMAIN tr' = TrFields /\ TopicsOK(tr') /\ tr'.pkt = "UNKNOWN"
        /\ tr'.status = o.tr.status /\ tr'.recover = o.tr.recover /\ tr'.twinPend = tr.twinPend
    BY <2>1, <2>3, TransportFacts DEF TrFields, TopicsOK
  <2>6. QED  BY <1>1, <2>1, <2>2, <2>4, <2>5, TransportFacts, DisconnectStep
<1>5. QED  BY <1>2, <1>3, <1>4

\* A list of one packet.
LEMMA OnePacket ==
  ASSUME NEW p, p.type # "CONNECT"
  PROVE  LET ps == <<p>>
         IN  ps \in Seq({ps[i] : i \in 1 .. 1}) /\ Len(ps) = 1 /\ \A i \in 1 .. 1 : ps[i].type # "CONNECT"
OBVIOUS

\* The transport in the two states in which it sends: after sending, or after an error,
\* the packet state is SUBSCRIBE, PUBLISH or ERROR.
LEMMA SendStep ==
  ASSUME ConnInv, tr.status \in {"CONNECTED", "EXECUTE_DISCONNECT"},
         NEW n \in Nat, NEW ps, ps \in Seq({ps[i] : i \in 1 .. n}), Len(ps) = n,
         \A i \in 1 .. n : ps[i].type # "CONNECT",
         NEW k \in Accepted(n), ChannelSent(ps, k),
         DOMAIN tr' = TrFields, TopicsOK(tr'), tr'.recover = tr.recover, IsSeq(tr'.twinPend),
         tr'.status = (IF Breaks(k, n) THEN "EXECUTE_DISCONNECT" ELSE tr.status),
         \/ tr'.pkt \in {"SUBSCRIBE", "PUBLISH"}
         \/ tr'.pkt = "ERROR" /\ Breaks(k, n)
         \/ tr'.pkt = tr.pkt,
         DOMAIN core' = DOMAIN core, IsSeq(core'.waiting), IsSeq(core'.reports)
  PROVE  ConnInv'
<1> DEFINE b == Breaks(k, n)
<1>1. /\ b => mq' = Closed(mq) /\ Silence(net')
      /\ ~b => Carried
  BY Sends
<1>2. tr'.status = (IF b THEN "EXECUTE_DISCONNECT" ELSE tr.status)  OBVIOUS
<1>3. \/ tr'.pkt \in {"SUBSCRIBE", "PUBLISH"}
      \/ tr'.pkt = "ERROR" /\ b
      \/ tr'.pkt = tr.pkt
  OBVIOUS
<1> HIDE DEF b
<1>4. PacketStateRight'
  BY <1>2, <1>3, TransportFacts DEF PacketStateRight
<1>5. tr'.pkt \in {"CONNECT", "CONNACK", "SUBSCRIBE", "SUBACK", "PUBLISH", "DISCONNECT", "ERROR",
                   "UNKNOWN"}
  BY <1>3, TransportFacts
<1>6. CASE b  BY <1>1, <1>2, <1>4, <1>5, <1>6, ClosedStep
<1>7. CASE ~b
  <2>1. tr.status = "CONNECTED" \/ net.state = "none"  BY TransportFacts
  <2>2. net'.state = net.state /\ net'.down = net.down /\ DOMAIN net' = NetFields /\ mq' = mq
        /\ (net'.up = net.up \/ (net.state = "open" /\ Carried))
        /\ (tr.status = "CONNECTED" \/ net'.up = net.up)
    BY <1>1, <1>7, <2>1 DEF Carried
  <2>3. tr'.status = tr.status  BY <1>2, <1>7
  <2>4. QED  BY <1>4, <1>5, <2>2, <2>3, Stays
<1>8. QED  BY <1>6, <1>7

\* What the packet state asks for.
LEMMA PendingCloseStep ==
  ASSUME ConnInv, PendingClose \/ NothingToDo
  PROVE  ConnInv'
<1>1. CASE PendingClose
  <2>1. /\ mq' = Closed(mq) /\ net' = HungUp(net) /\ core' = core /\ tr.status = "PENDING_CLOSE"
        /\ tr' = [tr EXCEPT !.status = "NOT_CONNECTED"]
    BY <1>1 DEF PendingClose
  <2>2. Silence(net')  BY <2>1, TransportFacts, Silent
  <2>3. DOMAIN tr' = TrFields /\ TopicsOK(tr') /\ tr'.status = "NOT_CONNECTED" /\ tr'.pkt = tr.pkt
        /\ tr'.recover = tr.recover /\ tr'.twinPend = tr.twinPend
    BY <2>1, TransportFacts DEF TrFields, TopicsOK
  <2>4. PacketStateRight'  BY <2>1, <2>3, TransportFacts DEF PacketStateRight
  <2>5. QED  BY <2>1, <2>2, <2>3, <2>4, TransportFacts, ClosedStep
<1>2. CASE NothingToDo
  <2>1. mq' = mq /\ net' = net /\ core' = core /\ tr' = tr /\ pc'.at = "recv"
    BY <1>2 DEF NothingToDo, Goto
  <2>2. PacketStateRight'  BY <2>1, TransportFacts DEF PacketStateRight
  <2>3. QED  BY <2>1, <2>2, TransportFacts, Stays
<1>3. QED  BY <1>1, <1>2

\* Nothing is sent, and the packet state moves on.
LEMMA PacketStateStep ==
  ASSUME ConnInv, tr.status \in {"CONNECTED", "EXECUTE_DISCONNECT"},
         tr' = [tr EXCEPT !.pkt = "PUBLISH"], mq' = mq, net' = net, core' = core
  PROVE  ConnInv'
<1>1. DOMAIN tr' = TrFields /\ TopicsOK(tr') /\ tr'.status = tr.status /\ tr'.pkt = "PUBLISH"
      /\ tr'.recover = tr.recover /\ tr'.twinPend = tr.twinPend
  BY TransportFacts DEF TrFields, TopicsOK
<1>2. PacketStateRight'  BY <1>1, TransportFacts DEF PacketStateRight
<1>3. QED  BY <1>1, <1>2, TransportFacts, Stays

LEMMA SubscribeStep ==
  ASSUME ConnInv, SubscribeToMqttProtocol
  PROVE  ConnInv'
<1> DEFINE topics == tr.toSub \cap tr.topics
           pid == PidAfter(tr.pid, 1)
           t == [tr EXCEPT !.pid = pid, !.subPid = IF "twin" \in topics THEN pid ELSE @]
           packet == [type |-> "SUBSCRIBE", pid |-> pid, topics |-> topics]
<1>1. tr.status \in {"CONNECTED", "EXECUTE_DISCONNECT"}
  BY TransportFacts DEF SubscribeToMqttProtocol, Working, PacketStateRight
<1>2. core' = core  BY DEF SubscribeToMqttProtocol
<1>3. CASE tr.toSub = {}
  <2>1. tr' = [tr EXCEPT !.pkt = "PUBLISH"] /\ mq' = mq /\ net' = net
    BY <1>3 DEF SubscribeToMqttProtocol
  <2>2. QED  BY <1>1, <1>2, <2>1, PacketStateStep
<1>4. CASE tr.toSub # {}
  <2>1. PICK k \in Accepted(1) :
          /\ ChannelSent(<<packet>>, k)
          /\ tr' = [(IF k = 1 THEN [t EXCEPT !.toSub = @ \ topics]
                     ELSE IF Breaks(k, 1) THEN mqtt_error_callback(t) ELSE t) EXCEPT !.pkt = "SUBSCRIBE"]
    BY <1>4 DEF SubscribeToMqttProtocol
  <2>2. packet.type # "CONNECT"  OBVIOUS
  <2>3. /\ DOMAIN t = TrFields /\ TopicsOK(t) /\ t.status = tr.status /\ t.recover = tr.recover
        /\ t.twinPend = tr.twinPend
    BY TransportFacts DEF TrFields, TopicsOK
  <2> HIDE DEF t, packet
  <2> DEFINE u == IF k = 1 THEN [t EXCEPT !.toSub = @ \ topics]
                  ELSE IF Breaks(k, 1) THEN mqtt_error_callback(t) ELSE t
  <2>4. /\ DOMAIN u = TrFields /\ TopicsOK(u) /\ u.recover = tr.recover /\ u.twinPend = tr.twinPend
        /\ u.status = IF Breaks(k, 1) THEN "EXECUTE_DISCONNECT" ELSE tr.status
    <3>1. CASE k = 1
      <4>1. ~Breaks(k, 1)  BY <3>1 DEF Breaks
      <4>2. QED  BY <3>1, <4>1, <2>3 DEF TrFields, TopicsOK
    <3>2. CASE k # 1
      <4>1. Breaks(k, 1) => u = mqtt_error_callback(t)  BY <3>2
      <4>2. ~Breaks(k, 1) => u = t  BY <3>2
      <4> HIDE DEF u
      <4>3. QED  BY <1>1, <2>3, <4>1, <4>2, Errors
    <3>3. QED  BY <3>1, <3>2
  <2> HIDE DEF u
  <2>5. tr' = [u EXCEPT !.pkt = "SUBSCRIBE"]  BY <2>1 DEF u
  <2>6. /\ DOMAIN tr' = TrFields /\ TopicsOK(tr') /\ tr'.recover = tr.recover
        /\ tr'.twinPend = tr.twinPend /\ tr'.pkt = "SUBSCRIBE" /\ tr'.status = u.status
    BY <2>4, <2>5 DEF TrFields, TopicsOK
  <2> DEFINE ps == <<packet>>
  <2>7. /\ ps \in Seq({ps[i] : i \in 1 .. 1}) /\ Len(ps) = 1
        /\ \A i \in 1 .. 1 : ps[i].type # "CONNECT"
    BY <2>2, OnePacket
  <2>8. ChannelSent(ps, k)  BY <2>1
  <2> HIDE DEF ps
  <2>9. QED  BY <1>1, <1>2, <2>4, <2>6, <2>7, <2>8, TransportFacts, SendStep
<1>5. QED  BY <1>3, <1>4

LEMMA SubackStep ==
  ASSUME ConnInv, SubackReceived
  PROVE  ConnInv'
<1> DEFINE pid == PidAfter(tr.pid, 1)
           asks == tr.topics \cap {"twin", "notify"} # {} /\ ~tr.getSent
           t == [tr EXCEPT !.pid = pid]
           packet == [type |-> "GET", pid |-> pid]
<1>1. tr.status \in {"CONNECTED", "EXECUTE_DISCONNECT"}
  BY TransportFacts DEF SubackReceived, Working, PacketStateRight
<1>2. core' = core  BY DEF SubackReceived
<1>3. CASE ~asks
  <2>1. tr' = [tr EXCEPT !.pkt = "PUBLISH"] /\ mq' = mq /\ net' = net
    BY <1>3 DEF SubackReceived
  <2>2. QED  BY <1>1, <1>2, <2>1, PacketStateStep
<1>4. CASE asks
  <2>1. PICK k \in Accepted(1) :
          /\ ChannelSent(<<packet>>, k)
          /\ tr' = [(IF k = 1
                     THEN [t EXCEPT !.getSent = TRUE,
                                    !.twinAck = Append(@, [pid |-> pid, kind |-> "auto",
                                                           id |-> AUTO, age |-> 0])]
                     ELSE IF Breaks(k, 1) THEN mqtt_error_callback(t) ELSE t) EXCEPT !.pkt = "PUBLISH"]
    BY <1>4 DEF SubackReceived
  <2>2. packet.type # "CONNECT"  OBVIOUS
  <2>3. /\ DOMAIN t = TrFields /\ TopicsOK(t) /\ t.status = tr.status /\ t.recover = tr.recover
        /\ t.twinPend = tr.twinPend
    BY TransportFacts DEF TrFields, TopicsOK
  <2> HIDE DEF t, packet
  <2> DEFINE u == IF k = 1
                  THEN [t EXCEPT !.getSent = TRUE,
                                 !.twinAck = Append(@, [pid |-> pid, kind |-> "auto",
                                                        id |-> AUTO, age |-> 0])]
                  ELSE IF Breaks(k, 1) THEN mqtt_error_callback(t) ELSE t
  <2>4. /\ DOMAIN u = TrFields /\ TopicsOK(u) /\ u.recover = tr.recover /\ u.twinPend = tr.twinPend
        /\ u.status = IF Breaks(k, 1) THEN "EXECUTE_DISCONNECT" ELSE tr.status
    <3>1. CASE k = 1
      <4>1. ~Breaks(k, 1)  BY <3>1 DEF Breaks
      <4>2. QED  BY <3>1, <4>1, <2>3 DEF TrFields, TopicsOK
    <3>2. CASE k # 1
      <4>1. Breaks(k, 1) => u = mqtt_error_callback(t)  BY <3>2
      <4>2. ~Breaks(k, 1) => u = t  BY <3>2
      <4> HIDE DEF u
      <4>3. QED  BY <1>1, <2>3, <4>1, <4>2, Errors
    <3>3. QED  BY <3>1, <3>2
  <2> HIDE DEF u
  <2>5. tr' = [u EXCEPT !.pkt = "PUBLISH"]  BY <2>1 DEF u
  <2>6. /\ DOMAIN tr' = TrFields /\ TopicsOK(tr') /\ tr'.recover = tr.recover
        /\ tr'.twinPend = tr.twinPend /\ tr'.pkt = "PUBLISH" /\ tr'.status = u.status
    BY <2>4, <2>5 DEF TrFields, TopicsOK
  <2> DEFINE ps == <<packet>>
  <2>7. /\ ps \in Seq({ps[i] : i \in 1 .. 1}) /\ Len(ps) = 1
        /\ \A i \in 1 .. 1 : ps[i].type # "CONNECT"
    BY <2>2, OnePacket
  <2>8. ChannelSent(ps, k)  BY <2>1
  <2> HIDE DEF ps
  <2>9. QED  BY <1>1, <1>2, <2>4, <2>6, <2>7, <2>8, TransportFacts, SendStep
<1>5. QED  BY <1>3, <1>4

LEMMA PublishStep ==
  ASSUME ConnInv, PublishAll
  PROVE  ConnInv'
<1> DEFINE n == Len(core.waiting)
           all == n + Len(tr.twinPend)
           inflight(i) == [msg |-> core.waiting[i].msg, pid |-> PidAfter(tr.pid, i), retry |-> 1, age |-> 0]
           ps == [i \in 1 .. all |->
                    IF i <= n THEN [type |-> "PUBLISH", pid |-> inflight(i).pid, msg |-> core.waiting[i].msg]
                    ELSE [type |-> "GET", pid |-> tr.twinPend[i - n].pid]]
           m(k) == IF k < n THEN k ELSE n
           t(k) == [tr EXCEPT !.pid = PidAfter(@, n), !.twinPend = <<>>,
                              !.inflight = @ \o [i \in 1 .. m(k) |-> inflight(i)],
                              !.twinAck = @ \o SubSeq(tr.twinPend, 1, k - m(k)),
                              !.getSent = @ \/ k > n]
<1>1. PICK k \in Accepted(all) :
        /\ ChannelSent(ps, k)
        /\ tr' = IF Breaks(k, all) THEN mqtt_error_callback(t(k)) ELSE t(k)
        /\ core' = [core EXCEPT !.waiting = PublishWaiting(k, n)]
  BY DEF PublishAll
<1>2. tr.status \in {"CONNECTED", "EXECUTE_DISCONNECT"}
  BY TransportFacts DEF PublishAll, Working
<1>3. all \in Nat
  <2>1. IsSeq(core.waiting) /\ IsSeq(tr.twinPend)  BY TransportFacts
  <2>2. Len(core.waiting) \in Nat /\ Len(tr.twinPend) \in Nat  BY <2>1, LenIsNat
  <2> DEFINE a == Len(core.waiting)
             b == Len(tr.twinPend)
  <2>3. a \in Nat /\ b \in Nat  BY <2>2
  <2> HIDE DEF a, b
  <2>4. a + b \in Nat  BY <2>3
  <2>5. QED  BY <2>4 DEF a, b
<1>4. \A i \in 1 .. all : ps[i].type # "CONNECT"  OBVIOUS
<1>5. ps \in Seq({ps[i] : i \in 1 .. all}) /\ Len(ps) = all
  <2> DEFINE packet(i) == IF i <= n
                          THEN [type |-> "PUBLISH", pid |-> inflight(i).pid, msg |-> core.waiting[i].msg]
                          ELSE [type |-> "GET", pid |-> tr.twinPend[i - n].pid]
  <2>1. ps = [i \in 1 .. all |-> packet(i)]  OBVIOUS
  <2> HIDE DEF ps, packet, all
  <2>2. ps \in Seq({packet(i) : i \in 1 .. all}) /\ Len(ps) = all  BY <1>3, <2>1
  <2>3. {packet(i) : i \in 1 .. all} = {ps[i] : i \in 1 .. all}  BY <2>1
  <2>4. QED  BY <2>2, <2>3
<1>6. /\ DOMAIN t(k) = TrFields /\ TopicsOK(t(k)) /\ t(k).status = tr.status /\ t(k).pkt = tr.pkt
      /\ t(k).recover = tr.recover /\ t(k).twinPend = <<>>
  BY TransportFacts DEF TrFields, TopicsOK
<1>7. DOMAIN core' = DOMAIN core /\ core'.waiting = <<>> /\ core'.reports = core.reports
  BY <1>1 DEF ConnInv, Shapes, PublishWaiting
<1> DEFINE u == t(k)
<1>8. tr' = IF Breaks(k, all) THEN mqtt_error_callback(u) ELSE u  BY <1>1
<1> HIDE DEF ps, all, n, t
<1>9. /\ DOMAIN u = TrFields /\ TopicsOK(u) /\ u.status = tr.status /\ u.pkt = tr.pkt
      /\ u.recover = tr.recover /\ u.twinPend = <<>>
  BY <1>6
<1> HIDE DEF u
<1>10. /\ DOMAIN tr' = TrFields /\ TopicsOK(tr') /\ tr'.recover = tr.recover /\ tr'.twinPend = <<>>
       /\ tr'.status = (IF Breaks(k, all) THEN "EXECUTE_DISCONNECT" ELSE tr.status)
       /\ tr'.pkt = IF Breaks(k, all) THEN "ERROR" ELSE tr.pkt
  BY <1>2, <1>8, <1>9, Errors
<1>11. QED
  BY <1>1, <1>2, <1>3, <1>4, <1>5, <1>7, <1>10, TransportFacts, EmptyWithout, SendStep

----------------------------------------------------------------------------
(* What comes from the network and the hub.                                *)

\* Packets move on a connection that is there.
LEMMA Exchanged ==
  ASSUME ConnInv, Opened, mq' = mq, DOMAIN net' = NetFields,
         net'.state \in {"open", "lost", "silent"}, net'.state # "open" => net'.up = <<>>,
         mq.conn => Without(net'.up, "CONNECT") /\ Without(net'.down, "CONNACK"),
         ~mq.conn => /\ Greeting(net'.up, net'.down)
                     /\ tr.status = "PENDING_CLOSE" => net'.up = <<>> /\ net'.down = <<>>,
         DOMAIN tr' = TrFields, TopicsOK(tr'), tr'.status = tr.status,
         tr'.pkt \in {"CONNECT", "CONNACK", "SUBSCRIBE", "SUBACK", "PUBLISH", "DISCONNECT", "ERROR",
                      "UNKNOWN"},
         PacketStateRight',
         DOMAIN core' = DOMAIN core, IsSeq(core'.waiting), IsSeq(core'.reports), IsSeq(tr'.twinPend)
  PROVE  ConnInv'
<1>1. Shapes'  BY DEF ConnInv, Shapes, NetFields, TrFields
<1>2. HandleRight' /\ StatusRight'  BY DEF ConnInv, HandleRight, StatusRight, Opened
<1>3. PacketsRight'  BY DEF PacketsRight, Opened
<1>4. TransportTypeOK'  BY DEF ConnInv, ConnectionOK, TransportTypeOK, TopicsOK
<1>5. StatesAgree'
  BY DEF ConnInv, ConnectionOK, TransportTypeOK, StatesAgree, PacketStateRight
<1>6. QED  BY <1>1, <1>2, <1>3, <1>4, <1>5 DEF ConnInv, ConnectionOK

\* What is read before CONNACK was is CONNACK, and afterwards it never comes.
LEMMA Read ==
  ASSUME ConnInv, net.down # <<>>
  PROVE  /\ Opened
         /\ mq.conn => /\ Head(net.down).type # "CONNACK" /\ tr.status = "CONNECTED"
                       /\ Without(net.up, "CONNECT") /\ Without(Tail(net.down), "CONNACK")
         /\ ~mq.conn => /\ Head(net.down).type = "CONNACK" /\ tr.status = "CONNECTING"
                        /\ net.up = <<>> /\ Tail(net.down) = <<>>
<1>1. Opened
  BY DEF ConnInv, ConnectionOK, TransportTypeOK, PacketsRight, Opened
<1>2. CASE mq.conn
  <2>1. Without(net.up, "CONNECT") /\ Without(net.down, "CONNACK") /\ tr.status = "CONNECTED"
    BY <1>1, <1>2 DEF ConnInv, PacketsRight, StatusRight
  <2>2. Without(Tail(net.down), "CONNACK") /\ Head(net.down).type # "CONNACK"
    BY <2>1, TailWithout
  <2>3. QED  BY <1>1, <1>2, <2>1, <2>2
<1>3. CASE ~mq.conn
  <2>1. Greeting(net.up, net.down) /\ tr.status = "CONNECTING"
    BY <1>1, <1>3 DEF ConnInv, PacketsRight, StatusRight
  <2>2. /\ net.up = <<>> /\ net.down \in Seq(ToSet(net.down)) /\ Len(net.down) = 1
        /\ net.down[1].type = "CONNACK"
    BY <2>1 DEF Greeting
  <2>3. Head(net.down) = net.down[1] /\ Tail(net.down) = <<>>
    <3> DEFINE S == ToSet(net.down)
    <3>1. net.down \in Seq(S)  BY <2>2
    <3> HIDE DEF S
    <3>2. Tail(net.down) \in Seq(S) /\ Len(Tail(net.down)) = 0  BY <2>2, <3>1
    <3>3. Head(net.down) = net.down[1]  BY <2>2, <3>1
    <3> DEFINE t == Tail(net.down)
    <3>4. t \in Seq(S) /\ Len(t) = 0  BY <3>2
    <3> HIDE DEF t
    <3>5. t = <<>>  BY <3>4
    <3>6. QED  BY <3>3, <3>5 DEF t
  <2>4. QED  BY <1>1, <1>3, <2>1, <2>2, <2>3
<1>4. QED  BY <1>2, <1>3

LEMMA ConnackStep ==
  ASSUME ConnInv, net.down # <<>>, Head(net.down).type = "CONNACK",
         net' = [net EXCEPT !.down = Tail(@)], NEW code, OnConnack(code)
  PROVE  ConnInv'
<1>1. Opened /\ ~mq.conn /\ net.up = <<>> /\ Tail(net.down) = <<>> /\ tr.status = "CONNECTING"
      /\ mq.xio = "live" /\ mq.sock
  BY Read DEF ConnInv, HandleRight, Opened
<1>2. DOMAIN net' = NetFields /\ net'.up = <<>> /\ net'.down = <<>> /\ net'.state = net.state
  BY <1>1, TransportFacts DEF NetFields
<1>3. core' = core  BY DEF OnConnack
<1>4. CASE code = "ok"
  <2>1. /\ tr' = [tr EXCEPT !.pkt = "CONNACK", !.recover = TRUE, !.status = "CONNECTED"]
        /\ mq' = [mq EXCEPT !.conn = TRUE]
    BY <1>4, TransportFacts DEF OnConnack
  <2>2. /\ DOMAIN tr' = TrFields /\ TopicsOK(tr') /\ tr'.pkt = "CONNACK" /\ tr'.recover = TRUE
        /\ tr'.status = "CONNECTED" /\ tr'.twinPend = tr.twinPend
        /\ mq' \in [xio : {"none", "live", "stale"}, sock : BOOLEAN, conn : BOOLEAN]
        /\ mq'.xio = "live" /\ mq'.sock /\ mq'.conn
    BY <1>1, <2>1, TransportFacts DEF TrFields, TopicsOK
  <2>3. Shapes' /\ TransportTypeOK'
    BY <1>1, <1>2, <1>3, <2>2, TransportFacts
       DEF ConnInv, Shapes, NetFields, TrFields, TransportTypeOK, TopicsOK, Opened
  <2>4. HandleRight' /\ StatusRight' /\ PacketStateRight' /\ StatesAgree'
    BY <1>1, <1>2, <2>2 DEF HandleRight, StatusRight, PacketStateRight, StatesAgree, Opened
  <2>5. PacketsRight'
    <3>1. mq'.conn  BY <2>2
    <3>2. Without(net'.up, "CONNECT") /\ Without(net'.down, "CONNACK")  BY <1>2, EmptyWithout
    <3>3. QED  BY <1>2, <3>1, <3>2 DEF PacketsRight
  <2>6. QED  BY <2>3, <2>4, <2>5 DEF ConnInv, ConnectionOK
<1>5. CASE code # "ok"
  <2>1. /\ tr' = [tr EXCEPT !.pkt = "ERROR", !.status = "PENDING_CLOSE", !.recover = @ /\ code # "bad"]
        /\ mq' = [mq EXCEPT !.conn = @ \/ FALSE]
    BY <1>5 DEF OnConnack
  <2>2. /\ DOMAIN tr' = TrFields /\ TopicsOK(tr') /\ tr'.pkt = "ERROR" /\ tr'.recover \in BOOLEAN
        /\ tr'.status = "PENDING_CLOSE" /\ tr'.twinPend = tr.twinPend
    BY <1>1, <2>1, TransportFacts DEF TrFields, TopicsOK
  <2>a. /\ mq' \in [xio : {"none", "live", "stale"}, sock : BOOLEAN, conn : BOOLEAN]
        /\ mq'.xio = "live" /\ mq'.sock /\ ~mq'.conn
    BY <1>1, <2>1, TransportFacts
  <2>3. Shapes' /\ TransportTypeOK'
    BY <1>1, <1>2, <1>3, <2>2, <2>a, TransportFacts
       DEF ConnInv, Shapes, NetFields, TrFields, TransportTypeOK, TopicsOK, Opened
  <2>4. HandleRight' /\ StatusRight' /\ PacketStateRight' /\ StatesAgree'
    BY <1>1, <1>2, <2>2, <2>a DEF HandleRight, StatusRight, PacketStateRight, StatesAgree, Opened
  <2>5. PacketsRight'  BY <1>2, <2>a DEF PacketsRight, Opened, Greeting
  <2>6. QED  BY <2>3, <2>4, <2>5 DEF ConnInv, ConnectionOK
<1>6. QED  BY <1>4, <1>5

\* The other packets come on a connection the transport has; only the packet state can
\* change with them.
LEMMA ReceiveStep ==
  ASSUME ConnInv, Receive
  PROVE  ConnInv'
<1> DEFINE p == Head(net.down)
<1>1. /\ net.down # <<>> /\ net' = [net EXCEPT !.down = Tail(@)] /\ pc' = pc /\ pc.at = "recv"
      /\ \/ p.type = "CONNACK" /\ OnConnack(p.code)
         \/ p.type = "PUBACK" /\ OnPuback(p.pid)
         \/ p.type = "SUBACK" /\ OnSuback(p.pid)
         \/ p.type = "TWIN" /\ OnTwin(p.pid)
         \/ p.type = "PATCH" /\ OnPatch
  BY DEF Receive, Reads
<1>2. CASE p.type = "CONNACK"
  <2>1. OnConnack(p.code)  BY <1>1, <1>2
  <2>2. QED  BY <1>1, <1>2, <2>1, ConnackStep
<1>3. CASE p.type # "CONNACK"
  <2>1. /\ Opened /\ mq.conn /\ tr.status = "CONNECTED"
        /\ Without(net.up, "CONNECT") /\ Without(Tail(net.down), "CONNACK")
    BY <1>1, <1>3, Read
  <2>2. /\ DOMAIN net' = NetFields /\ net'.state = net.state /\ net'.up = net.up
        /\ net'.down = Tail(net.down)
    BY <1>1, TransportFacts DEF NetFields
  <2>3. net.state # "open" => net.up = <<>>  BY DEF ConnInv, PacketsRight
  <2>4. /\ mq' = mq
        /\ DOMAIN core' = DOMAIN core /\ core'.waiting = core.waiting /\ core'.reports = core.reports
    <3>1. DOMAIN core = {"waiting", "reports", "acks", "callback", "complete"}  BY DEF ConnInv, Shapes
    <3>2. ASSUME NEW td, NEW state
          PROVE  LET c == RetrievePropertyComplete(core, td, state).core
                 IN  DOMAIN c = DOMAIN core /\ c.waiting = core.waiting /\ c.reports = core.reports
      BY <3>1 DEF RetrievePropertyComplete
    <3>3. ASSUME NEW td, NEW id
          PROVE  LET c == ReportedStateComplete(core, td, id).core
                 IN  DOMAIN c = DOMAIN core /\ c.waiting = core.waiting /\ c.reports = core.reports
      BY <3>1 DEF ReportedStateComplete
    <3>4. CASE \E pid : OnPuback(pid) \/ OnSuback(pid)  BY <3>4 DEF OnPuback, OnSuback
    <3>5. CASE \E pid : OnTwin(pid)
      <4>1. /\ mq' = mq
            /\ \/ core' = core
               \/ core' = RetrievePropertyComplete(core, told, "COMPLETE").core
               \/ \E id : core' = ReportedStateComplete(core, told, id).core
        BY <3>5 DEF OnTwin
      <4>2. QED  BY <4>1, <3>2, <3>3
    <3>6. CASE OnPatch
      <4>1. mq' = mq /\ core' = RetrievePropertyComplete(core, told, "PARTIAL").core
        BY <3>6 DEF OnPatch
      <4>2. QED  BY <4>1, <3>2
    <3>7. QED  BY <1>1, <1>3, <3>4, <3>5, <3>6
  <2>5. /\ DOMAIN tr' = TrFields /\ TopicsOK(tr') /\ tr'.status = tr.status
        /\ tr'.recover = tr.recover /\ tr'.twinPend = tr.twinPend
        /\ tr'.pkt \in {tr.pkt, "SUBACK", "SUBSCRIBE"}
    <3>1. CASE \E pid : OnPuback(pid)
      <4>1. PICK list : tr' = [tr EXCEPT !.inflight = list]  BY <3>1 DEF OnPuback
      <4>2. QED  BY <4>1, TransportFacts DEF TrFields, TopicsOK
    <3>2. CASE \E pid : OnSuback(pid)
      <4>1. PICK pid : tr' = [tr EXCEPT !.pkt = "SUBACK", !.subRecv = @ \/ pid = tr.subPid]
        BY <3>2 DEF OnSuback
      <4>2. QED  BY <4>1, TransportFacts DEF TrFields, TopicsOK
    <3>3. CASE \E pid : OnTwin(pid)
      <4>1. \E list : \/ tr' = tr
                      \/ tr' = [tr EXCEPT !.twinAck = list]
                      \/ tr' = SubscribeTopic([tr EXCEPT !.twinAck = list], "notify")
        BY <3>3 DEF OnTwin
      <4>2. PICK list : \/ tr' = tr
                        \/ tr' = [tr EXCEPT !.twinAck = list]
                        \/ tr' = SubscribeTopic([tr EXCEPT !.twinAck = list], "notify")
        BY <4>1
      <4> DEFINE t == [tr EXCEPT !.twinAck = list]
      <4>3. /\ DOMAIN t = TrFields /\ TopicsOK(t) /\ t.status = tr.status /\ t.recover = tr.recover
            /\ t.twinPend = tr.twinPend /\ t.pkt = tr.pkt
        BY TransportFacts DEF TrFields, TopicsOK
      <4>4. tr' = tr \/ tr' = t \/ tr' = SubscribeTopic(t, "notify")  BY <4>2
      <4> HIDE DEF t
      <4>5. CASE tr' = SubscribeTopic(t, "notify")  BY <4>3, <4>5, Subscribes
      <4>6. QED  BY <4>3, <4>4, <4>5, TransportFacts
    <3>4. CASE OnPatch  BY <3>4, TransportFacts DEF OnPatch
    <3>5. QED  BY <1>1, <1>3, <3>1, <3>2, <3>3, <3>4
  <2>6. PacketStateRight'
    BY <2>1, <2>5, TransportFacts DEF PacketStateRight
  <2>7. net'.state \in {"open", "lost", "silent"}  BY <2>1, <2>2 DEF Opened
  <2>8. QED
    BY <2>1, <2>2, <2>3, <2>4, <2>5, <2>6, <2>7, TransportFacts, Exchanged
<1>4. QED  BY <1>2, <1>3

\* mqtt_client_dowork on a connection that opens, fails to open or fails.
LEMMA OpenStep ==
  ASSUME ConnInv, onOpenComplete \/ onOpenError
  PROVE  ConnInv'
<1>1. net.state = "opening" /\ tr.status = "CONNECTING" /\ pc' = pc /\ core' = core /\ mq.xio = "live"
  BY DEF onOpenComplete, onOpenError, ConnInv, StatusRight, Reads
<1>2. CASE onOpenComplete /\ mq.sock
  <2>1. mq' = Closed(mq) /\ net' = HungUp(net) /\ tr' = tr  BY <1>2 DEF onOpenComplete
  <2>2. Silence(net')  BY <2>1, TransportFacts, Silent
  <2>3. PacketStateRight'  BY <1>1, <2>1, TransportFacts DEF PacketStateRight
  <2>4. QED  BY <1>1, <2>1, <2>2, <2>3, TransportFacts, ClosedStep
<1>3. CASE onOpenComplete /\ ~mq.sock
  <2>1. /\ mq' = [mq EXCEPT !.sock = TRUE] /\ tr' = tr
        /\ net' = [net EXCEPT !.state = "open", !.up = <<[type |-> "CONNECT"]>>]
    BY <1>3 DEF onOpenComplete
  <2>2. net.down = <<>> /\ ~mq.conn  BY <1>1, <1>3 DEF ConnInv, PacketsRight, HandleRight
  <2>3. /\ DOMAIN net' = NetFields /\ net'.state = "open" /\ net'.up = <<[type |-> "CONNECT"]>>
        /\ net'.down = <<>>
    BY <2>1, <2>2, TransportFacts DEF NetFields
  <2>4. /\ mq' \in [xio : {"none", "live", "stale"}, sock : BOOLEAN, conn : BOOLEAN]
        /\ mq'.xio = "live" /\ mq'.sock /\ ~mq'.conn
    BY <1>1, <2>1, <2>2, TransportFacts
  <2>5. Shapes' /\ TransportTypeOK'
    BY <1>1, <2>1, <2>3, <2>4, TransportFacts
       DEF ConnInv, Shapes, NetFields, TrFields, TransportTypeOK, TopicsOK
  <2>6. HandleRight' /\ StatusRight' /\ StatesAgree'
    BY <1>1, <2>1, <2>3, <2>4, TransportFacts
       DEF HandleRight, StatusRight, PacketStateRight, StatesAgree, Opened
  <2>7. PacketsRight'  BY <2>3, <2>4 DEF PacketsRight, Greeting
  <2>8. PacketStateRight'  BY <1>1, <2>1, TransportFacts DEF PacketStateRight
  <2>9. QED  BY <2>5, <2>6, <2>7, <2>8 DEF ConnInv, ConnectionOK
<1>4. CASE onOpenError
  <2>1. /\ tr' = (IF mq.sock THEN tr ELSE mqtt_error_callback(tr))
        /\ mq' = Closed(mq) /\ net' = Fault(HungUp(net))
    BY <1>4 DEF onOpenError
  <2>2. Silence(net')  BY <2>1, TransportFacts, Silent
  <2>3. /\ DOMAIN tr' = TrFields /\ TopicsOK(tr') /\ tr'.recover = tr.recover
        /\ tr'.twinPend = tr.twinPend
        /\ \/ tr'.status = "CONNECTING" /\ tr'.pkt = tr.pkt
           \/ tr'.status = "EXECUTE_DISCONNECT" /\ tr'.pkt = "ERROR"
    BY <1>1, <2>1, TransportFacts, Errors
  <2>4. PacketStateRight'  BY <1>1, <2>3, TransportFacts DEF PacketStateRight
  <2>5. QED  BY <1>1, <2>1, <2>2, <2>3, <2>4, TransportFacts, ClosedStep
<1>5. QED  BY <1>2, <1>3, <1>4

LEMMA ErrorStep ==
  ASSUME ConnInv, ConnectionError \/ DoworkReturns
  PROVE  ConnInv'
<1>1. CASE ConnectionError
  <2>1. tr' = mqtt_error_callback(tr) /\ mq' = Closed(mq) /\ net' = HungUp(net) /\ core' = core
        /\ net.state \in {"lost", "silent"}
    BY <1>1 DEF ConnectionError
  <2>2. Silence(net')  BY <2>1, TransportFacts, Silent
  <2>3. tr.status \in {"CONNECTED", "CONNECTING", "PENDING_CLOSE"}
    BY <2>1 DEF ConnInv, StatusRight, Opened
  <2>4. /\ DOMAIN tr' = TrFields /\ TopicsOK(tr') /\ tr'.recover = tr.recover
        /\ tr'.twinPend = tr.twinPend /\ tr'.pkt = "ERROR"
        /\ tr'.status = IF tr.status = "PENDING_CLOSE" THEN "PENDING_CLOSE" ELSE "EXECUTE_DISCONNECT"
    BY <2>1, TransportFacts, Errors
  <2>5. PacketStateRight'  BY <2>3, <2>4, TransportFacts DEF PacketStateRight
  <2>6. QED  BY <2>1, <2>2, <2>4, <2>5, TransportFacts, ClosedStep
<1>2. CASE DoworkReturns
  <2>1. mq' = mq /\ net' = net /\ core' = core /\ tr' = tr /\ pc'.at \in {"undefined", "acks"}
    BY <1>2 DEF DoworkReturns, Goto
  <2>2. PacketStateRight'  BY <2>1, TransportFacts DEF PacketStateRight
  <2>3. QED  BY <2>1, <2>2, TransportFacts, Stays
<1>3. QED  BY <1>1, <1>2

\* The hub answers, a patch comes, the network fails.
LEMMA OutsideStep ==
  ASSUME ConnInv, Hub \/ Outside
  PROVE  ConnInv'
<1>1. mq' = mq /\ core' = core /\ tr' = tr /\ pc' = pc /\ net.state = "open"
  BY DEF Hub, Outside, HubStep, HubPatch, NetworkFails
<1>2. PacketStateRight'  BY <1>1, TransportFacts DEF PacketStateRight
<1>3. Opened  BY <1>1 DEF Opened
<1>4. ASSUME DOMAIN net' = NetFields, net'.state \in {"open", "lost", "silent"},
             net'.state # "open" => net'.up = <<>>,
             mq.conn => Without(net'.up, "CONNECT") /\ Without(net'.down, "CONNACK"),
             ~mq.conn => /\ Greeting(net'.up, net'.down)
                         /\ tr.status = "PENDING_CLOSE" => net'.up = <<>> /\ net'.down = <<>>
      PROVE  ConnInv'
  BY <1>1, <1>2, <1>3, <1>4, TransportFacts, Exchanged
<1>5. /\ mq.conn => Without(net.up, "CONNECT") /\ Without(net.down, "CONNACK")
      /\ ~mq.conn => /\ Greeting(net.up, net.down)
                     /\ tr.status = "PENDING_CLOSE" => net.up = <<>> /\ net.down = <<>>
  BY <1>3 DEF ConnInv, PacketsRight, StatusRight
<1>6. CASE HubStep
  <2> DEFINE p == Head(net.up)
  <2>1. PICK code : net' = [net EXCEPT !.up = Tail(@), !.down = @ \o Answer(p, code),
                              !.subs = IF p.type = "SUBSCRIBE" THEN @ \cup p.topics ELSE @,
                              !.got = IF p.type = "PUBLISH" THEN @ \cup {p.msg} ELSE @]
    BY <1>6 DEF HubStep
  <2>2. /\ DOMAIN net' = NetFields /\ net'.state = "open" /\ net'.up = Tail(net.up)
        /\ net'.down = net.down \o Answer(p, code) /\ net.up # <<>>
    BY <1>1, <1>6, <2>1, TransportFacts DEF NetFields, HubStep
  <2>3. CASE mq.conn
    <3>1. Without(Tail(net.up), "CONNECT") /\ p.type # "CONNECT"  BY <1>5, <2>2, <2>3, TailWithout
    <3> DEFINE a == Answer(p, code)
    <3>2. Without(a, "CONNACK")
      <4>1. \/ a = <<[type |-> "SUBACK", pid |-> p.pid]>>
            \/ a = <<[type |-> "PUBACK", pid |-> p.pid]>>
            \/ a = <<[type |-> "TWIN", pid |-> p.pid]>>
            \/ a = <<>>
        BY <3>1 DEF Answer
      <4>2. \A q : q.type # "CONNACK" => Without(<<q>>, "CONNACK")  BY OneWithout
      <4>3. QED  BY <4>1, <4>2, EmptyWithout
    <3> HIDE DEF a
    <3>3. Without(net.down \o a, "CONNACK")  BY <1>5, <2>3, <3>2, ConcatWithout
    <3>4. QED  BY <1>4, <2>2, <2>3, <3>1, <3>3 DEF a
  <2>4. CASE ~mq.conn
    <3>1. net.up = <<[type |-> "CONNECT"]>> /\ net.down = <<>> /\ tr.status # "PENDING_CLOSE"
      BY <1>5, <2>2, <2>4 DEF Greeting
    <3>2. p.type = "CONNECT" /\ net'.up = <<>>  BY <2>2, <3>1
    <3>3. Answer(p, code) = <<[type |-> "CONNACK", code |-> code]>>  BY <3>2 DEF Answer
    <3> DEFINE c == [type |-> "CONNACK", code |-> code]
    <3>4. c.type = "CONNACK"  OBVIOUS
    <3> HIDE DEF c
    <3>5. net'.down = <<>> \o <<c>>  BY <2>2, <3>1, <3>3 DEF c
    <3>6. <<>> \o <<c>> = <<c>>  OBVIOUS
    <3>7. <<c>> \in Seq({c}) /\ Len(<<c>>) = 1 /\ <<c>>[1] = c  OBVIOUS
    <3>8. IsSeq(<<c>>)
      <4> DEFINE s == <<c>>
      <4>1. s \in Seq({c})  BY <3>7
      <4> HIDE DEF s
      <4>2. IsSeq(s)  BY <4>1, SeqIsSeq
      <4>3. QED  BY <4>2 DEF s
    <3>9. Greeting(net'.up, net'.down)  BY <3>2, <3>4, <3>5, <3>6, <3>7, <3>8 DEF Greeting, IsSeq
    <3>10. QED  BY <1>4, <2>2, <2>4, <3>1, <3>2, <3>9
  <2>5. QED  BY <2>3, <2>4
<1>7. CASE HubPatch
  <2>1. /\ mq.conn /\ net' = [net EXCEPT !.down = Append(@, [type |-> "PATCH"]), !.patches = @ + 1]
    BY <1>7 DEF HubPatch
  <2> DEFINE q == [type |-> "PATCH"]
             one == <<q>>
  <2>2. q.type # "CONNACK"  OBVIOUS
  <2> HIDE DEF q
  <2>3. Without(one, "CONNACK")  BY <2>2, OneWithout
  <2>4. net.down \in Seq(ToSet(net.down))  BY <1>5, <2>1 DEF Without, IsSeq
  <2>5. Append(net.down, q) = net.down \o one  BY <2>4
  <2> HIDE DEF one
  <2>6. Without(net.down \o one, "CONNACK")  BY <1>5, <2>1, <2>3, ConcatWithout
  <2>7. /\ DOMAIN net' = NetFields /\ net'.state = "open" /\ net'.up = net.up
        /\ net'.down = Append(net.down, q)
    BY <1>1, <2>1, TransportFacts DEF NetFields, q
  <2>8. QED  BY <1>4, <1>5, <2>1, <2>5, <2>6, <2>7
<1>8. CASE NetworkFails
  <2>1. PICK fault \in {"lose", "silent"}, rest \in {net.down, <<>>} :
          net' = [Fault(net) EXCEPT !.state = IF fault = "lose" THEN "lost" ELSE "silent",
                                    !.up = <<>>, !.down = rest]
    BY <1>8 DEF NetworkFails
  <2>2. /\ DOMAIN net' = NetFields /\ net'.state \in {"lost", "silent"} /\ net'.up = <<>>
        /\ net'.down \in {net.down, <<>>}
    BY <2>1, TransportFacts DEF NetFields, Fault
  <2>3. mq.conn => Without(net'.up, "CONNECT") /\ Without(net'.down, "CONNACK")
    BY <1>5, <2>2, EmptyWithout
  <2>4. ~mq.conn => /\ Greeting(net'.up, net'.down)
                    /\ tr.status = "PENDING_CLOSE" => net'.up = <<>> /\ net'.down = <<>>
    BY <1>5, <2>2 DEF Greeting
  <2>5. QED  BY <1>4, <2>2, <2>3, <2>4
<1>9. QED  BY <1>6, <1>7, <1>8 DEF Hub, Outside

----------------------------------------------------------------------------
(* What becomes of old entries.                                            *)

LEMMA AcksStep ==
  ASSUME ConnInv, StillWaiting \/ GiveUp \/ CountAttempt \/ RemoveExpiredGets
  PROVE  ConnInv'
<1>1. core' = core  BY DEF StillWaiting, GiveUp, CountAttempt, RemoveExpiredGets
<1>2. CASE GiveUp
  <2> DEFINE t == Removed
  <2>1. PICK o \in DisconnectFromClient(t) : mq' = o.mq /\ net' = o.net /\ tr' = o.tr
    BY <1>2 DEF GiveUp, BecomesOutcome
  <2>2. /\ DOMAIN t = TrFields /\ TopicsOK(t) /\ t.pkt = tr.pkt /\ t.recover = tr.recover
        /\ t.twinPend = tr.twinPend /\ t.status = tr.status
    BY TransportFacts DEF TrFields, TopicsOK, Removed
  <2> HIDE DEF t
  <2>3. t.pkt = "DISCONNECT" => net.state = "none"  BY <2>2, TransportFacts
  <2>4. /\ DOMAIN o.tr = TrFields /\ TopicsOK(o.tr) /\ o.tr.twinPend = tr.twinPend
        /\ o.tr.pkt = "DISCONNECT" /\ Silence(o.net)
    BY <2>2, <2>3, Disconnects
  <2>5. tr.status = "EXECUTE_DISCONNECT" => t.pkt # "DISCONNECT"
    BY <2>2, TransportFacts DEF PacketStateRight
  <2>6. QED  BY <1>1, <2>1, <2>2, <2>4, <2>5, TransportFacts, DisconnectStep
<1>3. CASE StillWaiting \/ CountAttempt \/ RemoveExpiredGets
  <2>1. mq' = mq /\ net' = net /\ pc'.at # "work"
    BY <1>3 DEF StillWaiting, CountAttempt, RemoveExpiredGets, Expired, InAcks, NextEntry, Goto
  <2>2. /\ DOMAIN tr' = TrFields /\ TopicsOK(tr') /\ tr'.status = tr.status /\ tr'.pkt = tr.pkt
        /\ tr'.recover = tr.recover /\ IsSeq(tr'.twinPend)
    <3>1. CASE StillWaiting  BY <3>1, TransportFacts DEF StillWaiting
    <3>2. CASE CountAttempt
      <4>1. tr' = Again  BY <3>2 DEF CountAttempt
      <4>2. QED  BY <4>1, TransportFacts DEF Again, TrFields, TopicsOK
    <3>3. CASE RemoveExpiredGets
      <4>1. PICK S : tr' = [tr EXCEPT !.twinPend = Only(@, S), !.twinAck = Only(@, S)]
        BY <3>3 DEF RemoveExpiredGets
      <4>2. IsSeq(Only(tr.twinPend, S))  BY TransportFacts, OnlyIsSeq
      <4>3. QED  BY <4>1, <4>2, TransportFacts DEF TrFields, TopicsOK
    <3>4. QED  BY <1>3, <3>1, <3>2, <3>3
  <2>3. PacketStateRight'  BY <2>1, <2>2, TransportFacts DEF PacketStateRight
  <2>4. QED  BY <1>1, <2>1, <2>2, <2>3, TransportFacts, Stays
<1>4. QED  BY <1>2, <1>3

LEMMA ResendStep ==
  ASSUME ConnInv, Resend
  PROVE  ConnInv'
<1> DEFINE packet == [type |-> "PUBLISH", pid |-> Entry.pid, msg |-> Entry.msg]
           ps == <<packet>>
           t == Removed
<1>1. PICK k \in Accepted(1) :
        /\ ChannelSent(ps, k)
        /\ \/ k = 1 /\ tr' = Again
           \/ k = 0 /\ tr' = (IF Breaks(k, 1) THEN mqtt_error_callback(t) ELSE t)
  BY DEF Resend
<1>2. core' = core /\ tr.pkt = "PUBLISH"  BY DEF Resend
<1>3. tr.status \in {"CONNECTED", "EXECUTE_DISCONNECT"}  BY <1>2, TransportFacts
<1>4. packet.type # "CONNECT"  OBVIOUS
<1> HIDE DEF packet
<1>5. ps \in Seq({ps[i] : i \in 1 .. 1}) /\ Len(ps) = 1 /\ \A i \in 1 .. 1 : ps[i].type # "CONNECT"
  BY <1>4, OnePacket
<1>6. /\ DOMAIN t = TrFields /\ TopicsOK(t) /\ t.status = tr.status /\ t.pkt = tr.pkt
      /\ t.recover = tr.recover /\ t.twinPend = tr.twinPend
  BY TransportFacts DEF Removed, TrFields, TopicsOK
<1>7. /\ DOMAIN Again = TrFields /\ TopicsOK(Again) /\ Again.status = tr.status
      /\ Again.pkt = tr.pkt /\ Again.recover = tr.recover /\ Again.twinPend = tr.twinPend
  BY TransportFacts DEF Again, TrFields, TopicsOK
<1> HIDE DEF t, ps
<1>8. k = 1 => ~Breaks(k, 1)  BY DEF Breaks
<1>9. /\ DOMAIN tr' = TrFields /\ TopicsOK(tr') /\ tr'.recover = tr.recover
      /\ tr'.twinPend = tr.twinPend
      /\ tr'.status = (IF Breaks(k, 1) THEN "EXECUTE_DISCONNECT" ELSE tr.status)
      /\ tr'.pkt = IF Breaks(k, 1) THEN "ERROR" ELSE tr.pkt
  BY <1>1, <1>3, <1>6, <1>7, <1>8, Errors
<1>10. ChannelSent(ps, k)  BY <1>1
<1>11. QED  BY <1>2, <1>3, <1>5, <1>9, <1>10, TransportFacts, SendStep

LEMMA TickStep ==
  ASSUME ConnInv, Tick
  PROVE  ConnInv'
<1>1. mq' = mq /\ net' = net /\ pc' = pc  BY DEF Tick
<1>2. /\ DOMAIN tr' = TrFields /\ TopicsOK(tr') /\ tr'.status = tr.status /\ tr'.pkt = tr.pkt
      /\ tr'.recover = tr.recover /\ tr'.twinPend = OlderGets(tr.twinPend)
  BY TransportFacts DEF Tick, TrFields, TopicsOK
<1>3. IsSeq(OlderGets(tr.twinPend))
  <2>1. Len(tr.twinPend) \in Nat  BY TransportFacts, LenIsNat
  <2> DEFINE q == tr.twinPend
             older(i) == IF q[i].kind = "demand" THEN Older(q[i], TWINWAIT) ELSE q[i]
             list == [i \in 1 .. Len(q) |-> older(i)]
  <2>2. OlderGets(q) = list  BY DEF OlderGets
  <2> HIDE DEF older, q
  <2>3. list \in Seq({older(i) : i \in 1 .. Len(q)})  BY <2>1 DEF q
  <2> HIDE DEF list
  <2>4. IsSeq(list)  BY <2>3, SeqIsSeq
  <2>5. QED  BY <2>2, <2>4 DEF q
<1>4. DOMAIN core' = DOMAIN core /\ IsSeq(core'.waiting) /\ core'.reports = core.reports
  <2>1. CASE MSGTIMEOUT = 0  BY <2>1, TransportFacts DEF Tick
  <2>2. CASE MSGTIMEOUT # 0
    <3> DEFINE n == Len(core.waiting)
               older(i) == Older(core.waiting[i], MSGTIMEOUT + 1)
               list == [i \in 1 .. n |-> older(i)]
    <3>1. core' = [core EXCEPT !.waiting = list]  BY <2>2 DEF Tick
    <3>2. n \in Nat  BY TransportFacts, LenIsNat
    <3> HIDE DEF older, n
    <3>3. list \in Seq({older(i) : i \in 1 .. n})  BY <3>2
    <3> HIDE DEF list
    <3>4. IsSeq(list)  BY <3>3, SeqIsSeq
    <3>5. QED  BY <3>1, <3>4 DEF ConnInv, Shapes
  <2>3. QED  BY <2>1, <2>2
<1>5. PacketStateRight'  BY <1>1, <1>2, TransportFacts DEF PacketStateRight
<1>6. QED  BY <1>1, <1>2, <1>3, <1>4, <1>5, TransportFacts, Stays

----------------------------------------------------------------------------
(* The theorem.                                                            *)

LEMMA InitConn == TransportInit => ConnInv
<1> SUFFICES ASSUME TransportInit PROVE ConnInv  OBVIOUS
<1>1. /\ mq = [xio |-> "none", sock |-> FALSE, conn |-> FALSE]
      /\ core = [waiting |-> <<>>, reports |-> <<>>, acks |-> <<>>, callback |-> FALSE, complete |-> FALSE]
      /\ tr = [status |-> "NOT_CONNECTED", pkt |-> "CONNECT", topics |-> {}, toSub |-> {},
               getSent |-> FALSE, subRecv |-> FALSE, subPid |-> 0, pid |-> 1, recover |-> TRUE,
               cage |-> 0, inflight |-> <<>>, twinAck |-> <<>>, twinPend |-> <<>>]
      /\ \E scene : net = [scene |-> scene, state |-> "none", up |-> <<>>, down |-> <<>>, subs |-> {},
                           got |-> {}, patches |-> 0, faults |-> 0]
  BY DEF TransportInit, ChannelInit
<1>2. /\ DOMAIN net = NetFields /\ net.state = "none" /\ net.up = <<>> /\ net.down = <<>>
  BY <1>1 DEF NetFields
<1>3. /\ DOMAIN tr = TrFields /\ tr.status = "NOT_CONNECTED" /\ tr.pkt = "CONNECT" /\ tr.recover = TRUE
      /\ tr.toSub = {} /\ tr.topics = {} /\ tr.twinPend = <<>>
  BY <1>1 DEF TrFields
<1>4. Shapes
  BY <1>1, <1>2, <1>3, EmptyWithout DEF Shapes, NetFields, TrFields
<1>5. TransportTypeOK /\ StatesAgree
  BY <1>1, <1>2, <1>3 DEF TransportTypeOK, StatesAgree
<1>6. HandleRight /\ PacketsRight /\ StatusRight /\ PacketStateRight
  BY <1>1, <1>2, <1>3 DEF HandleRight, PacketsRight, StatusRight, PacketStateRight, Opened
<1>7. QED  BY <1>4, <1>5, <1>6 DEF ConnInv, ConnectionOK

LEMMA NextConn == ConnInv /\ [TransportNext]_transportvars => ConnInv'
<1> SUFFICES ASSUME ConnInv, [TransportNext]_transportvars PROVE ConnInv'  OBVIOUS
<1>1. CASE Application  BY <1>1, ApplicationStep
<1>2. CASE Destroy  BY <1>2, DestroyStep
<1>3. CASE DoWork
  BY <1>3, CoreDoWorkStep, ConnectStep, DisconnectSteps, PendingCloseStep, SubscribeStep, SubackStep,
     PublishStep, OpenStep, ReceiveStep, ErrorStep, AcksStep, ResendStep
     DEF DoWork
<1>4. CASE SasExpired \/ onOpenError  BY <1>4, DisconnectSteps, OpenStep
<1>5. CASE Hub \/ Outside  BY <1>5, OutsideStep
<1>6. CASE TimePasses  BY <1>6, TickStep DEF TimePasses
<1>7. CASE UNCHANGED transportvars
  BY <1>7 DEF transportvars, ConnInv, ConnectionOK, TransportTypeOK, StatesAgree, Shapes, HandleRight,
              PacketsRight, StatusRight, PacketStateRight, Opened
<1>8. QED  BY <1>1, <1>2, <1>3, <1>4, <1>5, <1>6, <1>7 DEF TransportNext

\* Transport, MQTT client and network never disagree on the connection: the transport is
\* connected only on a live connection that mqtt_client holds and whose CONNACK it got, it
\* publishes only then or with an error to handle, and a connection it waits for is not one
\* it has destroyed (DisconnectFromClient, mqtt_operation_complete_callback, on_connection_closed).
THEOREM StatesAlwaysAgree == TransportSpec => []ConnectionOK
<1>1. ConnInv => ConnectionOK  BY DEF ConnInv
<1>2. QED  BY <1>1, InitConn, NextConn, PTL DEF TransportSpec
=============================================================================
