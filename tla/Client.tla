------------------------------- MODULE Client -------------------------------
(***************************************************************************)
(* The weather station client (iothub_client_run of client.c): it sends    *)
(* its messages from a ring of MESSAGE_COUNT entries, and                  *)
(* SendConfirmationCallback uses the entry it is given.  The core of the   *)
(* IoT Hub client below it is what EventSpec promises.  Messages are       *)
(* numbered through all runs of the client; a message is also its handle.  *)
(***************************************************************************)
EXTENDS Integers, FiniteSets

CONSTANTS
  MESSAGE_COUNT,
  MaxMessages, \* bound of the model on the messages of all runs
  Prompt       \* is a message confirmed before its entry of the ring is used again?

ASSUME ClientAssumption == MESSAGE_COUNT \in Nat \ {0} /\ MaxMessages \in Nat

VARIABLES
  inRun, messages, msg_id,
  created,  \* number of messages created
  number,   \* of each message, its number in the run (msg_id when it was sent)
  freed,    \* of each message, how often its handle was destroyed
  printed,  \* the message last confirmed, and the tracking id printed for it
  accepted, pending, outcome, received

Core == INSTANCE EventSpec WITH Events <- 1 .. MaxMessages, Results <- {"ok", "error"}

client == <<inRun, messages, msg_id, created, number>>
clvars == <<client, freed, printed, accepted, pending, outcome, received>>

NoHandle == 0
Handles == 1 .. MaxMessages
MsgPos(n) == n % MESSAGE_COUNT

\* messages is on the stack; nothing reads an entry before it is written.
ClientInit ==
  /\ inRun = FALSE /\ msg_id = 0 /\ created = 0
  /\ messages = [i \in 0 .. MESSAGE_COUNT - 1 |-> [messageHandle |-> NoHandle, messageTrackingId |-> 0]]
  /\ number = [m \in Handles |-> 0]
  /\ freed = [m \in Handles |-> 0]
  /\ printed = [message |-> NoHandle, id |-> 0]
  /\ Core!Init

Run ==
  /\ ~ inRun
  /\ inRun' = TRUE /\ msg_id' = 0
  /\ UNCHANGED <<messages, created, number, freed, printed, accepted, pending, outcome, received>>

EntryMayBeReused == Prompt => \A m \in pending : MsgPos(number[m]) # MsgPos(msg_id)

\* Fault: the number of the message is advanced before its entry is filled.
NextMessage_early ==
  /\ inRun /\ created < MaxMessages /\ EntryMayBeReused
  /\ created' = created + 1
  /\ messages' = [messages EXCEPT ![MsgPos(msg_id)] =
                   [messageHandle |-> created + 1, messageTrackingId |-> msg_id + 1]]
  /\ number' = [number EXCEPT ![created + 1] = msg_id]
  /\ msg_id' = msg_id + 1
  /\ UNCHANGED <<inRun, freed, printed>>

\* Another message: its entry of the ring is written over.
NextMessage ==
  /\ inRun /\ created < MaxMessages /\ EntryMayBeReused
  /\ created' = created + 1
  /\ messages' = [messages EXCEPT ![MsgPos(msg_id)] =
                   [messageHandle |-> created + 1, messageTrackingId |-> msg_id]]
  /\ number' = [number EXCEPT ![created + 1] = msg_id]
  /\ msg_id' = msg_id + 1
  /\ UNCHANGED <<inRun, freed, printed>>

SendEvent == NextMessage /\ Core!Accept(created + 1)

\* IoTHubClient_LL_SendEventAsync fails: the entry and its number are used up,
\* and nobody destroys the handle.
SendRefused == NextMessage /\ UNCHANGED <<accepted, pending, outcome, received>>

\* The handle of the entry is NULL, and the number is not used up.
CreateFails ==
  /\ inRun /\ EntryMayBeReused
  /\ messages' = [messages EXCEPT ![MsgPos(msg_id)].messageHandle = NoHandle]
  /\ UNCHANGED <<inRun, msg_id, created, number, freed, printed, accepted, pending, outcome, received>>

\* Fault: the handle of the first entry is destroyed.
SendConfirmationCallback_first(m) ==
  LET first == messages[0].messageHandle
  IN  /\ printed' = [message |-> m, id |-> messages[MsgPos(number[m])].messageTrackingId]
      /\ freed' = IF first = NoHandle THEN freed ELSE [freed EXCEPT ![first] = @ + 1]

\* The callback is given the entry the message was sent from.
SendConfirmationCallback(m) ==
  LET eventInstance == messages[MsgPos(number[m])]
  IN  /\ printed' = [message |-> m, id |-> eventInstance.messageTrackingId]
      /\ freed' = IF eventInstance.messageHandle = NoHandle THEN freed
                  ELSE [freed EXCEPT ![eventInstance.messageHandle] = @ + 1]

Confirmed(m, r) ==
  /\ inRun
  /\ Core!Confirm({m}, r)
  /\ SendConfirmationCallback(m)
  /\ UNCHANGED client

HubReceives(m) == Core!Reach({m}) /\ UNCHANGED <<client, freed, printed>>

\* IoTHubClient_LL_Destroy has confirmed everything before the run ends.
Quit ==
  /\ inRun /\ pending = {}
  /\ inRun' = FALSE
  /\ UNCHANGED <<messages, msg_id, created, number, freed, printed, accepted, pending, outcome, received>>

ClientNext ==
  \/ Run \/ SendEvent \/ SendRefused \/ CreateFails \/ Quit
  \/ \E m \in Handles : HubReceives(m) \/ \E r \in {"ok", "error"} : Confirmed(m, r)

ClientSpec == ClientInit /\ [][ClientNext]_clvars

----------------------------------------------------------------------------
\* The callback tells the messages apart: "For tracking the messages within the
\* user callback" (client.c:54).
TrackingRight == printed.message # NoHandle => printed.id = number[printed.message]

\* The handle of a message that was accepted is destroyed exactly once, when the
\* message is confirmed; no other is destroyed (client.c, SendConfirmationCallback).
HandlesFreedOnce ==
  \A m \in Handles : freed[m] = (IF m \in accepted \ pending THEN 1 ELSE 0)

\* Every callback gets its own message, whose handle is destroyed once (client.c).
MessagesOK == TrackingRight /\ HandlesFreedOnce
=============================================================================
