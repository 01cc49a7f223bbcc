------------------------------- MODULE MCLive -------------------------------
(***************************************************************************)
(* What the services and the time management come to, for TLC: like        *)
(* MCServices, with the fairness of each component and smaller bounds.     *)
(***************************************************************************)
EXTENDS MCServices, TimeEvent

CONSTANTS e1, e3

\* A task that waits beside a cyclic handler; a handler that is never created.
Waits == [calls |-> {"wait"}, acre |-> {}]
Unused == [calls |-> {}, acre |-> {e3}]
WaitConfigs == {Waits, Unused}

lvars == <<svars, tvars>>

LInit ==
  /\ SInit /\ Init
  /\ IF subject = "timer" THEN tm.cfg = Waits ELSE tm.cfg = Unused /\ tm.raw = 0

LNext ==
  \/ SNext /\ UNCHANGED tvars
  \/ subject = "timer" /\ Next /\ UNCHANGED svars

\* The fairness of each component while it is the subject: TaskSpec and the others.
\* The last conjunct is WF_lvars(Expire), as in FairSpec of TimeEvent.
LiveSpec ==
  /\ LInit /\ [][LNext]_lvars
  /\ WF_taskvars(subject = "log" /\ LogTaskStep) /\ WF_taskvars(subject = "log" /\ PortSends)
  /\ \A t \in Tasks : WF_pvars(subject = "serial" /\ TaskStep(t))
  /\ WF_pvars(subject = "serial" /\ eiSIOCBR_readySend) /\ WF_pvars(subject = "serial" /\ Transmit)
  /\ WF_pvars(subject = "serial" /\ sendStopped /\ eiSIOCBR_readyReceive("START"))
  /\ WF_fdvars(subject = "select" /\ Caller)
  /\ WF_shellvars(subject = "shell" /\ Shell)
  /\ WF_kvars(subject = "keepalive" /\ Time) /\ WF_kvars(subject = "keepalive" /\ DoWork)
  /\ WF_tvars(subject = "timer" /\ Tick) /\ WF_tvars(subject = "timer" /\ (signal_time \/ LookAgain))
  /\ WF_tvars(subject = "timer" /\ HandlerReturns)
  /\ []<>~Expiring \/ []<><<Expire>>_tvars

----------------------------------------------------------------------------
\* What is logged leaves the log and what is written leaves the port
\* (tLogTaskMain.c, tSerialPortMain.c).
OutputLeaves == RecordsLeave /\ WritersFinish
=============================================================================
