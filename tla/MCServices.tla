----------------------------- MODULE MCServices -----------------------------
(***************************************************************************)
(* The services and the parts of the application that share no state with  *)
(* each other, for TLC.  A behaviour is one of the component chosen at the *)
(* start, the subject; the others stay as they are.                        *)
(***************************************************************************)
EXTENDS LogTask, SerialPort, FdSelect, ShellCommand, Client, KeepAlive, MqttCodec

CONSTANTS
  Subjects,
  NOTICE, DEBUG,  \* priorities of records
  f1,             \* a task that flushes the log
  shell, log      \* the users of the serial port

VARIABLE subject

\* LOG_UPTO(LOG_NOTICE), LOG_UPTO(LOG_DEBUG) and nothing at all.
UsedMasks == {{NOTICE}, {NOTICE, DEBUG}, {}}

\* A shell reads and writes lines, character by character, while the log is written.
Lines(arrives) ==
  [ioControl |-> {"CRLF", "FCSND", "FCRCV"}, incoming |-> {"c", "STOP", "START"},
   texts |-> [t \in {shell, log} |-> IF t = shell THEN {<<"LF">>} ELSE {<<"c", "LF">>}],
   lengths |-> [t \in {shell, log} |-> IF t = shell THEN {1} ELSE {}],
   releasable |-> {shell}, maxReceived |-> arrives]

\* The port echoes what the shell reads, and any character starts it again.
Echo ==
  [ioControl |-> {"ECHO", "CRLF", "FCRCV", "FCSND", "FCANY"}, incoming |-> {"LF", "STOP"},
   texts |-> [t \in {shell, log} |-> IF t = shell THEN {} ELSE {<<"c">>}],
   lengths |-> [t \in {shell, log} |-> IF t = shell THEN {1, 2} ELSE {}],
   releasable |-> {}, maxReceived |-> 3]

AllPorts == {Lines(3), Echo}
LinesOnly == {Lines(1)}

\* Requests for reading, alone and with writing or errors of one descriptor.
MixedRequests ==
  [read : {{}, {0}, FD}, write : {{}}, error : {{}}]
  \cup {[read |-> {LASTFD}, write |-> {0}, error |-> {}],
        [read |-> {0}, write |-> {0}, error |-> {LASTFD}]}

\* One socket to read from.
OneToRead == {[Nothing EXCEPT !.read = {f}] : f \in FD}

\* PINGRESP, and packets whose lengths take one to four digits of base 2; the codec
\* refuses the last.
Data(n) == [i \in 1 .. n |-> (i + 1) % 4]
UsedPackets ==
  {[type |-> 3, data |-> <<>>], [type |-> 2, data |-> Data(8)]}
  \cup {[type |-> t, data |-> Data(n)] : t \in {1, 2}, n \in {1, 3, 5}}

----------------------------------------------------------------------------
svars == <<subject, taskvars, pvars, fdvars, shellvars, clvars, kvars, cvars>>

SInit ==
  /\ subject \in Subjects
  /\ TaskInit /\ FdInit /\ ShellInit /\ ClientInit /\ KeepInit /\ CodecInit
  /\ PortInit /\ (subject # "serial" => port = CHOOSE p \in PORTS : TRUE)

SNext ==
  /\ UNCHANGED subject
  /\ \/ subject = "log" /\ TaskNext /\ UNCHANGED <<pvars, fdvars, shellvars, clvars, kvars, cvars>>
     \/ subject = "serial" /\ PortNext /\ UNCHANGED <<taskvars, fdvars, shellvars, clvars, kvars, cvars>>
     \/ subject = "select" /\ FdNext /\ UNCHANGED <<taskvars, pvars, shellvars, clvars, kvars, cvars>>
     \/ subject = "shell" /\ ShellNext /\ UNCHANGED <<taskvars, pvars, fdvars, clvars, kvars, cvars>>
     \/ subject = "client" /\ ClientNext /\ UNCHANGED <<taskvars, pvars, fdvars, shellvars, kvars, cvars>>
     \/ subject = "keepalive" /\ KeepNext /\ UNCHANGED <<taskvars, pvars, fdvars, shellvars, clvars, cvars>>
     \/ subject = "codec" /\ CodecNext /\ UNCHANGED <<taskvars, pvars, fdvars, shellvars, clvars, kvars>>

SSpec == SInit /\ [][SNext]_svars
=============================================================================
