------------------------------ MODULE FdSelect ------------------------------
(***************************************************************************)
(* select and poll of the shell (ntshell/src/fdtable.c) over TCP sockets   *)
(* (ntshell/src/socket_stub.c).  One task calls them; the Ethernet task,   *)
(* which has a higher priority, delivers data and calls the callback of a  *)
(* receive that is outstanding.  The descriptors are 0 .. LAST.            *)
(***************************************************************************)
EXTENDS Naturals, FiniteSets

CONSTANTS
  LASTFD,         \* the last descriptor
  MAXDATA,      \* bound of the model on the data a socket holds
  TMO_FEVR,     \* the timeout that means "for ever": the largest number
  TMAX_RELTIM,  \* the largest timeout that the kernel takes
  Requests,     \* the descriptor sets that the callers pass
  Timeouts      \* the timeouts that the callers pass

FD == 0 .. LASTFD

ASSUME FdAssumption ==
  /\ {LASTFD, MAXDATA, TMO_FEVR, TMAX_RELTIM} \subseteq Nat /\ TMAX_RELTIM < TMO_FEVR
  /\ Timeouts \subseteq (0 .. TMAX_RELTIM) \cup {TMO_FEVR}
  /\ Requests \subseteq [read : SUBSET FD, write : SUBSET FD, error : SUBSET FD]

VARIABLES
  window,     \* data in the receive window of each socket (TCP/IP stack)
  receiving,  \* sockets with a non-blocking receive outstanding (TCP/IP stack)
  len,        \* socket->len: data the socket was told of and that was not read
  readevt,    \* readevt_w - readevt_r of each descriptor
  writeevt,   \* writeevt_w - writeevt_r
  flag,       \* FLG_SELECT_WAIT
  fdPc,         \* where the caller is, with the descriptor it looks at
  call,       \* what it called
  evts,       \* the descriptor sets of this pass of shell_get_evts
  waitptn, ready, flgptn, timedout, tmout,
  answer,     \* what the last call returned
  seen        \* history: descriptors that a pass of this call found readable

socket == <<window, receiving, len, readevt, writeevt>>
locals == <<evts, waitptn, ready, flgptn, timedout, tmout>>
fdvars == <<socket, flag, fdPc, call, locals, answer, seen>>

Nothing == [read |-> {}, write |-> {}, error |-> {}]
NoAnswer == [ret |-> "none", read |-> {}]
At(place, fd) == [at |-> place, fd |-> fd]

FdInit ==
  /\ window = [f \in FD |-> 0] /\ receiving = {} /\ len = [f \in FD |-> 0]
  /\ readevt = [f \in FD |-> 0] /\ writeevt = [f \in FD |-> 0]
  /\ flag = {} /\ fdPc = At("idle", 0) /\ call = [fn |-> "select", req |-> Nothing, tmout |-> 0]
  /\ evts = Nothing /\ waitptn = {} /\ ready = Nothing /\ flgptn = {} /\ timedout = FALSE
  /\ tmout = 0 /\ answer = NoAnswer /\ seen = {}

----------------------------------------------------------------------------
\* The sockets.  socket_tcp_callback for TFN_TCP_RCV_BUF with n bytes.
socket_tcp_callback(f, n) ==
  /\ len' = [len EXCEPT ![f] = @ + n]
  /\ readevt' = [readevt EXCEPT ![f] = IF @ = 0 THEN 1 ELSE @]
  /\ flag' = flag \cup {f}

\* The stack puts data into the window and ends an outstanding receive.
Arrive(f) ==
  /\ window[f] < MAXDATA
  /\ window' = [window EXCEPT ![f] = @ + 1]
  /\ receiving' = receiving \ {f}
  /\ IF f \in receiving THEN socket_tcp_callback(f, window'[f])
     ELSE UNCHANGED <<len, readevt, flag>>
  /\ UNCHANGED <<writeevt, fdPc, call, locals, answer, seen>>

tcp_fd_readable(f) == len[f] > 0

\* Fault: the callback for data that is there already sets only the flag.
ReceiveNonBlocking_flag(f) ==
  IF f \notin receiving /\ window[f] > 0
  THEN flag' = flag \cup {f} /\ UNCHANGED <<receiving, len, readevt>>
  ELSE receiving' = receiving \cup {f} /\ UNCHANGED <<len, readevt, flag>>

\* tcp_rcv_buf(TMO_NBLK) by tcp_fd_readable when the socket knows of no data:
\* it calls the callback itself when there is some, and otherwise stays outstanding.
ReceiveNonBlocking(f) ==
  IF f \notin receiving /\ window[f] > 0
  THEN socket_tcp_callback(f, window[f]) /\ UNCHANGED receiving
  ELSE receiving' = receiving \cup {f} /\ UNCHANGED <<len, readevt, flag>>

\* Fault: the event of the descriptor is left pending by the read.
shell_recvfrom_pending(f, n) ==
  /\ fdPc.at = "idle"
  /\ len[f] > 0 \/ (f \notin receiving /\ window[f] > 0)
  /\ LET chunk == IF len[f] > 0 THEN len[f] ELSE window[f]
     IN  n \in 1 .. chunk /\ len' = [len EXCEPT ![f] = chunk - n]
  /\ window' = [window EXCEPT ![f] = @ - n]
  /\ answer' = [answer EXCEPT !.read = @ \ {f}]
  /\ UNCHANGED <<receiving, readevt, writeevt, flag, fdPc, call, locals, seen>>

\* The caller reads n bytes: the rest of a buffer it was told of, or a new one.
\* With a receive outstanding and no data the call fails and changes nothing.
shell_recvfrom(f, n) ==
  /\ fdPc.at = "idle"
  /\ len[f] > 0 \/ (f \notin receiving /\ window[f] > 0)
  /\ LET chunk == IF len[f] > 0 THEN len[f] ELSE window[f]
     IN  n \in 1 .. chunk /\ len' = [len EXCEPT ![f] = chunk - n]
  /\ window' = [window EXCEPT ![f] = @ - n]
  /\ readevt' = [readevt EXCEPT ![f] = IF @ # 0 THEN @ - 1 ELSE @]
  /\ answer' = [answer EXCEPT !.read = @ \ {f}]
  /\ UNCHANGED <<receiving, writeevt, flag, fdPc, call, locals, seen>>

shell_sendto(f) ==
  /\ fdPc.at = "idle" /\ writeevt[f] # 0
  /\ writeevt' = [writeevt EXCEPT ![f] = @ - 1]
  /\ UNCHANGED <<window, receiving, len, readevt, flag, fdPc, call, locals, answer, seen>>

----------------------------------------------------------------------------
\* A pass of shell_get_evts over the sets e starts.
Pass(e) ==
  /\ evts' = e /\ waitptn' = e.error /\ ready' = Nothing /\ flgptn' = {} /\ timedout' = FALSE
  /\ fdPc' = At("check", 0)

\* shell_select and shell_poll are called.
Called(fn, req, t) ==
  /\ fdPc.at = "idle"
  /\ call' = [fn |-> fn, req |-> req, tmout |-> t]
  /\ tmout' = t /\ answer' = NoAnswer /\ seen' = {}
  /\ Pass(req)
  /\ UNCHANGED <<socket, flag>>

Next_fd(place, then) == IF fdPc.fd < LASTFD THEN At(place, fdPc.fd + 1) ELSE At(then, 0)

\* The descriptor pc.fd is looked at: ready, or to be waited for.  The event
\* counters are moved even though no event came.
Check ==
  LET f == fdPc.fd
      toRead == f \in evts.read      isReadable == toRead /\ tcp_fd_readable(f)
      toWrite == f \in evts.write    isWritable == toWrite /\ writeevt[f] = 0
  IN  /\ fdPc.at = "check"
      /\ IF toRead /\ ~isReadable THEN ReceiveNonBlocking(f)
         ELSE /\ readevt' = [readevt EXCEPT ![f] = IF isReadable /\ @ = 0 THEN 1 ELSE @]
              /\ UNCHANGED <<receiving, len, flag>>
      /\ writeevt' = [writeevt EXCEPT ![f] = IF isWritable THEN 1 ELSE @]
      /\ ready' = [ready EXCEPT !.read = IF isReadable THEN @ \cup {f} ELSE @,
                                !.write = IF isWritable THEN @ \cup {f} ELSE @]
      /\ waitptn' = IF (toRead /\ ~isReadable) \/ (toWrite /\ ~isWritable)
                    THEN waitptn \cup {f} ELSE waitptn
      /\ seen' = IF isReadable THEN seen \cup {f} ELSE seen
      /\ fdPc' = Next_fd("check", "decide")
      /\ UNCHANGED <<window, call, evts, flgptn, timedout, tmout, answer>>

\* Fault: what was waited for is reported in place of what is ready.
Returns_waited(s, n) ==
  IF call.fn = "poll" /\ s.read \cup s.write = {}
  THEN Pass(call.req) /\ UNCHANGED <<call, tmout, answer>>
  ELSE /\ answer' = [ret |-> IF n = 0 THEN "zero" ELSE "some",
                     read |-> IF waitptn = {} THEN s.read ELSE waitptn \cap call.req.read]
       /\ fdPc' = At("idle", 0)
       /\ UNCHANGED <<call, evts, waitptn, ready, flgptn, timedout, tmout>>

\* shell_get_evts returns E_OK with the descriptors in s: select masks them with
\* its sets and returns their number n; poll starts again when there are none.
Returns(s, n) ==
  IF call.fn = "poll" /\ s.read \cup s.write = {}
  THEN Pass(call.req) /\ UNCHANGED <<call, tmout, answer>>
  ELSE /\ answer' = [ret |-> IF n = 0 THEN "zero" ELSE "some",
                     read |-> IF call.fn = "select" THEN s.read \cap call.req.read ELSE s.read]
       /\ fdPc' = At("idle", 0)
       /\ UNCHANGED <<call, evts, waitptn, ready, flgptn, timedout, tmout>>

\* shell_get_evts fails: "zero" for E_TMOUT, -EBADF for every other error.
ReturnError(ret) ==
  /\ answer' = [NoAnswer EXCEPT !.ret = ret] /\ fdPc' = At("idle", 0)
  /\ UNCHANGED <<call, locals>>

\* Fault: the flags are cleared before the wait and not after it.
Decide_clear ==
  /\ fdPc.at = "decide"
  /\ IF waitptn = {}
     THEN Returns(ready, Cardinality(ready.read) + Cardinality(ready.write)) /\ UNCHANGED flag
     ELSE /\ flag' = (flag \cup ready.read \cup ready.write) \ waitptn
          /\ evts' = Nothing /\ fdPc' = At("wait", 0)
          /\ UNCHANGED <<call, waitptn, ready, flgptn, timedout, tmout, answer>>
  /\ UNCHANGED <<socket, seen>>

\* After the pass: return when there is nothing to wait for.
Decide ==
  /\ fdPc.at = "decide"
  /\ IF waitptn = {}
     THEN Returns(ready, Cardinality(ready.read) + Cardinality(ready.write)) /\ UNCHANGED flag
     ELSE /\ flag' = flag \cup ready.read \cup ready.write
          /\ evts' = Nothing /\ fdPc' = At("wait", 0)
          /\ UNCHANGED <<call, waitptn, ready, flgptn, timedout, tmout, answer>>
  /\ UNCHANGED <<socket, seen>>

TimeoutOK == tmout <= TMAX_RELTIM \/ tmout = TMO_FEVR

\* twai_flg refuses the timeout.
WaitFails ==
  /\ fdPc.at = "wait" /\ ~TimeoutOK /\ ReturnError("error")
  /\ UNCHANGED <<socket, flag, seen>>

\* twai_flg returns with every bit of the flag.
WaitEnds ==
  /\ fdPc.at = "wait" /\ TimeoutOK /\ flag \cap waitptn # {}
  /\ flgptn' = flag /\ fdPc' = At("clear", 0)
  /\ UNCHANGED <<socket, flag, call, evts, waitptn, ready, timedout, tmout, answer, seen>>

\* twai_flg times out: no bit is received.
WaitTimesOut ==
  /\ fdPc.at = "wait" /\ TimeoutOK /\ tmout # TMO_FEVR /\ flag \cap waitptn = {}
  /\ timedout' = TRUE /\ fdPc' = At("collect", 0)
  /\ UNCHANGED <<socket, flag, call, evts, waitptn, ready, flgptn, tmout, answer, seen>>

\* Only the bits that were received and waited for are cleared.
Clear ==
  /\ fdPc.at = "clear"
  /\ flag' = flag \ (flgptn \cap waitptn)
  /\ fdPc' = At("collect", 0)
  /\ UNCHANGED <<socket, call, locals, answer, seen>>

\* The events of the descriptor pc.fd are taken, those not asked for too.
Collect ==
  LET f == fdPc.fd
      hasRead == f \in waitptn /\ readevt[f] # 0
      hasWrite == f \in waitptn /\ writeevt[f] # 0
  IN  /\ fdPc.at = "collect"
      /\ readevt' = [readevt EXCEPT ![f] = IF hasRead THEN @ - 1 ELSE @]
      /\ writeevt' = [writeevt EXCEPT ![f] = IF hasWrite THEN @ - 1 ELSE @]
      /\ evts' = [evts EXCEPT !.read = IF hasRead THEN @ \cup {f} ELSE @,
                              !.write = IF hasWrite THEN @ \cup {f} ELSE @]
      /\ fdPc' = Next_fd("collect", "done")
      /\ UNCHANGED <<window, receiving, len, flag, call, waitptn, ready, flgptn, timedout, tmout,
                     answer, seen>>

\* The pass ends with an answer, with a timeout, or with another pass, for which
\* the sets are empty now.  elapse is the time since the last look at the clock.
Done(elapse) ==
  LET n == Cardinality(evts.read) + Cardinality(evts.write)
  IN  /\ fdPc.at = "done"
      /\ timedout => elapse >= tmout
      /\ \/ n > 0 /\ Returns(evts, n)
         \/ n = 0 /\ elapse > tmout /\ ReturnError("zero")
         \/ n = 0 /\ elapse <= tmout /\ Pass(evts) /\ tmout' = tmout - elapse
            /\ UNCHANGED <<call, answer>>
      /\ UNCHANGED <<socket, flag, seen>>

Caller ==
  \/ Check \/ Decide \/ WaitFails \/ WaitEnds \/ WaitTimesOut \/ Clear \/ Collect
  \/ \E elapse \in 0 .. TMO_FEVR : Done(elapse)

FdNext ==
  \/ \E f \in FD : Arrive(f)
  \/ \E f \in FD, n \in 1 .. MAXDATA : shell_recvfrom(f, n)
  \/ \E f \in FD : shell_sendto(f)
  \/ \E fn \in {"select", "poll"}, req \in Requests, t \in Timeouts : Called(fn, req, t)
  \/ Caller

FdSpec == FdInit /\ [][FdNext]_fdvars
\* The task of the caller runs whenever those of the stack wait.
FairFdSpec == FdSpec /\ WF_fdvars(Caller)

----------------------------------------------------------------------------
(***************************************************************************)
(* The counters of fdtable.c and the receives of the stack agree: an event *)
(* is pending only where there is data, never twice, and a socket that     *)
(* waits for a receive knows of no data.                                   *)
(***************************************************************************)
FdTypeOK ==
  /\ \A f \in FD : /\ len[f] \in 0 .. window[f] /\ readevt[f] \in 0 .. 1 /\ writeevt[f] \in 0 .. 1
                   /\ readevt[f] = 1 => len[f] > 0
                   /\ f \in receiving => window[f] = 0
  /\ flag \subseteq FD /\ waitptn \subseteq FD /\ receiving \subseteq FD

(***************************************************************************)
(* No wake-up is lost: a caller that waits in twai_flg with none of its    *)
(* flags set has a receive outstanding on each socket it wants to read and *)
(* could not, so the next data will set a flag.                            *)
(***************************************************************************)
NoLostWakeup ==
  fdPc.at = "wait" /\ flag \cap waitptn = {} =>
    \A f \in waitptn \cap (call.req.read \ ready.read) : f \in receiving /\ window[f] = 0

(***************************************************************************)
(* A socket that select or poll reported as readable has data until it is  *)
(* read, so the blocking read that follows returns at once.                *)
(***************************************************************************)
ReportedHasData == \A f \in answer.read : len[f] > 0

\* No wake-up of a select or poll is lost, and what it reports is there (fdtable.c).
SelectOK == FdTypeOK /\ NoLostWakeup /\ ReportedHasData

(***************************************************************************)
(* A poll or select of one socket for reading ends once there is data.     *)
(***************************************************************************)
DataEndsTheWait ==
  \A f \in FD :
    (fdPc.at # "idle" /\ call.req = [Nothing EXCEPT !.read = {f}] /\ window[f] > 0) ~> (fdPc.at = "idle")

(***************************************************************************)
(* select without a timeout returns only when a descriptor is ready.       *)
(***************************************************************************)
WaitsIndefinitely == answer.ret = "zero" /\ call.fn = "select" => call.tmout # TMO_FEVR

(***************************************************************************)
(* select does not report a timeout when it found a descriptor readable.   *)
(***************************************************************************)
TimeoutMeansNothing == answer.ret = "zero" => seen = {}
=============================================================================
