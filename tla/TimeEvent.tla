----------------------------- MODULE TimeEvent -----------------------------
(***************************************************************************)
(* The time management of the kernel: time_event.c and time_manage.c, the  *)
(* alarm and cyclic notifications (alarm.c, cyclic.c) and the driver of    *)
(* the high resolution timer (chip_timer.h).  Module Kernel takes it that  *)
(* a registered time event may expire at any time; here is when it does.   *)
(*                                                                         *)
(* Event times are W-bit-wide counters in the code (W = 2^32) that wrap    *)
(* around, so that W and the other constants are parameters and the runs   *)
(* scale them down together.                                               *)
(***************************************************************************)
EXTENDS TimeHeap, Integers, FiniteSets

CONSTANTS
  W,                  \* modulus of EVTTIM (2^32)
  BOUNDARY_MARGIN,    \* how far in the past an event time may lie
  TCYC_HRTCNT,        \* cycle of the high resolution timer
  TSTEP_HRTCNT,       \* its step
  HRTCNT_BOUND,       \* the longest time the timer is set to
  RATE,               \* counts of the hardware per step (100/3 in the code)
  TMAX_ADJTIM,        \* limit of one adjustment (TMIN_ADJTIM = -TMAX_ADJTIM)
  TMO, ALM, CYC,      \* the time events of waiting tasks, alarms and cyclic handlers
  RELTIM,             \* the relative times used (at most TMAX_RELTIM)
  CYCTIM, CYCPHS,     \* period and phase of the cyclic handlers
  MAXLATE,            \* bound of the model: the counts for which an interrupt may
                      \* be pending and a handler may run
  SYSTIMS,            \* the times the clock is set to
  CFG,                \* the configurations: the service calls that are used, and the
                      \* alarms and cyclic handlers that are created at run time
  NULL

ASSUME TimeAssumption ==
  /\ {W, BOUNDARY_MARGIN, TCYC_HRTCNT, TSTEP_HRTCNT, HRTCNT_BOUND, RATE} \subseteq Nat \ {0}
  /\ {TMAX_ADJTIM, MAXLATE, CYCTIM, CYCPHS} \cup RELTIM \cup SYSTIMS \subseteq Nat
  /\ TCYC_HRTCNT <= W   \* HRTCNT has no more bits than EVTTIM
  /\ HRTCNT_BOUND * RATE + RATE + MAXLATE < TCYC_HRTCNT * RATE
  /\ \A t \in RELTIM \cup {CYCTIM, CYCPHS} :
       t + TSTEP_HRTCNT + 3 * TMAX_ADJTIM + BOUNDARY_MARGIN < W
ASSUME KindAssumption ==
  TMEVTB = TMO \cup ALM \cup CYC /\ TMO \cap ALM = {} /\ TMO \cap CYC = {} /\ ALM \cap CYC = {}
  /\ NULL \notin TMEVTB /\ IsFiniteSet(CYC)
  /\ \A c \in CFG : c.acre \subseteq ALM \cup CYC

VARIABLES
  tm,             \* the state of the module: the timer "hw" with its counter "raw", its
                  \* compare register "cmp" and its request "irq"; hrtcnt, current, mono
                  \* and offset (current_hrtcnt, current_evttim, monotonic_evttim and
                  \* systim_offset); tmevt_heap and the times of its events
  in_signal_time,
  exists,         \* alarms and cyclic handlers whose attribute is not TA_NOEXS
  started,        \* almsta and cycsta
  running,        \* the event whose callback has unlocked the CPU, or NULL
  late,           \* how long the timer's request has waited and been handled
  left            \* for the properties: the counts of the hardware until each event is
                  \* due by the request that was made

tvars == <<tm, in_signal_time, exists, started, running, late, left>>

\* A step for the rounding of an event's time and one for the setting of the timer,
\* the time the interrupt may take, and what adj_tim may put the clock forward.
\* "left" is not counted down any further.
Overdue(c) == (1 + TSTEP_HRTCNT) * RATE + MAXLATE + IF "adj_tim" \in c.calls THEN 2 * TMAX_ADJTIM * RATE ELSE 0
MaxOverdue == Overdue(tm.cfg)

ASSUME MarginAssumption == \A c \in CFG : Overdue(c) < BOUNDARY_MARGIN * RATE

RAW == RATE * TCYC_HRTCNT   \* modulus of the hardware counter
SYS == 2 * W                \* modulus of SYSTIM in the model (2^64 in the code)

TimeStates == [cfg : CFG, raw : 0 .. RAW - 1, cmp : 0 .. RAW - 1, irq : BOOLEAN,
               hrtcnt : 0 .. TCYC_HRTCNT - 1, current : 0 .. W - 1, mono : 0 .. W - 1,
               offset : 0 .. SYS - 1, heap : TimeHeaps, evttim : [TMEVTB -> 0 .. W - 1]]

Reg == Registered(tm.heap)
Top == tm.heap.node[1]

----------------------------------------------------------------------------
(* The timer (chip_timer.h).                                               *)

\* Fault: rounded up.
target_hrt_get_current_up(s) == (s.raw + RATE - 1) \div RATE

target_hrt_get_current(s) == s.raw \div RATE

target_hrt_set_event(s, hrtcnt) == [s EXCEPT !.cmp = (s.raw + hrtcnt * RATE + 1) % RAW]

target_hrt_raise_event(s) == [s EXCEPT !.irq = TRUE]

----------------------------------------------------------------------------
(* Event times (time_event.c).                                             *)

\* Fault: event times are compared as numbers.
Advance_plain(s, t) == t

\* EVTTIM_ADVANCE: boundary_evttim is always current_evttim - BOUNDARY_MARGIN.
Advance(s, t) == (t - (s.current - BOUNDARY_MARGIN)) % W

Keys(s) == [e \in TMEVTB |-> Advance(s, s.evttim[e])]

Due(s) == s.heap.node # <<>> /\ Advance(s, s.evttim[s.heap.node[1]]) <= Advance(s, s.current)

\* Fault: the wrap-around is not carried over.
Overtake_no_carry(s, previous, advance) ==
  IF (s.mono - previous) % W < advance THEN [s EXCEPT !.mono = s.current] ELSE s

\* monotonic_evttim follows current_evttim when it is overtaken; its wrap-around
\* is carried over into systim_offset.
Overtake(s, previous, advance) ==
  IF (s.mono - previous) % W < advance
  THEN [s EXCEPT !.mono = s.current,
                 !.offset = IF s.current < s.mono THEN (@ + W) % SYS ELSE @]
  ELSE s

\* Fault: current_hrtcnt is overwritten before the difference is taken.
update_current_evttim_late(s) == [s EXCEPT !.hrtcnt = target_hrt_get_current(s)]

update_current_evttim(s) ==
  LET hrtcnt == target_hrt_get_current(s)
      advance == (hrtcnt - s.hrtcnt) % TCYC_HRTCNT
  IN  Overtake([s EXCEPT !.hrtcnt = hrtcnt, !.current = (@ + advance) % W], s.current, advance)

\* Fault: rounded to the earlier side.
calc_current_evttim_ub_early(s) == s.current

calc_current_evttim_ub(s) == s.current + TSTEP_HRTCNT

set_hrt_event(s) ==
  LET wait == (s.evttim[s.heap.node[1]] - s.current) % W
  IN  IF s.heap.node = <<>> THEN target_hrt_set_event(s, HRTCNT_BOUND)
      ELSE IF Due(s) THEN target_hrt_raise_event(s)
      ELSE target_hrt_set_event(s, IF wait > HRTCNT_BOUND THEN HRTCNT_BOUND ELSE wait)

\* The timer's interrupt sets the timer itself when it ends.
SetTimerAt(s, top) == IF ~in_signal_time /\ top THEN set_hrt_event(s) ELSE s

\* Fault: the timer is not set to an event that is now the first.
tmevtb_enqueue_reltim_no_timer(s, e, time) ==
  LET now == update_current_evttim(s)
      timed == [now EXCEPT !.evttim[e] = (calc_current_evttim_ub(now) + time) % W]
  IN  [timed EXCEPT !.heap = tmevtb_insert(@, Keys(timed), e)]

tmevtb_enqueue_reltim(s, e, time) ==
  LET now == update_current_evttim(s)
      timed == [now EXCEPT !.evttim[e] = (calc_current_evttim_ub(now) + time) % W]
      new == [timed EXCEPT !.heap = tmevtb_insert(@, Keys(timed), e)]
  IN  SetTimerAt(new, new.heap.pos[e] = 1)

\* The time and the node of an event that is not registered are not used; they
\* are 0 here.
Forget(s, e) == [s EXCEPT !.evttim[e] = 0, !.heap.pos[e] = 0]

tmevtb_dequeue(s, e) ==
  LET new == Forget([s EXCEPT !.heap = tmevtb_delete(@, Keys(s), e)], e)
      top == s.heap.pos[e] = 1
  IN  SetTimerAt(IF top /\ ~in_signal_time THEN update_current_evttim(new) ELSE new, top)

\* Fault: no adjustment is refused.
check_adjtim_none(s, adjtim) == FALSE

check_adjtim(s, adjtim) ==
  IF adjtim > 0
  THEN s.heap.node # <<>> /\
       Advance(s, s.evttim[s.heap.node[1]] + TMAX_ADJTIM) <= Advance(s, s.current)
  ELSE adjtim < 0 /\ (s.mono - s.current) % W >= TMAX_ADJTIM

----------------------------------------------------------------------------
(* The start: initialize_cyclic has registered the static cyclic handlers,   *)
(* all with TA_STA, and startup.c has set the timer.                         *)

SCYC(c) == CYC \ c.acre

InitialHeap(c) ==
  CHOOSE h \in [node : [1 .. Cardinality(SCYC(c)) -> SCYC(c)], pos : [TMEVTB -> 0 .. Cardinality(SCYC(c))]] :
    /\ \A i \in DOMAIN h.node : h.pos[h.node[i]] = i
    /\ \A e \in TMEVTB \ SCYC(c) : h.pos[e] = 0

AtStart(c, raw) ==
  [cfg |-> c, raw |-> raw, cmp |-> 0, irq |-> FALSE, hrtcnt |-> raw \div RATE,
   current |-> 0, mono |-> 0, offset |-> 0, heap |-> InitialHeap(c),
   evttim |-> [e \in TMEVTB |-> IF e \in SCYC(c) THEN CYCPHS ELSE 0]]

Init ==
  /\ \E c \in CFG, raw \in 0 .. RAW - 1 :
       /\ tm = set_hrt_event(AtStart(c, raw))
       /\ left = [e \in TMEVTB |-> IF e \in SCYC(c) THEN CYCPHS * RATE - (raw % RATE) ELSE 0]
       /\ exists = (ALM \cup CYC) \ c.acre /\ started = SCYC(c)
  /\ running = NULL /\ late = 0 /\ in_signal_time = FALSE

----------------------------------------------------------------------------
(* The counter runs on, but only so long while the timer's request waits or  *)
(* is handled: what else the processor does in that time is bounded.         *)

Tick ==
  LET raw == (tm.raw + 1) % RAW
      waiting == tm.irq \/ in_signal_time
  IN  /\ waiting => late < MAXLATE
      /\ late' = IF waiting THEN late + 1 ELSE 0
      /\ tm' = [tm EXCEPT !.raw = raw, !.irq = @ \/ raw = tm.cmp]
      /\ left' = [e \in TMEVTB |-> IF e \in Reg /\ left[e] >= -MaxOverdue
                                   THEN left[e] - 1 ELSE left[e]]
      /\ UNCHANGED <<in_signal_time, exists, started, running>>

----------------------------------------------------------------------------
(* The calls.  Each is one section with the CPU locked.                      *)

\* Tasks do not run during the timer's interrupt; other interrupt handlers run
\* while it has a notification handler run.
TaskContext == ~in_signal_time
CpuFree == ~in_signal_time \/ running # NULL

Call(name) == name \in tm.cfg.calls /\ UNCHANGED <<in_signal_time, running, late>>

Enqueue(s, e, time) ==
  /\ tm' = tmevtb_enqueue_reltim(s, e, time)
  /\ left' = [left EXCEPT ![e] = time * RATE]

\* A task begins to wait with a limit; its wait ends before the limit.
make_wait_tmout(e, time) ==
  /\ Call("wait") /\ TaskContext /\ e \notin Reg
  /\ Enqueue(tm, e, time) /\ UNCHANGED <<exists, started>>

wait_dequeue_tmevtb(e) ==
  /\ Call("wait") /\ CpuFree /\ e \in Reg
  /\ tm' = tmevtb_dequeue(tm, e) /\ left' = [left EXCEPT ![e] = 0]
  /\ UNCHANGED <<exists, started>>

\* Starting again what is started first takes its event out.
Start(e, time) ==
  /\ Enqueue(IF e \in started THEN tmevtb_dequeue(tm, e) ELSE tm, e, time)
  /\ started' = started \cup {e}

Stop(e) ==
  /\ tm' = IF e \in started THEN tmevtb_dequeue(tm, e) ELSE tm
  /\ started' = started \ {e} /\ left' = [left EXCEPT ![e] = 0]

OnExisting(e) == e \in exists /\ UNCHANGED exists

sta_alm(e, almtim) == Call("sta_alm") /\ CpuFree /\ OnExisting(e) /\ Start(e, almtim)
stp_alm(e) == Call("stp_alm") /\ CpuFree /\ OnExisting(e) /\ Stop(e)
sta_cyc(e) == Call("sta_cyc") /\ TaskContext /\ OnExisting(e) /\ Start(e, CYCPHS)
stp_cyc(e) == Call("stp_cyc") /\ TaskContext /\ OnExisting(e) /\ Stop(e)

\* A control block is taken from those that are free; a cyclic handler with TA_STA
\* is started at once.
acre_alm(e) ==
  /\ Call("acre") /\ TaskContext /\ e \notin exists
  /\ exists' = exists \cup {e} /\ UNCHANGED <<tm, started, left>>

acre_cyc(e, sta) ==
  /\ Call("acre") /\ TaskContext /\ e \notin exists
  /\ exists' = exists \cup {e}
  /\ IF sta THEN Start(e, CYCPHS) ELSE UNCHANGED <<tm, started, left>>

\* Fault: a notification that is started is deleted like any other.
del_started(e) ==
  /\ Call("acre") /\ TaskContext /\ e \in exists \cap tm.cfg.acre
  /\ exists' = exists \ {e} /\ UNCHANGED <<tm, started, left>>

\* del_alm and del_cyc: one that is started is stopped first.
del(e) ==
  /\ Call("acre") /\ TaskContext /\ e \in exists \cap tm.cfg.acre
  /\ exists' = exists \ {e} /\ Stop(e)

set_tim(systim) ==
  LET now == update_current_evttim(tm) IN
  /\ Call("set_tim") /\ TaskContext
  /\ tm' = [now EXCEPT !.offset = (systim - now.mono) % SYS]
  /\ UNCHANGED <<exists, started, left>>

adj_tim(adjtim) ==
  LET now == update_current_evttim(tm)
      moved == [now EXCEPT !.current = (@ + adjtim) % W]
      new == IF adjtim > 0 THEN Overtake(moved, now.current, adjtim) ELSE moved
  IN  /\ Call("adj_tim") /\ CpuFree
      /\ IF check_adjtim(now, adjtim)
         THEN tm' = now /\ UNCHANGED left
         ELSE /\ tm' = IF in_signal_time THEN new ELSE set_hrt_event(new)
              /\ left' = [e \in TMEVTB |-> IF e \in Reg THEN left[e] - adjtim * RATE ELSE left[e]]
      /\ UNCHANGED <<exists, started>>

----------------------------------------------------------------------------
(* signal_time.  It runs with the CPU locked but for the handlers.           *)

\* The end of signal_time in the state s.
Finish(s) ==
  /\ tm' = set_hrt_event(s)
  /\ in_signal_time' = FALSE /\ late' = 0

signal_time ==
  LET now == update_current_evttim([tm EXCEPT !.irq = FALSE]) IN
  /\ tm.irq /\ ~in_signal_time
  /\ IF Due(now) THEN tm' = now /\ in_signal_time' = TRUE /\ UNCHANGED late ELSE Finish(now)
  /\ UNCHANGED <<exists, started, running, left>>

\* The inner loop: the first event is due and is taken out; its callback is called.
Expiring == in_signal_time /\ running = NULL /\ Due(tm)
DeleteTop == [tm EXCEPT !.heap = tmevtb_delete_top(@, Keys(tm))]
Expired == tm' = Forget(DeleteTop, Top) /\ left' = [left EXCEPT ![Top] = 0]

\* It ends by letting interrupts of a higher priority in.
wait_tmout ==
  /\ Expiring /\ Top \in TMO
  /\ Expired /\ running' = Top
  /\ UNCHANGED <<in_signal_time, exists, started, late>>

\* Fault: almsta is left as it is.
call_alarm_started ==
  /\ Expiring /\ Top \in ALM
  /\ Expired /\ running' = Top
  /\ UNCHANGED <<in_signal_time, exists, started, late>>

call_alarm ==
  /\ Expiring /\ Top \in ALM
  /\ Expired /\ running' = Top /\ started' = started \ {Top}
  /\ UNCHANGED <<in_signal_time, exists, late>>

call_cyclic ==
  LET next == [DeleteTop EXCEPT !.evttim[Top] = (@ + CYCTIM) % W] IN
  /\ Expiring /\ Top \in CYC
  /\ tm' = [next EXCEPT !.heap = tmevtb_insert(@, Keys(next), Top)]
  /\ running' = Top /\ left' = [left EXCEPT ![Top] = @ + CYCTIM * RATE]
  /\ UNCHANGED <<in_signal_time, exists, started, late>>

HandlerReturns ==
  /\ running # NULL /\ running' = NULL
  /\ UNCHANGED <<tm, in_signal_time, exists, started, late, left>>

\* The outer loop: the time is read again until no event is due.
LookAgain ==
  LET now == update_current_evttim(tm) IN
  /\ in_signal_time /\ running = NULL /\ ~Due(tm)
  /\ IF Due(now) THEN tm' = now /\ UNCHANGED <<in_signal_time, late>> ELSE Finish(now)
  /\ UNCHANGED <<exists, started, running, left>>

----------------------------------------------------------------------------
Expire == wait_tmout \/ call_alarm \/ call_cyclic
SignalTime == signal_time \/ Expire \/ HandlerReturns \/ LookAgain

Next ==
  \/ Tick \/ SignalTime
  \/ \E e \in TMO : wait_dequeue_tmevtb(e) \/ \E t \in RELTIM : make_wait_tmout(e, t)
  \/ \E e \in ALM : stp_alm(e) \/ acre_alm(e) \/ \E t \in RELTIM : sta_alm(e, t)
  \/ \E e \in CYC : sta_cyc(e) \/ stp_cyc(e) \/ \E sta \in BOOLEAN : acre_cyc(e, sta)
  \/ \E e \in ALM \cup CYC : del(e)
  \/ \E a \in -TMAX_ADJTIM .. TMAX_ADJTIM : adj_tim(a)
  \/ \E systim \in SYSTIMS : set_tim(systim)

Spec == Init /\ [][Next]_tvars

\* The counter never stops, the processor gets round to the timer's interrupt, and
\* the handlers return.  The last conjunct is WF_tvars(Expire): Expire is enabled
\* when Expiring is true.
FairSpec ==
  /\ Spec /\ WF_tvars(Tick) /\ WF_tvars(signal_time \/ LookAgain)
  /\ WF_tvars(HandlerReturns)
  /\ []<>~Expiring \/ []<><<Expire>>_tvars

----------------------------------------------------------------------------
(* Properties.                                                             *)

TypeOK ==
  /\ tm \in TimeStates /\ in_signal_time \in BOOLEAN /\ exists \subseteq ALM \cup CYC
  /\ started \subseteq exists
  /\ running \in TMEVTB \cup {NULL} /\ late \in 0 .. MAXLATE
  /\ left \in [TMEVTB -> Int]

\* At the top of the heap is an event that is due no later than any other, up to
\* the rounding of one step, although the times in the heap wrap around, belong to
\* the past for some, and are compared relative to a boundary that has moved since
\* they were put there (time_event.c, EVTTIM_ADVANCE).
TopIsEarliest == \A e \in Reg : left[Top] <= left[e] + TSTEP_HRTCNT * RATE

\* A started alarm or cyclic handler has its event in the heap, and no other has:
\* sta_alm, stp_alm and the expiry of an alarm keep almsta and the heap in step, in
\* whatever context they run (alarm.c, cyclic.c).
StartedAreRegistered == Reg \ TMO = started

\* Nothing of a notification that does not exist is left in the heap or handled: its
\* control block can be created anew (alarm.c, cyclic.c, del_alm and del_cyc).
DeletedAreSilent == (Reg \cup {running}) \ (TMO \cup {NULL}) \subseteq exists

\* The heap holds the events it should, the one that is due first at its top
\* (time_event.c, alarm.c, cyclic.c).
EventsOK == TypeOK /\ TopIsEarliest /\ StartedAreRegistered /\ DeletedAreSilent

\* No registered event is overdue by more than MaxOverdue: in spite of rounding, of
\* the cycles of the counters and of the bound on the timer, the timer is always set
\* to the first event, and adj_tim refuses to go on when an event is late
\* (time_event.c, set_hrt_event and check_adjtim).
Timely == \A e \in Reg : left[e] >= -MaxOverdue

\* No task is timed out and no handler is called before the time it asked for has
\* passed (time_event.c, calc_current_evttim_ub).
NeverEarly == [][Expire => left[Top] <= 0]_tvars

\* Only set_tim turns the system time back; not adj_tim, nor the wrap-around of the
\* event time (time_event.c, monotonic_evttim and systim_offset).
SystemTime == LET now == update_current_evttim(tm) IN (now.offset + now.mono) % SYS
SystemTimeMonotone ==
  [][(SystemTime' - SystemTime) % SYS < W \/ \E systim \in SYSTIMS : set_tim(systim)]_tvars

\* Neither event time nor system time is wrong by a wrap-around or an adjustment
\* (calc_current_evttim_ub, update_current_evttim).
ClocksOK == NeverEarly /\ SystemTimeMonotone

\* Whatever else is registered and cancelled, no event stays in the heap for ever
\* without being handled, and the handling always ends (time_event.c, signal_time).
Fires == \A e \in TMEVTB : []<>(e \notin Reg \/ running = e)

=============================================================================
