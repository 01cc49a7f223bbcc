---------------------------- MODULE MCTimeEvent ----------------------------
(* TimeEvent with the counters scaled down; the events are model values.    *)
EXTENDS TimeEvent

CONSTANTS e1, e2, e3

Uses(calls, acre) == [calls |-> calls, acre |-> acre]

\* Waits beside an alarm and beside a cyclic handler; alarms and cyclic handlers that
\* are created and deleted; the clock being adjusted, and set.
TimeConfigs == {Uses({"wait", "sta_alm"}, {e3}), Uses({"wait"}, {e2}),
                Uses({"acre", "sta_alm", "stp_alm", "sta_cyc", "stp_cyc"}, {e2, e3}),
                Uses({"sta_cyc", "stp_cyc", "adj_tim"}, {}),
                Uses({"adj_tim", "set_tim"}, {})}
=============================================================================
