----------------------------- MODULE EventSpec ------------------------------
(***************************************************************************)
(* What the IoT Hub client promises of the messages it accepts: the        *)
(* application is told of each exactly once what became of it, and what is *)
(* confirmed as sent has reached the hub.  A message may reach the hub     *)
(* more than once, and even after the application was told that it failed. *)
(***************************************************************************)
EXTENDS Sequences

CONSTANTS Events, Results

VARIABLES
  accepted, \* what the application has handed over
  pending,  \* of these, what it has not been told about
  outcome,  \* of each, what it was told
  received  \* what has reached the hub

evars == <<accepted, pending, outcome, received>>

Init ==
  /\ accepted = {} /\ pending = {} /\ received = {}
  /\ outcome = [m \in Events |-> <<>>]

Accept(m) ==
  /\ m \notin accepted
  /\ accepted' = accepted \cup {m} /\ pending' = pending \cup {m}
  /\ UNCHANGED <<outcome, received>>

Reach(S) ==
  /\ S \subseteq accepted
  /\ received' = received \cup S
  /\ UNCHANGED <<accepted, pending, outcome>>

Confirm(S, r) ==
  /\ S # {} /\ S \subseteq pending
  /\ r = "ok" => S \subseteq received
  /\ pending' = pending \ S
  /\ outcome' = [m \in Events |-> IF m \in S THEN Append(outcome[m], r) ELSE outcome[m]]
  /\ UNCHANGED <<accepted, received>>

Next ==
  \/ \E m \in Events : Accept(m)
  \/ \E S \in SUBSET Events : Reach(S) \/ \E r \in Results : Confirm(S, r)

Spec == Init /\ [][Next]_evars
=============================================================================
