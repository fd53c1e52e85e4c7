--------------------------- MODULE MCEventOutbox ---------------------------
(* Instances of EventOutbox for TLC: two events of the executor and one of *)
(* an agent that publishes directly, a user's own and a global one.        *)
EXTENDS EventOutbox
CONSTANTS e1, e2, e3, ann, bob, d1, d2, c1, c2
MCOwner  == [e \in Events |-> IF e = e1 THEN ann ELSE IF e = e2 THEN bob ELSE Everyone]
MCHomeOf == [c \in Clients |-> d1]
\* All three events, two faults and nobody at the console; or two events with two sign-ins, or with one and a fault.
Bound(f, v, n) == [faults |-> f, visits |-> v, events |-> n]
MCBounds == {Bound(2, 0, 3), Bound(0, 2, 2), Bound(1, 1, 2)}
=============================================================================
