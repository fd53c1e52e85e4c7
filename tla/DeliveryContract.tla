--------------------------- MODULE DeliveryContract ---------------------------
(***************************************************************************)
(* What a durable channel promises of each message: once accepted it is    *)
(* owed, and it stays owed until it is settled, by a handler that returned *)
(* or by the dead letters.  Nothing settled is ever owed again.            *)
(***************************************************************************)
CONSTANT Messages

VARIABLE standing   \* "new", "owed" or "settled" for each message

Init == standing = [m \in Messages |-> "new"]

Accept(m) == standing[m] = "new"  /\ standing' = [standing EXCEPT ![m] = "owed"]
Settle(m) == standing[m] = "owed" /\ standing' = [standing EXCEPT ![m] = "settled"]

Next == \E m \in Messages : Accept(m) \/ Settle(m)

Spec == Init /\ [][Next]_standing
=============================================================================
