---------------------------- MODULE CloseContract ----------------------------
(***************************************************************************)
(* What the closing of positions promises, whoever closes them: a position *)
(* is held by the exchange once and then only reduced, in part or to       *)
(* nothing; its row is called closed only after it was reduced, and a      *)
(* closed row may come back only as an open row, never as exposure.        *)
(***************************************************************************)
CONSTANT Positions

VARIABLES
    holding,   \* "never", "held", "part" or "flat": what the exchange has of a position
    row        \* "absent", "open" or "closed": what the database says of it

Init ==
    /\ holding = [p \in Positions |-> "never"]
    /\ row = [p \in Positions |-> "absent"]

Fill(p) ==
    /\ holding[p] = "never"
    /\ holding' = [holding EXCEPT ![p] = "held"]
    /\ UNCHANGED row

Reduce(p) ==
    /\ holding[p] \in {"held", "part"}
    /\ \E left \in {"part", "flat"} : holding' = [holding EXCEPT ![p] = left]
    /\ UNCHANGED row

Record(p) ==
    /\ holding[p] # "never" /\ row[p] = "absent"
    /\ row' = [row EXCEPT ![p] = "open"]
    /\ UNCHANGED holding

Close(p) ==
    /\ holding[p] \in {"part", "flat"} /\ row[p] = "open"
    /\ row' = [row EXCEPT ![p] = "closed"]
    /\ UNCHANGED holding

Reopen(p) ==
    /\ row[p] = "closed"
    /\ row' = [row EXCEPT ![p] = "open"]
    /\ UNCHANGED holding

Next == \E p \in Positions : Fill(p) \/ Reduce(p) \/ Record(p) \/ Close(p) \/ Reopen(p)

Spec == Init /\ [][Next]_<<holding, row>>
=============================================================================
