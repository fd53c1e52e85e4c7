-------------------------- MODULE MCConsoleSession --------------------------
(* Instances of ConsoleSession for TLC, one for each group of routes that  *)
(* share state.                                                            *)
EXTENDS ConsoleSession

CONSTANTS t1, t2

Plan(tabs, signed, loads, routes, calls, attempts, faults) ==
    [tabs |-> tabs, signed |-> signed, loads |-> loads, routes |-> routes, calls |-> calls, attempts |-> attempts,
     faults |-> faults]
MCPlans == {
    Plan({t1, t2}, FALSE, {}, {"login", "logout"}, 1, 2, 2),
    Plan({t1, t2}, TRUE, {}, {"decideApproval"}, 2, 2, 1),
    Plan({t1, t2}, TRUE, {}, {"passStep", "markStep"}, 3, 2, 0),
    Plan({t1, t2}, TRUE, {}, {"passCheck", "failCheck", "goLive"}, 4, 2, 0),
    Plan({t1}, TRUE, {"riskState"}, {"createApproval"}, 2, 2, 1),
    Plan({t1}, TRUE, {"riskState"}, {"logout", "login"}, 2, 2, 1),
    Plan({t1}, TRUE, {"wizard"}, {"markStep"}, 1, 2, 1),
    Plan({t1, t2}, TRUE, {}, {"recalculate"}, 3, 2, 1),
    Plan({t1}, TRUE, {}, DOMAIN Routes, 1, 2, 1),
    Plan({t1}, TRUE, {}, {"killSwitch"}, 2, 3, 2)}
=============================================================================
