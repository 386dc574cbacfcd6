------------------------- MODULE MCSessionRefresh -------------------------
(***************************************************************************)
(* Instances of SessionRefresh for TLC: two tabs that write while other    *)
(* devices end sessions, before the last pair is issued; one tab that      *)
(* reads and writes while they do, that logs out with requests that time   *)
(* out, or that logs in and out, beside another one that only refreshes;   *)
(* and two tabs that only refresh, with failures, while other devices end  *)
(* sessions.                                                               *)
(***************************************************************************)
EXTENDS SessionRefresh, TLC

CONSTANT Quiet    \* the tab that makes no requests except in TwoWriters

Scene(kinds, elsewhere, faults) ==
  [kinds |-> kinds, elsewhere |-> elsewhere, faults |-> faults]

TwoWriters == Scene({"write"}, TRUE, FALSE)

MCScenes ==
  {TwoWriters,
   Scene({"read", "write"}, TRUE, FALSE),
   Scene({}, TRUE, TRUE),
   Scene({"logout"}, FALSE, TRUE),
   Scene({"login", "logout"}, FALSE, FALSE)}

MCNext ==
  /\ Next
  /\ scene # TwoWriters => UNCHANGED req[Quiet]
  /\ scene = TwoWriters /\ issued = MaxPairs => UNCHANGED <<tomb, outdated>>

MCFairSpec == Init /\ [][MCNext]_vars /\ Fairness
=============================================================================
