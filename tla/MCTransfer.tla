----------------------------- MODULE MCTransfer -----------------------------
(***************************************************************************)
(* Instances of Transfer for TLC.  The number of transfers ever made is    *)
(* bounded by the set Transfers.                                           *)
(***************************************************************************)
EXTENDS Transfer, TLC

CONSTANT First    \* the owner in the initial state

MCInit == Init /\ Owner(First)

MCFairSpec == MCInit /\ [][Next]_vars /\ Fairness
=============================================================================
