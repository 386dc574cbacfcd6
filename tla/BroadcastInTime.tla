--------------------------- MODULE BroadcastInTime ---------------------------
(***************************************************************************)
(* Broadcast with a record of whether a lease has run out under the        *)
(* attempt that held it.  Usage is accounted for on the footing that this  *)
(* does not happen: a broadcast attempt is over when BROADCAST_LEASE_MS    *)
(* is.  The record is read by no action.                                   *)
(***************************************************************************)
EXTENDS BroadcastRefinement

VARIABLE late

ivars == <<vars, late>>

\* The lease of i runs out while its holder is still at work.
Overrun(i) == LeaseExpires(i) /\ Attempting(row[i].owner, i)

IInit == Init /\ late = FALSE

INext ==
  /\ Next
  /\ late' = (late \/ \E i \in Intents : Overrun(i))

ISpec == IInit /\ [][INext]_ivars

\* As long as no lease has run out under a live attempt, a usage window counts
\* every transaction that may be on the network, and together they stay within
\* the limits that requests enforce concurrently (executePolicyEnforcedBroadcast
\* gives a reservation back only when nothing was submitted).
LimitsInTime == late \/ (SpendsCounted /\ LimitRespected)
=============================================================================
