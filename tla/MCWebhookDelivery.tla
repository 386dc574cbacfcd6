-------------------------- MODULE MCWebhookDelivery --------------------------
(***************************************************************************)
(* Instances of WebhookDelivery for TLC.  Rotations of the secret and      *)
(* replays are bounded; everything else is finite as it stands.            *)
(* A behaviour plays one of three scenes: in "outbox" the endpoint stays   *)
(* as it is and everything fails that can fail, in "replays" deliveries    *)
(* are replayed beside attempts that outlive their lease, and in "edits"   *)
(* the endpoint is edited and deleted under one process that may die.      *)
(***************************************************************************)
EXTENDS WebhookDelivery, TLC

CONSTANTS
  Home,     \* the URL the endpoint starts with
  Spare     \* the process that rests in "edits"

VARIABLE scene

mcvars == <<vars, scene>>

MCInit ==
  Init /\ endpoint.url = Home /\ scene \in {"outbox", "replays", "edits"}

MCNext ==
  /\ \/ Steps
     \/ scene = "outbox" /\ Mishaps
     \/ scene \in {"outbox", "edits"} /\ Deaths
     \/ scene = "edits" /\ Administration
  /\ scene = "outbox" => UNCHANGED turn
  /\ scene = "edits" => UNCHANGED proc[Spare]
  /\ UNCHANGED scene

MCFairSpec == MCInit /\ [][MCNext]_mcvars /\ Fairness

\* Every delivery in the outbox is delivered or given up in the end, whoever
\* died, whatever wake-up was lost and however often it was replayed:
\* recoverDueWebhookDeliveries finds it.
OutboxDrains ==
  \A d \in Deliveries : Open(row[d]) ~> ~Open(row[d]) \/ scene = "edits"
=============================================================================
