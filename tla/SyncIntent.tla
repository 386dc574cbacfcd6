----------------------------- MODULE SyncIntent -----------------------------
(***************************************************************************)
(* What wallet synchronisation promises, without leases, locks, queues and *)
(* generations: work that is asked for stays owed until an attempt that    *)
(* saw it finishes; at most one attempt may change the history, and only   *)
(* until it loses that right; a rebuild deletes the history, writes it     *)
(* again, and only then counts as built.  WalletSync implements this.      *)
(***************************************************************************)
EXTENDS Naturals

CONSTANTS Attempts   \* who may work on the wallet

VARIABLES
  owed,      \* there is work to do
  dirty,     \* there is activity that no finished attempt has seen
  writers,   \* the attempt that may change the history, if any
  missed,    \* activity arrived after that attempt began
  asked,     \* rebuilds asked for
  built,     \* the last rebuild that is done
  epoch,     \* the last rebuild that deleted the history
  history    \* the rebuilds the stored history stems from

svars == <<owed, dirty, writers, missed, asked, built, epoch, history>>

SInit ==
  /\ owed = FALSE /\ dirty = FALSE
  /\ writers = {} /\ missed = FALSE
  /\ asked = 0 /\ built = 0 /\ epoch = 0
  /\ history = {0}

\* New activity is owed, and the attempt at work may not have seen it.
Ask ==
  /\ owed' = TRUE /\ dirty' = TRUE
  /\ missed' = (writers # {})
  /\ UNCHANGED <<writers, asked, built, epoch, history>>

\* A rebuild is owed; asking again while one is pending changes nothing.
AskRebuild ==
  /\ owed' = TRUE
  /\ asked' = IF asked = built THEN asked + 1 ELSE asked
  /\ UNCHANGED <<dirty, writers, missed, built, epoch, history>>

\* An attempt begins; whoever was at work loses the right to write.
Take(a) ==
  /\ owed
  /\ writers' = {a} /\ missed' = FALSE
  /\ UNCHANGED <<owed, dirty, asked, built, epoch, history>>

\* The attempt fails, dies or is revoked.  What is owed stays owed.
Lose ==
  /\ writers # {}
  /\ writers' = {} /\ missed' = FALSE
  /\ UNCHANGED <<owed, dirty, asked, built, epoch, history>>

\* The history is deleted once for each rebuild...
Wipe ==
  /\ writers # {}
  /\ epoch' \in (epoch + 1)..asked
  /\ history' = {}
  /\ UNCHANGED <<owed, dirty, writers, missed, asked, built>>

\* ...and written from what was fetched since.
Extend ==
  /\ writers # {}
  /\ history' = {epoch}
  /\ UNCHANGED <<owed, dirty, writers, missed, asked, built, epoch>>

\* The attempt finishes.  What it missed, and a rebuild it did not do, is owed.
Finish ==
  /\ writers # {}
  /\ writers' = {} /\ missed' = FALSE
  /\ dirty' = missed
  /\ built' \in {built, asked}
  /\ built' # built => epoch = asked
  /\ built' = asked => history = {asked}
  /\ owed' \in BOOLEAN
  /\ missed \/ built' # asked => owed'
  /\ UNCHANGED <<asked, epoch, history>>

SNext ==
  \/ Ask \/ AskRebuild \/ Lose \/ Wipe \/ Extend \/ Finish
  \/ \E a \in Attempts : Take(a)

SSpec == SInit /\ [][SNext]_svars
=============================================================================
