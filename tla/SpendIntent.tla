---------------------------- MODULE SpendIntent -----------------------------
(***************************************************************************)
(* What broadcasting promises of a wallet's intents to spend, without      *)
(* leases, retries, policies and recovery: an intent is committed to one   *)
(* signed transaction before anything of it leaves; it can be taken back   *)
(* only while nothing has left; intents that spend the same coins are      *)
(* never committed together; and what is recorded as settled or saved is   *)
(* on the network.  Broadcast implements this.                             *)
(***************************************************************************)
CONSTANTS
  Intents,    \* intents to spend
  Variants,   \* signed transactions of an intent
  Rivals      \* Rivals[i]: the intents that spend coins of i

VARIABLES
  bytes,      \* bytes[i]: the signed transaction i is committed to, if any
  under,      \* under[i]: what was submitted and may still arrive
  known,      \* known[i]: what the network has
  settled,    \* intents recorded as accepted by the network
  closed,     \* intents with nothing left to do
  kept        \* intents in the wallet's history

pvars == <<bytes, under, known, settled, closed, kept>>

PInit ==
  /\ bytes = [i \in Intents |-> {}]
  /\ under = [i \in Intents |-> {}]
  /\ known = [i \in Intents |-> {}]
  /\ settled = {} /\ closed = {} /\ kept = {}

Commit(i, v) ==
  /\ bytes[i] = {}
  /\ \A j \in Rivals[i] : bytes[j] = {}
  /\ bytes' = [bytes EXCEPT ![i] = {v}]
  /\ UNCHANGED <<under, known, settled, closed, kept>>

TakeBack(i) ==
  /\ under[i] = {} /\ known[i] = {}
  /\ bytes' = [bytes EXCEPT ![i] = {}]
  /\ UNCHANGED <<under, known, settled, closed, kept>>

\* The network has it at once, or it is on its way.
Submit(i) ==
  /\ \/ known' = [known EXCEPT ![i] = bytes[i]] /\ UNCHANGED under
     \/ under' = [under EXCEPT ![i] = bytes[i]] /\ UNCHANGED known
  /\ UNCHANGED <<bytes, settled, closed, kept>>

\* What is on its way arrives or is lost.
Arrive(i) ==
  /\ under' = [under EXCEPT ![i] = {}]
  /\ known' \in {known, [known EXCEPT ![i] = bytes[i]]}
  /\ known' # known => under[i] # {}
  /\ UNCHANGED <<bytes, settled, closed, kept>>

Settle(i) ==
  /\ known[i] # {} /\ known[i] = bytes[i]
  /\ settled' = settled \cup {i}
  /\ UNCHANGED <<bytes, under, known, closed, kept>>

Keep(i) ==
  /\ known[i] # {}
  /\ kept' = kept \cup {i}
  /\ UNCHANGED <<bytes, under, known, settled, closed>>

Close(i) ==
  /\ i \in settled /\ i \in kept
  /\ closed' = closed \cup {i}
  /\ UNCHANGED <<bytes, under, known, settled, kept>>

PNext ==
  \E i \in Intents :
    \/ \E v \in Variants : Commit(i, v)
    \/ TakeBack(i) \/ Submit(i) \/ Arrive(i) \/ Settle(i) \/ Keep(i) \/ Close(i)

PSpec == PInit /\ [][PNext]_pvars
=============================================================================
