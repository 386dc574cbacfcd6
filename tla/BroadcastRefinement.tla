------------------------- MODULE BroadcastRefinement -------------------------
(***************************************************************************)
(* Broadcast implements SpendIntent: the raw transaction in the row is     *)
(* what an intent is committed to, whoever holds its lease.                *)
(***************************************************************************)
EXTENDS Broadcast

Bytes == [i \in Intents |-> {row[i].raw} \ {NoRaw}]
Settled == {i \in Intents : Consumed(row[i])}
Closed == {i \in Intents : row[i].state = "complete"}

\* A payjoin original, its proposals, and those among each other.
RivalsOf(i) ==
  {j \in Intents \ {i} :
     \E p \in Pairs : i \in {p[1], p[2]} /\ \E q \in Pairs : q[1] = p[1] /\ j \in {q[1], q[2]}}

Promise == INSTANCE SpendIntent
             WITH bytes <- Bytes, under <- wire, known <- out, settled <- Settled,
                  closed <- Closed, kept <- saved,
                  Rivals <- [i \in Intents |-> RivalsOf(i)]

(* Every step of requests, reconciliation, leases, network and payjoin is one
   of SpendIntent or changes nothing of what it promises: the bytes an intent
   names never change once a submission of them may be out, a rival is never
   committed beside them, and settling, saving and completing follow the
   network in this order. *)
KeepsSpendPromise == Promise!PSpec
=============================================================================
