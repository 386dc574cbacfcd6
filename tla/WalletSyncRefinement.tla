------------------------ MODULE WalletSyncRefinement ------------------------
(***************************************************************************)
(* WalletSync implements SyncIntent: the generations of the row say what   *)
(* is owed, and the fence says which attempt may write.                    *)
(***************************************************************************)
EXTENDS WalletSync

\* The attempts the row's generation and lease token would let write.
Writers == {w \in Workers : HasFence(w) /\ Fence(w)}

Owed == row.requested > row.processed
Missed == \E w \in Writers : worker[w].unseen

Promise == INSTANCE SyncIntent
             WITH Attempts <- Workers, owed <- Owed, writers <- Writers, missed <- Missed,
                  asked <- row.reqFull, built <- row.procFull, epoch <- row.prepared

(* Every step of producers, queue, lock, workers, recovery, sweep and clocks
   is one of SyncIntent or changes nothing of what it promises: the history
   changes only by the hand of the one attempt the row names, in the current
   rebuild, and nothing asked for is dropped before such an attempt finishes. *)
KeepsPromise == Promise!SSpec
=============================================================================
