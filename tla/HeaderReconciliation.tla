------------------------ MODULE HeaderReconciliation ------------------------
(***************************************************************************)
(* Proving a network's tip: an observed header becomes the target of a     *)
(* durable row, worker processes prove it page by page from an anchor they *)
(* trust, refresh the confirmations of every wallet, and promote it to the *)
(* checkpoint (services/sync/networkHeaderReconciler.ts, its repositories, *)
(* worker/networkHeaderReconciliationRuntime.ts).                          *)
(*                                                                         *)
(* Headers are the nodes of a given block tree.  A server answers from the *)
(* chain that ends in one of the tips in `views'; every transaction is one *)
(* step, and every fetch or refresh between two transactions another one.  *)
(***************************************************************************)
EXTENDS Integers, FiniteSets

CONSTANTS
  Procs,        \* workers; each is its own owner token
  Blocks, Genesis,
  Chain, Height,   \* the tree of headers: each with the headers it extends
  NoBlock,      \* null
  Wallets,      \* how many wallets there are, numbered in database order
  PageSize,     \* headers of one page
  Window,       \* NETWORK_HEADER_HISTORY_WINDOW
  MaxGen,       \* bound on the generations of one row
  Reserve,      \* those of them that are kept for after Agree
  Stabilises    \* whether Agree happens

ASSUME HeaderAssumption ==
  /\ Genesis \in Blocks /\ Blocks # {Genesis} /\ NoBlock \notin Blocks
  /\ Chain \in [Blocks -> SUBSET Blocks] /\ Height \in [Blocks -> Nat] /\ Height[Genesis] = 0
  /\ Wallets \in Nat /\ PageSize \in Nat \ {0} /\ Window \in Nat \ {0} /\ MaxGen \in Nat
  /\ Reserve \in Nat /\ Stabilises \in BOOLEAN

\* Chain is that of a tree: from a header down to Genesis there is one header
\* at every height, and each extends exactly those below it.
ASSUME ChainAssumption ==
  \A b \in Blocks :
    /\ {b, Genesis} \subseteq Chain[b]
    /\ \A n \in 0..Height[b] : \E c \in Chain[b] : Height[c] = n
    /\ \A c, d \in Chain[b] : Height[c] = Height[d] => c = d
    /\ \A c, d \in Chain[b] : Height[c] <= Height[d] <=> c \in Chain[d]

VARIABLES
  ckpt,      \* NetworkHeaderCheckpoint: the promoted header
  gap,       \* coverageGapStartedAt is set
  history,   \* NetworkHeaderHistory
  row,       \* NetworkHeaderReconciliation
  staged,    \* NetworkHeaderReconciliationHeader
  retries,   \* NetworkHeaderConfirmationRetry
  state,     \* activityEpoch of each worker: none, new, or with work known
  op,        \* the operation at the head of each worker's queue
  views,     \* tips the Electrum servers present
  served     \* history: wallets refreshed at the target since it is the target

vars == <<ckpt, gap, history, row, staged, retries, state, op, views, served>>

Least(m, n) == IF m < n THEN m ELSE n

Highest(S) == {b \in S : \A c \in S : Height[c] <= Height[b]}

Modes == {"forward", "ancestor_search", "genesis_rebuild"}
Row == [on : BOOLEAN, gen : 0..MaxGen, owner : Procs \cup {NoBlock}, mode : Modes,
        target : Blocks \cup {NoBlock}, anchor : Blocks \cup {NoBlock},
        cursor : Blocks \cup {NoBlock}, pending : Blocks \cup {NoBlock},
        page : 0..Wallets, enumerated : BOOLEAN, backoff : BOOLEAN]
NoRow == [on |-> FALSE, gen |-> 0, owner |-> NoBlock, mode |-> "forward", target |-> NoBlock,
          anchor |-> NoBlock, cursor |-> NoBlock, pending |-> NoBlock,
          page |-> 0, enumerated |-> FALSE, backoff |-> FALSE]
Steps == {"idle", "probe", "reset", "seed", "page", "record", "confirm", "confirmed",
          "retries", "retry", "retried", "finalize", "defer"}
Op == [pc : Steps, live : BOOLEAN, st : Row, mode : Modes, block : Blocks \cup {NoBlock},
       tried : SUBSET (1..Wallets), failed : SUBSET (1..Wallets)]
NoOp == [pc |-> "idle", live |-> FALSE, st |-> NoRow, mode |-> "forward", block |-> NoBlock,
         tried |-> {}, failed |-> {}]

\* The one type invariant.
TypeOK ==
  /\ ckpt \in Blocks \cup {NoBlock} /\ gap \in BOOLEAN /\ history \subseteq Blocks
  /\ row \in Row /\ staged \subseteq Blocks /\ retries \subseteq 1..Wallets
  /\ state \in [Procs -> {"inactive", "active", "working"}]
  /\ op \in [Procs -> Op]
  /\ views \subseteq Blocks /\ views # {}
  /\ served \subseteq 1..Wallets

Init ==
  /\ ckpt = NoBlock /\ gap = FALSE /\ history = {}
  /\ row = NoRow /\ staged = {} /\ retries = {}
  /\ state = [p \in Procs |-> "inactive"] /\ op = [p \in Procs |-> NoOp]
  /\ views = Blocks \ {Genesis} /\ served = {}

\* The servers have come to agree.
Agreed == Cardinality(views) = 1

\* nextGeneration has a value to give.
CanAdvance == row.gen < IF Agreed THEN MaxGen ELSE MaxGen - Reserve

-----------------------------------------------------------------------------
(* Observations *)

\* initialMode with classifyHeaderObservation: a duplicate, the next header and
\* a gap keep the checkpoint as the anchor.
InitialMode(c, b) ==
  IF c = NoBlock THEN [mode |-> "genesis_rebuild", anchor |-> Genesis]
  ELSE IF b = c \/ (Height[b] = Height[c] + 1 /\ c \in Chain[b]) \/ Height[b] > Height[c] + 1
    THEN [mode |-> "forward", anchor |-> c]
    ELSE [mode |-> "ancestor_search", anchor |-> Genesis]

\* createState
NewRow(p, b) ==
  [NoRow EXCEPT !.on = TRUE, !.gen = 1, !.owner = p, !.target = b,
                !.mode = InitialMode(ckpt, b).mode, !.anchor = InitialMode(ckpt, b).anchor]

\* targetIsProven
Proven(r) == r.cursor = r.target

\* targetIsCompatible
Compatible(b) == Height[b] > Height[row.target] \/ b = row.target

\* updateExistingState for a target that is proven: it is frozen, and another
\* header waits behind it.
Coalesce(p, b) ==
  /\ Proven(row) /\ b # row.target
  /\ row' = [row EXCEPT !.gen = @ + 1, !.owner = p, !.pending = b]
  /\ UNCHANGED <<staged, retries, served>>

\* updateExistingState otherwise: a higher header moves the target and keeps
\* what is proven, any other one starts again.
Retarget(p, b) ==
  /\ ~Proven(row) \/ b = row.target
  /\ LET changed == b # row.target
         moved == [row EXCEPT !.gen = IF changed \/ row.owner # p THEN @ + 1 ELSE @,
                              !.owner = p, !.target = b,
                              !.page = IF changed THEN 0 ELSE @,
                              !.enumerated = ~changed /\ @]
     IN  /\ row' = IF Compatible(b) THEN moved
                   ELSE [moved EXCEPT !.mode = InitialMode(ckpt, b).mode,
                                      !.anchor = InitialMode(ckpt, b).anchor, !.cursor = NoBlock]
         /\ served' = IF changed THEN {} ELSE served
  /\ staged' = IF Compatible(b) THEN staged ELSE {}
  /\ retries' = IF Compatible(b) THEN retries ELSE {}

Idle(p) == op[p].pc = "idle" /\ state[p] # "inactive"

\* attempt
Attempt(p, r) == [NoOp EXCEPT !.pc = "probe", !.live = TRUE, !.st = r]

\* observe: the transaction that opens the gap and the row; a row that waits for
\* its retry is left alone.  (Bound: a header that already waits for
\* this epoch of the worker is not observed again: that would only use up a
\* generation.)
Observe(p, b) ==
  /\ Idle(p) /\ b \in views /\ CanAdvance
  /\ b # row.pending \/ p # row.owner \/ state[p] = "active"
  /\ gap' = (gap \/ ckpt # NoBlock)
  /\ IF row.on THEN Coalesce(p, b) \/ Retarget(p, b)
     ELSE /\ row' = NewRow(p, b) /\ served' = {}
          /\ UNCHANGED <<staged, retries>>
  /\ state' = [state EXCEPT ![p] = "working"]
  /\ op' = [op EXCEPT ![p] = IF row'.backoff THEN NoOp ELSE Attempt(p, row')]
  /\ UNCHANGED <<ckpt, history, views>>

\* recoverDue: the scan finds the row due, and the worker claims it.
Recover(p) ==
  /\ Idle(p) /\ state[p] = "working" /\ row.on /\ ~row.backoff
  /\ row.owner = p \/ CanAdvance
  /\ row' = IF row.owner = p THEN row ELSE [row EXCEPT !.gen = @ + 1, !.owner = p]
  /\ op' = [op EXCEPT ![p] = Attempt(p, row')]
  /\ UNCHANGED <<ckpt, gap, history, staged, retries, state, views, served>>

-----------------------------------------------------------------------------
(* Proving the target *)

Database == <<ckpt, gap, history, row, staged, retries, served>>

End(p) == op' = [op EXCEPT ![p] = NoOp]
Go(p, step) == op' = [op EXCEPT ![p].pc = step]

\* assertActive after an await: the operation of an older epoch ends.
Displaced(p) == ~op[p].live /\ End(p)

\* finalizeIfComplete, then advancePage unless it has been done
Onward(r, advanced) ==
  IF Proven(r) THEN (IF r.enumerated THEN "retries" ELSE "confirm")
  ELSE IF advanced THEN "idle" ELSE "page"

\* The reset a probe asks for
ResetTo(p, mode, b) == op' = [op EXCEPT ![p].pc = "reset", ![p].mode = mode, ![p].block = b]

\* searchAncestor on the chain of tip t: the highest header of the history that
\* the server has too.
Search(p, t) ==
  LET local == {b \in history : Height[b] <= Height[op[p].st.target]}
      common == local \cap Chain[t]
  IN  IF \E b \in local : Height[b] > Height[t] THEN Go(p, "defer")
      ELSE IF common = {} THEN ResetTo(p, "genesis_rebuild", Genesis)
      ELSE \E b \in Highest(common) : ResetTo(p, "forward", b)

\* Mutant: a header that the server does not have is waited for.
Bug_Revalidate(p, t) ==
  LET st == op[p].st
      expected == IF st.cursor = NoBlock THEN st.anchor ELSE st.cursor
  IN  IF expected \notin Chain[t] THEN Go(p, "defer")
      ELSE Go(p, IF st.cursor = NoBlock THEN "seed" ELSE Onward(st, FALSE))

\* seedOrRevalidateCursor
Revalidate(p, t) ==
  LET st == op[p].st
      expected == IF st.cursor = NoBlock THEN st.anchor ELSE st.cursor
  IN  IF Height[expected] > Height[t] THEN Go(p, "defer")
      ELSE IF expected \notin Chain[t] THEN ResetTo(p, "ancestor_search", Genesis)
      ELSE Go(p, IF st.cursor = NoBlock THEN "seed" ELSE Onward(st, FALSE))

\* attempt: genesis and the header it starts from are fetched, or the fetch fails.
Probe(p) ==
  /\ op[p].pc = "probe"
  /\ \/ Displaced(p)
     \/ op[p].live /\ Go(p, "defer")
     \/ /\ op[p].live
        /\ \E t \in views : IF op[p].st.mode = "ancestor_search" THEN Search(p, t) ELSE Revalidate(p, t)
  /\ UNCHANGED <<Database, state, views>>

\* Mutant: any row will do.
Bug_Fenced(p) == row.on

\* assertFence
Fenced(p) == row.on /\ row.gen = op[p].st.gen /\ row.owner = op[p].st.owner

\* Mutant: the header that waits is kept.
Bug_Reset(p) ==
  /\ op[p].pc = "reset" /\ End(p)
  /\ \/ /\ Fenced(p) /\ CanAdvance
        /\ row' = [row EXCEPT !.gen = @ + 1, !.mode = op[p].mode, !.anchor = op[p].block,
                              !.cursor = NoBlock, !.page = 0, !.enumerated = FALSE,
                              !.backoff = FALSE]
        /\ staged' = {} /\ retries' = {}
     \/ ~Fenced(p) /\ UNCHANGED <<row, staged, retries>>
  /\ UNCHANGED <<ckpt, gap, history, state, views, served>>

\* resetNetworkHeaderCursor
Reset(p) ==
  /\ op[p].pc = "reset" /\ End(p)
  /\ \/ /\ Fenced(p) /\ CanAdvance
        /\ row' = [row EXCEPT !.gen = @ + 1, !.mode = op[p].mode, !.anchor = op[p].block,
                              !.cursor = NoBlock, !.page = 0, !.enumerated = FALSE,
                              !.pending = NoBlock, !.backoff = FALSE]
        /\ staged' = {} /\ retries' = {}
     \/ ~Fenced(p) /\ UNCHANGED <<row, staged, retries>>
  /\ UNCHANGED <<ckpt, gap, history, state, views, served>>

\* assertHeaderPage: no header beyond the target, and none but the target at
\* its height
Reaches(b) == Height[b] < Height[row.target] \/ b = row.target

\* Only the last Window headers are kept.
Kept(S, b) == {c \in S : Height[c] > Height[b] - Window}

\* recordNetworkHeaderCursor with the headers up to b; an error of the
\* repository ends the operation.
RecordCursor(p, headers, b, advanced) ==
  /\ IF Fenced(p) /\ row.cursor = op[p].st.cursor /\ Reaches(b)
        /\ \A c \in staged, d \in headers : Height[c] = Height[d] => c = d
       THEN /\ row' = [row EXCEPT !.mode = "forward", !.cursor = b, !.backoff = FALSE]
            /\ staged' = Kept(staged \cup headers, b)
            /\ op' = [op EXCEPT ![p] = IF Onward(row', advanced) = "idle" THEN NoOp
                                       ELSE [@ EXCEPT !.pc = Onward(row', advanced), !.st = row',
                                                      !.block = NoBlock]]
       ELSE End(p) /\ UNCHANGED <<row, staged>>
  /\ UNCHANGED <<ckpt, gap, history, retries, state, views, served>>

Seed(p) ==
  /\ op[p].pc = "seed"
  /\ RecordCursor(p, {op[p].st.anchor}, op[p].st.anchor, FALSE)

Between(b, c) == {d \in Blocks : d \in Chain[c] /\ Height[d] > Height[b]}

\* advancePage: the next headers are fetched and must extend the cursor.
Page(p) ==
  LET st == op[p].st
      top == Least(Height[st.cursor] + PageSize, Height[st.target])
  IN  /\ op[p].pc = "page"
      /\ \/ Displaced(p)
         \/ op[p].live /\ Go(p, "defer")
         \/ /\ op[p].live
            /\ \E t \in views, b \in Blocks :
                 /\ b \in Chain[t] /\ Height[b] = top /\ st.cursor \in Chain[t]
                 /\ top = Height[st.target] => b = st.target
                 /\ op' = [op EXCEPT ![p].pc = "record", ![p].block = b]
      /\ UNCHANGED <<Database, state, views>>

Record(p) ==
  /\ op[p].pc = "record"
  /\ RecordCursor(p, Between(op[p].st.cursor, op[p].block), op[p].block, TRUE)

\* defer: recordNetworkHeaderReconciliationFailure
Defer(p) ==
  /\ op[p].pc = "defer" /\ End(p)
  /\ row' = IF op[p].live /\ Fenced(p) THEN [row EXCEPT !.backoff = TRUE] ELSE row
  /\ UNCHANGED <<ckpt, gap, history, staged, retries, state, views, served>>

\* retryEligibleAt passes.
ComesDue ==
  /\ row.backoff /\ row' = [row EXCEPT !.backoff = FALSE]
  /\ UNCHANGED <<ckpt, gap, history, staged, retries, state, op, views, served>>

-----------------------------------------------------------------------------
(* Confirmations and promotion *)

\* The wallets that a refresh by p has brought to the target
Served(p, done) == IF row.on /\ row.target = op[p].st.target THEN served \cup done ELSE served

\* A refresh of `tried' returns, with failures, throws, or finds its epoch over
\* with some wallets refreshed.
Refresh(p, tried, step) ==
  /\ \E failed \in SUBSET tried :
       /\ served' = Served(p, tried \ failed)
       /\ \/ Displaced(p)
          \/ op[p].live /\ Go(p, "defer")
          \/ op[p].live /\ op' = [op EXCEPT ![p].pc = step, ![p].tried = tried, ![p].failed = failed]
  /\ UNCHANGED <<ckpt, gap, history, row, staged, retries, state, views>>

\* refreshPendingConfirmationsAtHeight: the next wallet
Confirm(p) ==
  /\ op[p].pc = "confirm"
  /\ Refresh(p, {w \in 1..Wallets : w = op[p].st.page + 1}, "confirmed")

\* After a result is recorded, failures are deferred under the same fence.
Recorded(p) ==
  IF op[p].failed = {} THEN End(p)
  ELSE op' = [op EXCEPT ![p] = [@ EXCEPT !.pc = "defer", !.st = row', !.tried = {}, !.failed = {}]]

\* Mutant: the wallets that failed are not kept for a retry.
Bug_Confirmed(p) ==
  /\ op[p].pc = "confirmed"
  /\ IF Fenced(p) /\ ~row.enumerated /\ row.page = op[p].st.page
       THEN /\ row' = [row EXCEPT !.page = IF op[p].tried = {} THEN @ ELSE @ + 1,
                                  !.enumerated = op[p].st.page + 1 >= Wallets]
            /\ Recorded(p)
       ELSE End(p) /\ UNCHANGED row
  /\ UNCHANGED <<ckpt, gap, history, staged, retries, state, views, served>>

\* recordNetworkHeaderConfirmationPage
Confirmed(p) ==
  /\ op[p].pc = "confirmed"
  /\ IF Fenced(p) /\ ~row.enumerated /\ row.page = op[p].st.page
       THEN /\ row' = [row EXCEPT !.page = IF op[p].tried = {} THEN @ ELSE @ + 1,
                                  !.enumerated = op[p].st.page + 1 >= Wallets,
                                  !.backoff = @ /\ op[p].tried # {} /\ op[p].tried = op[p].failed]
            /\ retries' = retries \cup op[p].failed
            /\ Recorded(p)
       ELSE End(p) /\ UNCHANGED <<row, retries>>
  /\ UNCHANGED <<ckpt, gap, history, staged, state, views, served>>

\* findNetworkHeaderConfirmationRetries
Retries(p) ==
  /\ op[p].pc = "retries"
  /\ IF ~Fenced(p) \/ ~op[p].live THEN End(p)
     ELSE IF retries = {} THEN Go(p, "finalize")
     ELSE op' = [op EXCEPT ![p].pc = "retry", ![p].tried = retries]
  /\ UNCHANGED <<Database, state, views>>

\* refreshConfirmationRetryWalletsAtHeight
Retry(p) == op[p].pc = "retry" /\ Refresh(p, op[p].tried, "retried")

\* recordNetworkHeaderConfirmationRetryResult
Retried(p) ==
  /\ op[p].pc = "retried"
  /\ IF Fenced(p)
       THEN /\ row' = [row EXCEPT !.backoff = @ /\ op[p].tried = op[p].failed]
            /\ retries' = retries \ (op[p].tried \ op[p].failed)
            /\ Recorded(p)
       ELSE End(p) /\ UNCHANGED <<row, retries>>
  /\ UNCHANGED <<ckpt, gap, history, staged, state, views, served>>

\* The row of the header that waited, under the new checkpoint
Continued ==
  LET start == InitialMode(row.target, row.pending)
  IN  [NoRow EXCEPT !.on = TRUE, !.gen = row.gen + 1, !.owner = row.owner, !.mode = start.mode,
                    !.target = row.pending, !.anchor = start.anchor]

\* finalizeNetworkHeaderReconciliation
Promote ==
  /\ ckpt' = row.target
  /\ history' = {b \in Kept(history, row.target) :
                   Height[b] <= Height[row.target] /\ \A c \in staged : Height[c] # Height[b]} \cup staged
  /\ staged' = {} /\ served' = {}
  /\ \/ row.pending = NoBlock /\ row' = NoRow /\ gap' = FALSE
     \/ row.pending # NoBlock /\ CanAdvance /\ row' = Continued /\ gap' = TRUE

Finalize(p) ==
  /\ op[p].pc = "finalize" /\ End(p)
  /\ \/ /\ Fenced(p) /\ Proven(row) /\ row.enumerated /\ retries = {} /\ row.target \in staged
        /\ Promote
     \/ /\ ~(Fenced(p) /\ Proven(row) /\ row.enumerated /\ retries = {} /\ row.target \in staged)
        /\ UNCHANGED <<ckpt, gap, history, row, staged, served>>
  /\ UNCHANGED <<retries, state, views>>

-----------------------------------------------------------------------------
\* The worker becomes owner of the subscription lock, or loses it; what it was
\* doing goes on up to the next check.
Activate(p) ==
  /\ state[p] = "inactive" /\ ~Agreed
  /\ state' = [state EXCEPT ![p] = "active"]
  /\ UNCHANGED <<Database, op, views>>

Lose(p) ==
  /\ state[p] # "inactive" /\ ~Agreed
  /\ state' = [state EXCEPT ![p] = "inactive"]
  /\ op' = [op EXCEPT ![p].live = FALSE]
  /\ UNCHANGED <<Database, views>>

\* From now on the servers have one of the highest chains, and one worker owns
\* the lock.
Agree(p) ==
  /\ Stabilises /\ ~Agreed /\ state[p] # "inactive"
  /\ \E t \in views : views' = {t} /\ \A u \in views : Height[u] <= Height[t]
  /\ state' = [q \in Procs |-> IF q = p THEN state[p] ELSE "inactive"]
  /\ op' = [q \in Procs |-> IF q = p THEN op[p] ELSE [op[q] EXCEPT !.live = FALSE]]
  /\ UNCHANGED Database

Work(p) ==
  \/ Probe(p) \/ Reset(p) \/ Seed(p) \/ Page(p) \/ Record(p) \/ Defer(p)
  \/ Confirm(p) \/ Confirmed(p) \/ Retries(p) \/ Retry(p) \/ Retried(p) \/ Finalize(p)

Next ==
  \/ \E p \in Procs :
       \/ \E b \in Blocks : Observe(p, b)
       \/ Recover(p) \/ Work(p) \/ Activate(p) \/ Lose(p) \/ Agree(p)
  \/ ComesDue

Spec == Init /\ [][Next]_vars

\* A request that is repeated is answered at last, and a refresh succeeds.
Succeeds(p) == op'[p].pc # "defer" /\ op'[p].failed = {}

\* An operation of a worker goes on, its scan comes round; and the tip is
\* announced again and again, by new blocks and by every reconnection.
FairWorker(p) ==
  /\ WF_vars(Work(p)) /\ SF_vars(Recover(p)) /\ SF_vars(\E b \in Blocks : Observe(p, b))
  /\ SF_vars(Probe(p) /\ Succeeds(p)) /\ SF_vars(Page(p) /\ Succeeds(p))
  /\ SF_vars(Confirm(p) /\ Succeeds(p)) /\ SF_vars(Retry(p) /\ Succeeds(p))

\* A wait ends.
Fairness == WF_vars(ComesDue) /\ \A p \in Procs : FairWorker(p)

FairSpec == Spec /\ Fairness

-----------------------------------------------------------------------------
\* The row is one that parseState accepts: its cursor does not pass the target,
\* and a header waits only behind a proven one.  A row it rejects would fail
\* every later transaction of the network (assertCursorState,
\* assertPendingTarget).
RowParses ==
  row.on =>
    /\ row.cursor # NoBlock => Height[row.cursor] < Height[row.target] \/ Proven(row)
    /\ row.pending # NoBlock => Proven(row)

\* What is recorded as proof is one chain: the staged headers lead to the
\* cursor, and the history is an unbroken piece of the chain of the checkpoint
\* that ends in it, whatever reorganisations and rival workers did.
ProofIsChain ==
  /\ row.on /\ row.cursor = NoBlock => staged = {}
  /\ row.on /\ row.cursor # NoBlock => staged \subseteq Chain[row.cursor] /\ row.cursor \in staged
  /\ ckpt # NoBlock =>
       /\ history \subseteq Chain[ckpt] /\ ckpt \in history
       /\ \A b \in history : Between(b, ckpt) \subseteq history

\* No coverage is reported that is not proven: the gap is open while a header
\* waits to be proven, and closed only with its work.
GapTracksWork == ckpt # NoBlock => (gap <=> row.on)

\* A target is promoted only when every wallet was refreshed at it since it
\* became the target, failures, lost workers and rivals in between included
\* ("finalization remains fail-closed until every retry succeeds").
AllConfirmed == [][ckpt' # ckpt \/ (row.on /\ ~row'.on) => served = 1..Wallets]_vars

\* A header that waits behind a proven target is the next target, unless a later
\* one takes its place or the proof before it has to start again ("A coalesced
\* observation rolls into the next generation without closing the gap").
WaitingKept ==
  [][row.pending # NoBlock /\ row'.pending = NoBlock =>
       \/ row'.on /\ row'.target = row.pending
       \/ row'.cursor = NoBlock /\ row'.target = row.target /\ row'.gen > row.gen]_vars

\* The row can be read and says whether there is work (parseState, and the
\* coverage gap operators are shown).
RowSound == RowParses /\ GapTracksWork

\* No wallet is passed over by a promotion, and no header by its successor.
NothingSkipped == AllConfirmed /\ WaitingKept

\* Once the servers agree and one worker is left, their tip is promoted and the
\* gap closed, whatever row an earlier worker left behind: no mode, fence or
\* failed fetch blocks it for good.
Settles == Agreed ~> (~row.on /\ views = {ckpt})
=============================================================================
