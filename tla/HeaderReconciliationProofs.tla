--------------------- MODULE HeaderReconciliationProofs ---------------------
(***************************************************************************)
(* Proofs about HeaderReconciliation for any tree of headers and any       *)
(* number of workers, wallets and generations: the row stays one that can  *)
(* be read, the gap is open exactly while there is work, and a header is   *)
(* promoted only when every wallet was refreshed at it.                    *)
(***************************************************************************)
EXTENDS HeaderReconciliation, TLAPS

\* What a step of worker p relies on: its fence compares a row of its own, and
\* while it holds the target is the one that the operation works for.
Mine(p) ==
  LET k == op[p] IN
  k.pc # "idle" =>
    /\ k.st.owner = p /\ k.st.target \in Blocks /\ k.st.anchor \in Blocks
    /\ k.pc = "seed" => k.st.cursor = NoBlock
    /\ k.pc \in {"page", "record"} => k.st.cursor # k.st.target
    /\ k.pc \in {"record", "reset"} => k.block \in Blocks
    /\ k.pc = "confirmed" => k.tried = {w \in 1..Wallets : w = k.st.page + 1}
    /\ Fenced(p) =>
         /\ row.target = k.st.target
         /\ k.pc \in {"confirmed", "retried"} => k.tried \ k.failed \subseteq served

\* The wallets up to the page are refreshed or kept for a retry.
Counted ==
  /\ row.on => \A w \in 1..row.page : w \in served \cup retries
  /\ row.enumerated => row.page = Wallets

Filled ==
  /\ row.on \/ row = NoRow
  /\ row.on => row.target \in Blocks /\ row.anchor \in Blocks

\* The inductive invariant.
Inv ==
  /\ TypeOK /\ Filled /\ RowParses /\ GapTracksWork /\ Counted
  /\ \A p \in Procs : Mine(p)

-----------------------------------------------------------------------------
(* The step of one worker *)

\* What a step of p may do to the row: nothing that another worker's fence
\* would not see.
Keeps == row' = row /\ retries' = retries /\ served \subseteq served'
Takes(p) == row'.owner = p \/ ~row'.on

\* The workers that do not move keep what they rely on.
LEMMA OthersKept ==
  ASSUME Inv, NEW p \in Procs, Keeps \/ Takes(p),
         \A q \in Procs \ {p} : op'[q] = op[q]
  PROVE  \A q \in Procs \ {p} : Mine(q)'
<1> SUFFICES ASSUME NEW q \in Procs \ {p}, op[q].pc # "idle" PROVE Mine(q)'
  BY Zenon DEF Mine
<1>1. op'[q] = op[q] /\ Mine(q) /\ op[q].st.owner = q
  BY Zenon DEF Inv, Mine
<1>2. CASE Takes(p)
  <2>1. ~Fenced(q)'
    BY <1>1, <1>2, Zenon DEF Takes, Fenced
  <2> QED
    BY <1>1, <2>1, Zenon DEF Mine
<1>3. CASE Keeps
  <2>1. Fenced(q)' => Fenced(q)
    BY <1>1, <1>3, Zenon DEF Keeps, Fenced
  <2> QED
    BY <1>1, <1>3, <2>1, Zenon DEF Mine, Keeps
<1> QED
  BY <1>2, <1>3, Zenon

\* A step that keeps the row keeps what it counts.
LEMMA RowKept ==
  ASSUME Inv, Keeps, UNCHANGED <<ckpt, gap>>
  PROVE  Filled' /\ RowParses' /\ GapTracksWork' /\ Counted'
BY Zenon DEF Inv, Keeps, Filled, RowParses, GapTracksWork, Counted, Proven

\* nextGeneration stays within the bound.
LEMMA NextGeneration == CanAdvance /\ row \in Row => row.gen + 1 \in 0..MaxGen
<1> USE HeaderAssumption DEF HeaderAssumption
<1>1. ASSUME Agreed PROVE CanAdvance => row.gen < MaxGen
  BY <1>1, Zenon DEF CanAdvance
<1>2. ASSUME ~Agreed PROVE CanAdvance => row.gen < MaxGen - Reserve
  BY <1>2, Zenon DEF CanAdvance
<1> QED
  BY <1>1, <1>2, SMTT(30) DEF Row

\* The values that stand for nothing have their types.
LEMMA NothingTyped == NoOp \in Op /\ NoRow \in Row
BY HeaderAssumption, SMTT(30) DEF HeaderAssumption, NoOp, Op, NoRow, Row, Steps, Modes

\* Zero is a page.
LEMMA FirstPage == 0 \in 0..Wallets
BY HeaderAssumption, SMTT(30) DEF HeaderAssumption

\* An operation that ends relies on nothing.
LEMMA Ended ==
  ASSUME TypeOK, NEW p \in Procs, End(p)
  PROVE  op' \in [Procs -> Op] /\ Mine(p)' /\ \A q \in Procs \ {p} : op'[q] = op[q]
<1>1. op'[p] = NoOp
  BY Zenon DEF End, TypeOK
<1>2. op'[p].pc = "idle"
  BY <1>1, SMTT(30) DEF NoOp
<1> QED
  BY <1>1, <1>2, NothingTyped, Zenon DEF End, TypeOK, Mine

\* What is left to show of a step of p.
LEMMA Assembled ==
  ASSUME Inv, NEW p \in Procs, Keeps \/ Takes(p), \A q \in Procs \ {p} : op'[q] = op[q],
         TypeOK', Filled', RowParses', GapTracksWork', Counted', Mine(p)'
  PROVE  Inv'
BY OthersKept, Zenon DEF Inv

\* The same, for a step that leaves the row and the counts alone.
LEMMA AssembledKeeping ==
  ASSUME Inv, NEW p \in Procs, Keeps, \A q \in Procs \ {p} : op'[q] = op[q],
         UNCHANGED <<ckpt, gap>>, TypeOK', Mine(p)'
  PROVE  Inv'
BY RowKept, Assembled, Zenon

\* A step that only ends an operation.
LEMMA OnlyEnds ==
  ASSUME Inv, NEW p \in Procs, End(p), UNCHANGED <<Database, state, views>>
  PROVE  Inv'
<1>1. Keeps /\ UNCHANGED <<ckpt, gap>>
  BY Zenon DEF Keeps, Database
<1>2. op' \in [Procs -> Op] /\ Mine(p)' /\ \A q \in Procs \ {p} : op'[q] = op[q]
  BY Ended, Zenon DEF Inv
<1>3. TypeOK'
  BY <1>2, Zenon DEF Inv, TypeOK, Database
<1> QED
  BY <1>1, <1>2, <1>3, AssembledKeeping, Zenon

\* A step that only moves an operation to a place that asks nothing new.
LEMMA OnlyGoes ==
  ASSUME Inv, NEW p \in Procs, NEW step \in Steps, Go(p, step), op[p].pc # "idle",
         step \notin {"record", "reset", "confirmed", "retried"},
         step = "seed" => op[p].st.cursor = NoBlock,
         step = "page" => op[p].st.cursor # op[p].st.target,
         UNCHANGED <<Database, state, views>>
  PROVE  Inv'
<1>1. Keeps /\ UNCHANGED <<ckpt, gap>>
  BY Zenon DEF Keeps, Database
<1>2. op[p] \in Op /\ Mine(p)
  BY Zenon DEF Inv, TypeOK
<1>3. op'[p] = [op[p] EXCEPT !.pc = step] /\ \A q \in Procs \ {p} : op'[q] = op[q]
  BY Zenon DEF Go, Inv, TypeOK
<1>4. op'[p] \in Op /\ op'[p].pc = step /\ op'[p].st = op[p].st
  BY <1>2, <1>3, Zenon DEF Op
<1>5. TypeOK'
  BY <1>3, <1>4, Zenon DEF Inv, TypeOK, Database, Go
<1>6. Fenced(p)' => Fenced(p) /\ row' = row
  BY <1>4, Zenon DEF Fenced, Database
<1>7. Mine(p)'
  BY <1>2, <1>4, <1>6, Zenon DEF Mine
<1> QED
  BY <1>1, <1>3, <1>5, <1>7, AssembledKeeping, Zenon

\* A probe that asks for a reset.
LEMMA OnlyResets ==
  ASSUME Inv, NEW p \in Procs, NEW m \in Modes, NEW b \in Blocks, ResetTo(p, m, b), op[p].pc # "idle",
         UNCHANGED <<Database, state, views>>
  PROVE  Inv'
<1>1. Keeps /\ UNCHANGED <<ckpt, gap>>
  BY Zenon DEF Keeps, Database
<1>2. op[p] \in Op /\ Mine(p)
  BY Zenon DEF Inv, TypeOK
<1>3. op'[p] = [op[p] EXCEPT !.pc = "reset", !.mode = m, !.block = b]
  BY Zenon DEF ResetTo, Inv, TypeOK
<1>4. \A q \in Procs \ {p} : op'[q] = op[q]
  BY Zenon DEF ResetTo, Inv, TypeOK
<1>5. op'[p] \in Op
  BY <1>2, <1>3, Zenon DEF Op, Steps
<1>6. op'[p].pc = "reset" /\ op'[p].st = op[p].st /\ op'[p].block = b
  BY <1>2, <1>3, Zenon DEF Op
<1>7. TypeOK'
  BY <1>4, <1>5, Zenon DEF Inv, TypeOK, Database, ResetTo
<1>8. Fenced(p)' => Fenced(p) /\ row' = row
  BY <1>6, Zenon DEF Fenced, Database
<1>9. Mine(p)'
  BY <1>2, <1>6, <1>8, Zenon DEF Mine
<1> QED
  BY <1>1, <1>4, <1>7, <1>9, AssembledKeeping, Zenon

\* Where an attempt goes on
LEMMA OnwardStep ==
  ASSUME NEW r, NEW a \in BOOLEAN
  PROVE  /\ Onward(r, a) \in {"retries", "confirm", "idle", "page"}
         /\ Onward(r, a) \in Steps
         /\ Onward(r, a) = "page" => r.cursor # r.target
BY Zenon DEF Onward, Steps, Proven

-----------------------------------------------------------------------------
(* The actions *)

\* Probe keeps the invariant: a probe changes no row.
LEMMA ProbeKeeps == ASSUME Inv, NEW p \in Procs, Probe(p) PROVE Inv'
<1> USE DEF Steps
<1>1. op[p].pc = "probe" /\ op[p].pc # "idle" /\ UNCHANGED <<Database, state, views>>
  BY Zenon DEF Probe
<1>2. CASE Displaced(p)
  BY <1>1, <1>2, OnlyEnds, Zenon DEF Displaced
<1>3. CASE Go(p, "defer")
  BY <1>1, <1>3, OnlyGoes, Zenon
<1>4. ASSUME NEW t \in views, Search(p, t) PROVE Inv'
  <2> DEFINE local == {b \in history : Height[b] <= Height[op[p].st.target]}
             common == local \cap Chain[t]
  <2>1. \/ Go(p, "defer")
        \/ ResetTo(p, "genesis_rebuild", Genesis)
        \/ \E b \in Highest(common) : ResetTo(p, "forward", b)
    BY <1>4, Zenon DEF Search
  <2>2. Highest(common) \subseteq Blocks /\ Genesis \in Blocks
    BY HeaderAssumption, Zenon DEF Highest, Inv, TypeOK, HeaderAssumption
  <2>3. "genesis_rebuild" \in Modes /\ "forward" \in Modes
    BY Zenon DEF Modes
  <2> HIDE DEF common
  <2> QED
    BY <1>1, <1>3, <2>1, <2>2, <2>3, OnlyResets, Zenon
<1>5. ASSUME NEW t \in views, Revalidate(p, t) PROVE Inv'
  <2> DEFINE st == op[p].st
  <2>1. CASE ResetTo(p, "ancestor_search", Genesis)
    BY <1>1, <2>1, HeaderAssumption, OnlyResets, Zenon DEF HeaderAssumption, Modes
  <2>2. CASE st.cursor = NoBlock /\ Go(p, "seed")
    BY <1>1, <2>2, OnlyGoes, Zenon
  <2>3. CASE st.cursor # NoBlock /\ Go(p, Onward(st, FALSE))
    BY <1>1, <2>3, OnwardStep, OnlyGoes, Zenon
  <2> QED
    BY <1>3, <1>5, <2>1, <2>2, <2>3, Zenon DEF Revalidate
<1> QED
  BY <1>2, <1>3, <1>4, <1>5, Zenon DEF Probe

\* Reset keeps the invariant: a reset clears what RowParses speaks of.
LEMMA ResetKeeps == ASSUME Inv, NEW p \in Procs, Reset(p) PROVE Inv'
<1>1. op[p] \in Op /\ op[p].pc = "reset" /\ End(p) /\ Mine(p)
  BY Zenon DEF Inv, TypeOK, Reset
<1>2. op[p].mode \in Modes /\ op[p].block \in Blocks /\ op[p].st.owner = p
  BY <1>1, Zenon DEF Op, Mine
<1>3. op' \in [Procs -> Op] /\ Mine(p)' /\ \A q \in Procs \ {p} : op'[q] = op[q]
  BY <1>1, Ended, Zenon DEF Inv
<1>4. CASE Fenced(p) /\ CanAdvance
  <2>1. /\ row' = [row EXCEPT !.gen = @ + 1, !.mode = op[p].mode, !.anchor = op[p].block,
                              !.cursor = NoBlock, !.page = 0, !.enumerated = FALSE,
                              !.pending = NoBlock, !.backoff = FALSE]
        /\ row \in Row /\ row.on /\ row.owner = p /\ row.target \in Blocks
        /\ retries' = {} /\ staged' = {}
    BY <1>2, <1>4, Zenon DEF Reset, Fenced, Inv, TypeOK, Filled
  <2>2. row' \in Row
    BY <1>2, <1>4, <2>1, NextGeneration, FirstPage, ZenonT(30) DEF Row
  <2>3. TypeOK'
    BY <1>3, <2>1, <2>2, Zenon DEF Inv, TypeOK, Reset
  <2>4. /\ row'.on /\ row'.target = row.target /\ row'.anchor \in Blocks /\ row'.owner = p
        /\ row'.pending = NoBlock /\ row'.cursor = NoBlock /\ row'.page = 0 /\ ~row'.enumerated
    BY <1>2, <2>1, Zenon DEF Row
  <2>5. Filled' /\ RowParses' /\ GapTracksWork' /\ Counted'
    BY <2>1, <2>4, SMTT(30) DEF Inv, Filled, RowParses, GapTracksWork, Counted, Reset
  <2> QED
    BY <1>3, <2>3, <2>4, <2>5, Assembled, Zenon DEF Takes
<1>5. CASE ~Fenced(p)
  BY <1>1, <1>5, OnlyEnds, Zenon DEF Reset, Database
<1> QED
  BY <1>4, <1>5, Zenon DEF Reset

\* Page keeps the invariant: a fetched page is not recorded yet.
LEMMA PageKeeps == ASSUME Inv, NEW p \in Procs, Page(p) PROVE Inv'
<1>1. op[p].pc = "page" /\ op[p].pc # "idle" /\ UNCHANGED <<Database, state, views>>
  BY Zenon DEF Page
<1>2. CASE Displaced(p)
  BY <1>1, <1>2, OnlyEnds, Zenon DEF Displaced
<1>3. CASE Go(p, "defer")
  BY <1>1, <1>3, OnlyGoes, Zenon DEF Steps
<1>4. ASSUME NEW b \in Blocks, op' = [op EXCEPT ![p].pc = "record", ![p].block = b] PROVE Inv'
  <2>1. Keeps /\ UNCHANGED <<ckpt, gap>>
    BY <1>1, Zenon DEF Keeps, Database
  <2>2. op[p] \in Op /\ Mine(p)
    BY Zenon DEF Inv, TypeOK
  <2>3. op'[p] = [op[p] EXCEPT !.pc = "record", !.block = b]
    BY <1>4, Zenon DEF Inv, TypeOK
  <2>4. \A q \in Procs \ {p} : op'[q] = op[q]
    BY <1>4, Zenon DEF Inv, TypeOK
  <2>5. op'[p] \in Op
    BY <2>2, <2>3, Zenon DEF Op, Steps
  <2>6. op'[p].pc = "record" /\ op'[p].st = op[p].st /\ op'[p].block = b
    BY <2>2, <2>3, Zenon DEF Op
  <2>7. TypeOK'
    BY <1>1, <1>4, <2>4, <2>5, Zenon DEF Inv, TypeOK, Database
  <2>8. Fenced(p)' => Fenced(p) /\ row' = row
    BY <1>1, <2>6, Zenon DEF Fenced, Database
  <2>9. Mine(p)'
    BY <1>1, <2>2, <2>6, <2>8, Zenon DEF Mine
  <2> QED
    BY <2>1, <2>4, <2>7, <2>9, AssembledKeeping, Zenon
<1> QED
  BY <1>2, <1>3, <1>4, Zenon DEF Page

\* The cursor moves to b, which does not pass the target; no header waits,
\* because the target was not proven.
LEMMA RecordCursorKeeps ==
  ASSUME Inv, NEW p \in Procs, NEW b \in Blocks, NEW headers \in SUBSET Blocks, NEW a \in BOOLEAN,
         op[p].pc # "idle", RecordCursor(p, headers, b, a),
         op[p].st.cursor # op[p].st.target
  PROVE  Inv'
<1> DEFINE records == Fenced(p) /\ row.cursor = op[p].st.cursor /\ Reaches(b)
                      /\ \A c \in staged, d \in headers : Height[c] = Height[d] => c = d
<1>1. CASE ~records
  <2>1. End(p) /\ UNCHANGED <<Database, state, views>>
    BY <1>1, Zenon DEF RecordCursor, Database
  <2> QED
    BY <2>1, OnlyEnds, Zenon
<1>2. CASE records
  <2>1. /\ row' = [row EXCEPT !.mode = "forward", !.cursor = b, !.backoff = FALSE]
        /\ staged' = Kept(staged \cup headers, b)
        /\ op' = [op EXCEPT ![p] = IF Onward(row', a) = "idle" THEN NoOp
                                   ELSE [@ EXCEPT !.pc = Onward(row', a), !.st = row', !.block = NoBlock]]
        /\ UNCHANGED <<ckpt, gap, history, retries, state, views, served>>
    BY <1>2, Zenon DEF RecordCursor
  <2>2. /\ row \in Row /\ row.on /\ row.owner = p /\ row.target = op[p].st.target
        /\ row.target \in Blocks /\ row.anchor \in Blocks /\ row.cursor # row.target
    BY <1>2, Zenon DEF Inv, TypeOK, Fenced, Mine, Filled
  <2>3. row' \in Row
    BY <2>1, <2>2, ZenonT(30) DEF Row, Modes
  <2>4. /\ row'.on /\ row'.gen = row.gen /\ row'.owner = p /\ row'.target = row.target
        /\ row'.anchor = row.anchor /\ row'.cursor = b /\ row'.pending = row.pending
        /\ row'.page = row.page /\ row'.enumerated = row.enumerated
    BY <2>1, <2>2, Zenon DEF Row
  <2>5. row.pending = NoBlock
    BY <2>2, Zenon DEF Inv, RowParses, Proven
  <2>6. staged' \subseteq Blocks
    BY <2>1, Zenon DEF Kept, Inv, TypeOK
  <2>7. Filled' /\ RowParses' /\ GapTracksWork' /\ Counted'
    BY <1>2, <2>1, <2>2, <2>4, <2>5, Zenon
    DEF Inv, Filled, RowParses, GapTracksWork, Counted, Reaches, Proven
  <2>8. \A q \in Procs \ {p} : op'[q] = op[q]
    BY <2>1, Zenon DEF Inv, TypeOK
  <2>9. CASE Onward(row', a) = "idle"
    <3>1. End(p)
      BY <2>1, <2>9, Zenon DEF End
    <3>2. op' \in [Procs -> Op] /\ Mine(p)'
      BY <3>1, Ended, Zenon DEF Inv
    <3>3. TypeOK'
      BY <2>1, <2>3, <2>6, <3>2, Zenon DEF Inv, TypeOK
    <3> QED
      BY <2>4, <2>7, <2>8, <3>2, <3>3, Assembled, Zenon DEF Takes
  <2>10. CASE Onward(row', a) # "idle"
    <3>1. op'[p] = [op[p] EXCEPT !.pc = Onward(row', a), !.st = row', !.block = NoBlock]
      BY <2>1, <2>10, Zenon DEF Inv, TypeOK
    <3>2. op[p] \in Op /\ Onward(row', a) \in Steps
      BY OnwardStep, Zenon DEF Inv, TypeOK
    <3>3. op'[p] \in Op
      BY <2>3, <3>1, <3>2, ZenonT(30) DEF Op
    <3>4. op'[p].pc = Onward(row', a) /\ op'[p].st = row'
      BY <3>1, <3>2, Zenon DEF Op
    <3>5. Mine(p)'
      BY <2>2, <2>4, <3>4, OnwardStep, Zenon DEF Mine
    <3>6. op' \in [Procs -> Op]
      BY <2>1, <3>3, Zenon DEF Inv, TypeOK
    <3>7. TypeOK'
      BY <2>1, <2>3, <2>6, <3>6, Zenon DEF Inv, TypeOK
    <3> QED
      BY <2>4, <2>7, <2>8, <3>5, <3>7, Assembled, Zenon DEF Takes
  <2> QED
    BY <2>9, <2>10, Zenon
<1> QED
  BY <1>1, <1>2, Zenon

\* Seed keeps the invariant: the anchor is the first proven header.
LEMMA SeedKeeps == ASSUME Inv, NEW p \in Procs, Seed(p) PROVE Inv'
<1>1. /\ op[p].pc = "seed" /\ op[p].pc # "idle"
      /\ RecordCursor(p, {op[p].st.anchor}, op[p].st.anchor, FALSE)
  BY Zenon DEF Seed
<1>2. op[p].st.anchor \in Blocks /\ op[p].st.cursor = NoBlock /\ op[p].st.target \in Blocks
  BY <1>1, Zenon DEF Inv, Mine
<1>3. op[p].st.cursor # op[p].st.target
  BY <1>2, HeaderAssumption, Zenon DEF HeaderAssumption
<1> QED
  BY <1>1, <1>2, <1>3, RecordCursorKeeps, Zenon

\* Record keeps the invariant: a page moves the cursor towards the target.
LEMMA RecordKeeps == ASSUME Inv, NEW p \in Procs, Record(p) PROVE Inv'
<1>1. /\ op[p].pc = "record" /\ op[p].pc # "idle"
      /\ RecordCursor(p, Between(op[p].st.cursor, op[p].block), op[p].block, TRUE)
  BY Zenon DEF Record
<1>2. op[p].block \in Blocks /\ op[p].st.cursor # op[p].st.target
  BY <1>1, Zenon DEF Inv, Mine
<1>3. Between(op[p].st.cursor, op[p].block) \subseteq Blocks
  BY Zenon DEF Between
<1> QED
  BY <1>1, <1>2, <1>3, RecordCursorKeeps, Zenon

\* Defer keeps the invariant: a failure only delays the row.
LEMMA DeferKeeps == ASSUME Inv, NEW p \in Procs, Defer(p) PROVE Inv'
<1>1. op[p].pc = "defer" /\ op[p].pc # "idle" /\ End(p)
  BY Zenon DEF Defer
<1>2. CASE ~(op[p].live /\ Fenced(p))
  BY <1>1, <1>2, OnlyEnds, Zenon DEF Defer, Database
<1>3. CASE op[p].live /\ Fenced(p)
  <2>1. /\ row' = [row EXCEPT !.backoff = TRUE]
        /\ UNCHANGED <<ckpt, gap, history, staged, retries, state, views, served>>
    BY <1>3, Zenon DEF Defer
  <2>2. row \in Row /\ row.on /\ row.owner = p
    BY <1>1, <1>3, Zenon DEF Inv, TypeOK, Fenced, Mine
  <2>3. row' \in Row
    BY <2>1, <2>2, Zenon DEF Row
  <2>4. /\ row'.on /\ row'.owner = p /\ row'.target = row.target /\ row'.anchor = row.anchor
        /\ row'.cursor = row.cursor /\ row'.pending = row.pending
        /\ row'.page = row.page /\ row'.enumerated = row.enumerated
    BY <2>1, <2>2, Zenon DEF Row
  <2>5. op' \in [Procs -> Op] /\ Mine(p)' /\ \A q \in Procs \ {p} : op'[q] = op[q]
    BY <1>1, Ended, Zenon DEF Inv
  <2>6. TypeOK'
    BY <2>1, <2>3, <2>5, Zenon DEF Inv, TypeOK
  <2>7. Filled' /\ RowParses' /\ GapTracksWork' /\ Counted'
    BY <2>1, <2>2, <2>4, Zenon DEF Inv, Filled, RowParses, GapTracksWork, Counted, Proven
  <2> QED
    BY <2>4, <2>5, <2>6, <2>7, Assembled, Zenon DEF Takes
<1> QED
  BY <1>2, <1>3, Zenon

\* ComesDue keeps the invariant: a row that is due again is the same row.
LEMMA ComesDueKeeps == ASSUME Inv, ComesDue PROVE Inv'
<1>1. /\ row' = [row EXCEPT !.backoff = FALSE] /\ row.backoff
      /\ UNCHANGED <<ckpt, gap, history, staged, retries, state, op, views, served>>
  BY Zenon DEF ComesDue
<1>2. row \in Row /\ row.on
  BY <1>1, SMTT(30) DEF Inv, TypeOK, Filled, NoRow
<1>3. row' \in Row
  BY <1>1, <1>2, Zenon DEF Row
<1>4. /\ row'.on /\ row'.gen = row.gen /\ row'.owner = row.owner /\ row'.target = row.target
      /\ row'.anchor = row.anchor /\ row'.cursor = row.cursor /\ row'.pending = row.pending
      /\ row'.page = row.page /\ row'.enumerated = row.enumerated
  BY <1>1, <1>2, Zenon DEF Row
<1>5. TypeOK'
  BY <1>1, <1>3, Zenon DEF Inv, TypeOK
<1>6. Filled' /\ RowParses' /\ GapTracksWork' /\ Counted'
  BY <1>1, <1>2, <1>4, Zenon DEF Inv, Filled, RowParses, GapTracksWork, Counted, Proven
<1>7. ASSUME NEW p \in Procs PROVE Mine(p)'
  <2>1. Fenced(p)' => Fenced(p)
    BY <1>1, <1>2, <1>4, Zenon DEF Fenced
  <2> QED
    BY <1>1, <1>4, <2>1, Zenon DEF Inv, Mine
<1> QED
  BY <1>5, <1>6, <1>7, Zenon DEF Inv

\* A refresh reports the wallets that it tried, and those that did not fail are
\* refreshed.
LEMMA RefreshKeeps ==
  ASSUME Inv, NEW p \in Procs, op[p].pc # "idle", NEW tried \in SUBSET (1..Wallets),
         NEW step \in {"confirmed", "retried"}, Refresh(p, tried, step),
         step = "confirmed" => tried = {w \in 1..Wallets : w = op[p].st.page + 1}
  PROVE  Inv'
<1> PICK failed \in SUBSET tried :
       /\ served' = Served(p, tried \ failed)
       /\ \/ Displaced(p)
          \/ op[p].live /\ Go(p, "defer")
          \/ op[p].live /\ op' = [op EXCEPT ![p].pc = step, ![p].tried = tried, ![p].failed = failed]
  BY Zenon DEF Refresh
<1>1. UNCHANGED <<ckpt, gap, history, row, staged, retries, state, views>>
  BY Zenon DEF Refresh
<1>2. served \subseteq served' /\ served' \subseteq 1..Wallets
  BY Zenon DEF Served, Inv, TypeOK
<1>3. Keeps
  BY <1>1, <1>2, Zenon DEF Keeps
<1>4. op[p] \in Op /\ Mine(p)
  BY Zenon DEF Inv, TypeOK
<1>5. CASE Displaced(p)
  <2>1. op' \in [Procs -> Op] /\ Mine(p)' /\ \A q \in Procs \ {p} : op'[q] = op[q]
    BY <1>5, Ended, Zenon DEF Inv, Displaced
  <2>2. TypeOK'
    BY <1>1, <1>2, <2>1, Zenon DEF Inv, TypeOK
  <2> QED
    BY <1>1, <1>3, <2>1, <2>2, AssembledKeeping, Zenon
<1>6. CASE Go(p, "defer")
  <2>1. op'[p] = [op[p] EXCEPT !.pc = "defer"] /\ \A q \in Procs \ {p} : op'[q] = op[q]
    BY <1>6, Zenon DEF Go, Inv, TypeOK
  <2>2. op'[p] \in Op /\ op'[p].pc = "defer" /\ op'[p].st = op[p].st
    BY <1>4, <2>1, Zenon DEF Op, Steps
  <2>3. TypeOK'
    BY <1>1, <1>2, <1>6, <2>1, <2>2, Zenon DEF Inv, TypeOK, Go
  <2>4. Fenced(p)' => Fenced(p) /\ row' = row
    BY <1>1, <2>2, Zenon DEF Fenced
  <2>5. Mine(p)'
    BY <1>4, <2>2, <2>4, Zenon DEF Mine
  <2> QED
    BY <1>1, <1>3, <2>1, <2>3, <2>5, AssembledKeeping, Zenon
<1>7. CASE op' = [op EXCEPT ![p].pc = step, ![p].tried = tried, ![p].failed = failed]
  <2>1. op'[p] = [op[p] EXCEPT !.pc = step, !.tried = tried, !.failed = failed]
    BY <1>7, Zenon DEF Inv, TypeOK
  <2>2. \A q \in Procs \ {p} : op'[q] = op[q]
    BY <1>7, Zenon DEF Inv, TypeOK
  <2>3. step \in Steps /\ failed \in SUBSET (1..Wallets)
    BY Zenon DEF Steps
  <2>4. op'[p] \in Op
    BY <1>4, <2>1, <2>3, ZenonT(30) DEF Op
  <2>5. /\ op'[p].pc = step /\ op'[p].st = op[p].st
        /\ op'[p].tried = tried /\ op'[p].failed = failed
    BY <1>4, <2>1, Zenon DEF Op
  <2>6. TypeOK'
    BY <1>1, <1>2, <1>7, <2>2, <2>4, Zenon DEF Inv, TypeOK
  <2>7. Fenced(p)' => row.on /\ row.target = op[p].st.target /\ row' = row
    BY <1>1, <1>4, <2>5, Zenon DEF Fenced, Mine
  <2>8. Fenced(p)' => tried \ failed \subseteq served'
    BY <2>7, Zenon DEF Served
  <2>9. Mine(p)'
    BY <1>4, <2>5, <2>7, <2>8, Zenon DEF Mine
  <2> QED
    BY <1>1, <1>3, <2>2, <2>6, <2>9, AssembledKeeping, Zenon
<1> QED
  BY <1>5, <1>6, <1>7, Zenon

\* Confirm keeps the invariant: the wallet of the next page is refreshed.
LEMMA ConfirmKeeps == ASSUME Inv, NEW p \in Procs, Confirm(p) PROVE Inv'
<1> DEFINE tried == {w \in 1..Wallets : w = op[p].st.page + 1}
<1>1. op[p].pc # "idle" /\ Refresh(p, tried, "confirmed") /\ tried \in SUBSET (1..Wallets)
  BY Zenon DEF Confirm
<1> QED
  BY <1>1, RefreshKeeps, Zenon

\* Retry keeps the invariant: the wallets kept for a retry are refreshed.
LEMMA RetryKeeps == ASSUME Inv, NEW p \in Procs, Retry(p) PROVE Inv'
<1>1. op[p].pc # "idle" /\ Refresh(p, op[p].tried, "retried")
  BY Zenon DEF Retry
<1>2. op[p].tried \in SUBSET (1..Wallets)
  BY Zenon DEF Inv, TypeOK, Op
<1> QED
  BY <1>1, <1>2, RefreshKeeps, Zenon

\* Retries keeps the invariant: reading the retries changes no row.
LEMMA RetriesKeeps == ASSUME Inv, NEW p \in Procs, Retries(p) PROVE Inv'
<1>1. op[p].pc = "retries" /\ op[p].pc # "idle" /\ UNCHANGED <<Database, state, views>>
  BY Zenon DEF Retries
<1>2. CASE End(p)
  BY <1>1, <1>2, OnlyEnds, Zenon
<1>3. CASE Go(p, "finalize")
  BY <1>1, <1>3, OnlyGoes, Zenon DEF Steps
<1>4. CASE op' = [op EXCEPT ![p].pc = "retry", ![p].tried = retries]
  <2>1. Keeps /\ UNCHANGED <<ckpt, gap>>
    BY <1>1, Zenon DEF Keeps, Database
  <2>2. op[p] \in Op /\ Mine(p) /\ retries \in SUBSET (1..Wallets)
    BY Zenon DEF Inv, TypeOK
  <2>3. op'[p] = [op[p] EXCEPT !.pc = "retry", !.tried = retries]
    BY <1>4, Zenon DEF Inv, TypeOK
  <2>4. \A q \in Procs \ {p} : op'[q] = op[q]
    BY <1>4, Zenon DEF Inv, TypeOK
  <2>5. op'[p] \in Op
    BY <2>2, <2>3, ZenonT(30) DEF Op, Steps
  <2>6. op'[p].pc = "retry" /\ op'[p].st = op[p].st
    BY <2>2, <2>3, Zenon DEF Op
  <2>7. TypeOK'
    BY <1>1, <1>4, <2>4, <2>5, Zenon DEF Inv, TypeOK, Database
  <2>8. Fenced(p)' => Fenced(p) /\ row' = row
    BY <1>1, <2>6, Zenon DEF Fenced, Database
  <2>9. Mine(p)'
    BY <1>1, <2>2, <2>6, <2>8, Zenon DEF Mine
  <2> QED
    BY <2>1, <2>4, <2>7, <2>9, AssembledKeeping, Zenon
<1> QED
  BY <1>2, <1>3, <1>4, Zenon DEF Retries

\* After a result is recorded in the row of p.
LEMMA RecordedKeeps ==
  ASSUME Inv, NEW p \in Procs, Recorded(p), row' \in Row, row'.owner = p,
         row'.target \in Blocks, row'.anchor \in Blocks
  PROVE  op' \in [Procs -> Op] /\ Mine(p)' /\ \A q \in Procs \ {p} : op'[q] = op[q]
<1>1. CASE End(p)
  BY <1>1, Ended, Zenon DEF Inv
<1>2. CASE op' = [op EXCEPT ![p] = [@ EXCEPT !.pc = "defer", !.st = row', !.tried = {}, !.failed = {}]]
  <2>1. op'[p] = [op[p] EXCEPT !.pc = "defer", !.st = row', !.tried = {}, !.failed = {}]
    BY <1>2, Zenon DEF Inv, TypeOK
  <2>2. op[p] \in Op /\ {} \in SUBSET (1..Wallets) /\ "defer" \in Steps
    BY Zenon DEF Inv, TypeOK, Steps
  <2>3. op'[p] \in Op
    BY <2>1, <2>2, ZenonT(30) DEF Op
  <2>4. op'[p].pc = "defer" /\ op'[p].st = row'
    BY <2>1, <2>2, Zenon DEF Op
  <2>5. Mine(p)'
    BY <2>4, Zenon DEF Mine
  <2> QED
    BY <1>2, <2>3, <2>5, Zenon DEF Inv, TypeOK
<1> QED
  BY <1>1, <1>2, Zenon DEF Recorded

\* Confirmed keeps the invariant: the wallet of the page is refreshed or kept for a retry.
LEMMA ConfirmedKeeps == ASSUME Inv, NEW p \in Procs, Confirmed(p) PROVE Inv'
<1> DEFINE k == op[p]
<1>1. /\ k.pc = "confirmed" /\ k.pc # "idle" /\ Mine(p) /\ k \in Op
      /\ UNCHANGED <<ckpt, gap, history, staged, state, views, served>>
  BY Zenon DEF Confirmed, Inv, TypeOK
<1>2. CASE ~(Fenced(p) /\ ~row.enumerated /\ row.page = k.st.page)
  BY <1>1, <1>2, OnlyEnds, Zenon DEF Confirmed, Database
<1>3. CASE Fenced(p) /\ ~row.enumerated /\ row.page = k.st.page
  <2> DEFINE n == IF k.tried = {} THEN row.page ELSE row.page + 1
             done == k.st.page + 1 >= Wallets
             waits == row.backoff /\ k.tried # {} /\ k.tried = k.failed
  <2>1. /\ row' = [row EXCEPT !.page = n, !.enumerated = done, !.backoff = waits]
        /\ retries' = retries \cup k.failed /\ Recorded(p)
    BY <1>3, Zenon DEF Confirmed
  <2>2. /\ row \in Row /\ row.on /\ row.owner = p /\ row.target \in Blocks /\ row.anchor \in Blocks
        /\ row.page \in 0..Wallets
    BY <1>1, <1>3, Zenon DEF Inv, TypeOK, Fenced, Mine, Filled, Row
  <2>3. k.tried = {w \in 1..Wallets : w = row.page + 1} /\ k.tried \ k.failed \subseteq served
    BY <1>1, <1>3, Zenon DEF Mine
  <2>4. n \in 0..Wallets /\ (done => n = Wallets) /\ (\A w \in 1..n : w \in 1..row.page \/ w \in k.tried)
    BY <1>3, <2>2, <2>3, HeaderAssumption, SMTT(30) DEF HeaderAssumption
  <2>5. done \in BOOLEAN /\ waits \in BOOLEAN
    <3>1. row.backoff \in BOOLEAN
      BY <2>2, Zenon DEF Row
    <3> QED
      BY <3>1, SMTT(30)
  <2> HIDE DEF n, done, waits
  <2>6. row' \in Row
    BY <2>1, <2>2, <2>4, <2>5, ZenonT(30) DEF Row
  <2>7. /\ row'.on /\ row'.owner = p /\ row'.target = row.target
        /\ row'.anchor = row.anchor /\ row'.cursor = row.cursor /\ row'.pending = row.pending
        /\ row'.page = n
    BY <2>1, <2>2, Zenon DEF Row
  <2>8. row'.enumerated = done
    BY <2>1, <2>2, ZenonT(30) DEF Row
  <2>9. op' \in [Procs -> Op] /\ Mine(p)' /\ \A q \in Procs \ {p} : op'[q] = op[q]
    BY <2>1, <2>2, <2>6, <2>7, RecordedKeeps, Zenon
  <2>10. k.failed \subseteq 1..Wallets
    BY <1>1, Zenon DEF Op
  <2>11. TypeOK'
    BY <1>1, <2>1, <2>6, <2>9, <2>10, Zenon DEF Inv, TypeOK
  <2>12. Filled' /\ RowParses' /\ GapTracksWork'
    BY <1>1, <2>2, <2>7, Zenon DEF Inv, Filled, RowParses, GapTracksWork, Proven
  <2>13. Counted'
    <3>1. \A w \in 1..n : w \in served' \cup retries'
      BY <1>1, <2>1, <2>2, <2>3, <2>4, Zenon DEF Inv, Counted
    <3> QED
      BY <2>4, <2>7, <2>8, <3>1, Zenon DEF Counted
  <2> QED
    BY <2>7, <2>9, <2>11, <2>12, <2>13, Assembled, Zenon DEF Takes
<1> QED
  BY <1>2, <1>3, Zenon

\* Retried keeps the invariant: a wallet leaves the retries only when refreshed.
LEMMA RetriedKeeps == ASSUME Inv, NEW p \in Procs, Retried(p) PROVE Inv'
<1> DEFINE k == op[p]
<1>1. /\ k.pc = "retried" /\ k.pc # "idle" /\ Mine(p) /\ k \in Op
      /\ UNCHANGED <<ckpt, gap, history, staged, state, views, served>>
  BY Zenon DEF Retried, Inv, TypeOK
<1>2. CASE ~Fenced(p)
  BY <1>1, <1>2, OnlyEnds, Zenon DEF Retried, Database
<1>3. CASE Fenced(p)
  <2> DEFINE waits == row.backoff /\ k.tried = k.failed
  <2>1. /\ row' = [row EXCEPT !.backoff = waits]
        /\ retries' = retries \ (k.tried \ k.failed) /\ Recorded(p)
    BY <1>3, Zenon DEF Retried
  <2>2. /\ row \in Row /\ row.on /\ row.owner = p /\ row.target \in Blocks /\ row.anchor \in Blocks
        /\ k.tried \ k.failed \subseteq served
    BY <1>1, <1>3, Zenon DEF Inv, TypeOK, Fenced, Mine, Filled
  <2>3. waits \in BOOLEAN
    <3>1. row.backoff \in BOOLEAN
      BY <2>2, Zenon DEF Row
    <3> QED
      BY <3>1, Zenon
  <2> HIDE DEF waits
  <2>4. row' \in Row
    BY <2>1, <2>2, <2>3, ZenonT(30) DEF Row
  <2>5. /\ row'.on /\ row'.owner = p /\ row'.target = row.target
        /\ row'.anchor = row.anchor /\ row'.cursor = row.cursor /\ row'.pending = row.pending
        /\ row'.page = row.page /\ row'.enumerated = row.enumerated
    BY <2>1, <2>2, Zenon DEF Row
  <2>6. op' \in [Procs -> Op] /\ Mine(p)' /\ \A q \in Procs \ {p} : op'[q] = op[q]
    BY <2>1, <2>2, <2>4, <2>5, RecordedKeeps, Zenon
  <2>7. TypeOK'
    BY <1>1, <2>1, <2>4, <2>6, Zenon DEF Inv, TypeOK
  <2>8. Filled' /\ RowParses' /\ GapTracksWork'
    BY <1>1, <2>2, <2>5, Zenon DEF Inv, Filled, RowParses, GapTracksWork, Proven
  <2>9. Counted'
    BY <1>1, <2>1, <2>2, <2>5, Zenon DEF Inv, Counted
  <2> QED
    BY <2>5, <2>6, <2>7, <2>8, <2>9, Assembled, Zenon DEF Takes
<1> QED
  BY <1>2, <1>3, Zenon

\* Where the proof of a header starts
LEMMA InitialModeTyped ==
  ASSUME NEW c \in Blocks \cup {NoBlock}, NEW b
  PROVE  InitialMode(c, b).mode \in Modes /\ InitialMode(c, b).anchor \in Blocks
BY HeaderAssumption, Zenon DEF HeaderAssumption, InitialMode, Modes

\* Every wallet has been refreshed when the target is promoted.
LEMMA PromotedServed ==
  ASSUME Inv, row.on, row.enumerated, retries = {}
  PROVE  served = 1..Wallets
BY Zenon DEF Inv, TypeOK, Counted

\* Finalize keeps the invariant: the row is removed or starts on the header that waited.
LEMMA FinalizeKeeps == ASSUME Inv, NEW p \in Procs, Finalize(p) PROVE Inv'
<1>1. /\ op[p].pc = "finalize" /\ op[p].pc # "idle" /\ End(p) /\ Mine(p)
      /\ UNCHANGED <<retries, state, views>>
  BY Zenon DEF Finalize, Inv
<1>2. CASE UNCHANGED <<ckpt, gap, history, row, staged, served>>
  BY <1>1, <1>2, OnlyEnds, Zenon DEF Database
<1>3. CASE Fenced(p) /\ retries = {} /\ Promote
  <2>1. row \in Row /\ row.on /\ row.owner = p /\ row.target \in Blocks
    BY <1>1, <1>3, Zenon DEF Inv, TypeOK, Fenced, Mine, Filled
  <2>2. op' \in [Procs -> Op] /\ Mine(p)' /\ \A q \in Procs \ {p} : op'[q] = op[q]
    BY <1>1, Ended, Zenon DEF Inv
  <2>3. /\ ckpt' \in Blocks /\ history' \subseteq Blocks /\ staged' = {} /\ served' = {}
        /\ retries' = retries
    BY <1>1, <1>3, <2>1, Zenon DEF Promote, Kept, Inv, TypeOK
  <2>4. CASE row.pending = NoBlock /\ row' = NoRow /\ gap' = FALSE
    <3>1. ~row'.on /\ ~row'.enumerated /\ row' \in Row
      BY <2>4, NothingTyped, Zenon DEF NoRow
    <3>2. TypeOK'
      BY <1>1, <2>2, <2>3, <2>4, <3>1, Zenon DEF Inv, TypeOK
    <3>3. Filled' /\ RowParses' /\ GapTracksWork' /\ Counted'
      BY <2>4, <3>1, Zenon DEF Filled, RowParses, GapTracksWork, Counted
    <3> QED
      BY <2>2, <3>1, <3>2, <3>3, Assembled, Zenon DEF Takes
  <2>5. CASE row.pending # NoBlock /\ CanAdvance /\ row' = Continued /\ gap' = TRUE
    <3> DEFINE m == InitialMode(row.target, row.pending).mode
               a == InitialMode(row.target, row.pending).anchor
    <3>1. m \in Modes /\ a \in Blocks
      BY <2>1, InitialModeTyped, Zenon
    <3>2. row.pending \in Blocks /\ row.gen + 1 \in 0..MaxGen /\ row.owner \in Procs
      BY <2>1, <2>5, NextGeneration, Zenon DEF Row
    <3>3. row' = [NoRow EXCEPT !.on = TRUE, !.gen = row.gen + 1, !.owner = row.owner, !.mode = m,
                               !.target = row.pending, !.anchor = a]
      BY <2>5, Zenon DEF Continued
    <3> HIDE DEF m, a
    <3>4. row' \in Row
      BY <3>1, <3>2, <3>3, NothingTyped, ZenonT(30) DEF Row
    <3>5. /\ row'.on /\ row'.owner = p /\ row'.target = row.pending /\ row'.anchor = a
          /\ row'.cursor = NoBlock /\ row'.pending = NoBlock /\ row'.page = 0 /\ ~row'.enumerated
      BY <2>1, <3>3, Zenon DEF NoRow
    <3>6. TypeOK'
      BY <1>1, <2>2, <2>3, <2>5, <3>4, Zenon DEF Inv, TypeOK
    <3>7. Filled' /\ RowParses' /\ GapTracksWork' /\ Counted'
      BY <2>5, <3>1, <3>2, <3>5, SMTT(30) DEF Filled, RowParses, GapTracksWork, Counted
    <3> QED
      BY <2>2, <3>5, <3>6, <3>7, Assembled, Zenon DEF Takes
  <2> QED
    BY <1>3, <2>4, <2>5, Zenon DEF Promote
<1> QED
  BY <1>2, <1>3, Zenon DEF Finalize

\* An operation that starts with the row as it is now
LEMMA Begins ==
  ASSUME Inv, NEW p \in Procs, row' \in Row, row'.owner = p,
         row'.target \in Blocks, row'.anchor \in Blocks,
         op' = [op EXCEPT ![p] = Attempt(p, row')] \/ End(p)
  PROVE  op' \in [Procs -> Op] /\ Mine(p)' /\ \A q \in Procs \ {p} : op'[q] = op[q]
<1>1. CASE End(p)
  BY <1>1, Ended, Zenon DEF Inv
<1>2. CASE op' = [op EXCEPT ![p] = Attempt(p, row')]
  <2>1. op'[p] = [NoOp EXCEPT !.pc = "probe", !.live = TRUE, !.st = row']
    BY <1>2, Zenon DEF Inv, TypeOK, Attempt
  <2>2. op'[p] \in Op
    BY <2>1, NothingTyped, ZenonT(30) DEF Op, Steps
  <2>3. op'[p].pc = "probe" /\ op'[p].st = row'
    BY <2>1, Zenon DEF NoOp
  <2>4. Mine(p)'
    BY <2>3, Zenon DEF Mine
  <2> QED
    BY <1>2, <2>2, <2>4, Zenon DEF Inv, TypeOK
<1> QED
  BY <1>1, <1>2, Zenon

\* Recover keeps the invariant: a claim changes the owner and nothing the target depends on.
LEMMA RecoverKeeps == ASSUME Inv, NEW p \in Procs, Recover(p) PROVE Inv'
<1>1. /\ row.on /\ op' = [op EXCEPT ![p] = Attempt(p, row')]
      /\ UNCHANGED <<ckpt, gap, history, staged, retries, state, views, served>>
  BY Zenon DEF Recover
<1>2. row \in Row /\ row.target \in Blocks /\ row.anchor \in Blocks
  BY <1>1, Zenon DEF Inv, TypeOK, Filled
<1>3. /\ row' \in Row /\ row'.on /\ row'.owner = p /\ row'.target = row.target
      /\ row'.anchor = row.anchor /\ row'.cursor = row.cursor /\ row'.pending = row.pending
      /\ row'.page = row.page /\ row'.enumerated = row.enumerated
  <2>1. CASE row.owner = p
    BY <1>1, <1>2, <2>1, Zenon DEF Recover
  <2>2. CASE row.owner # p
    <3>1. row' = [row EXCEPT !.gen = row.gen + 1, !.owner = p] /\ row.gen + 1 \in 0..MaxGen
      BY <1>2, <2>2, NextGeneration, Zenon DEF Recover
    <3>2. row' \in Row
      BY <1>2, <3>1, ZenonT(30) DEF Row
    <3> QED
      BY <1>1, <1>2, <3>1, <3>2, Zenon DEF Row
  <2> QED
    BY <2>1, <2>2, Zenon
<1>4. op' \in [Procs -> Op] /\ Mine(p)' /\ \A q \in Procs \ {p} : op'[q] = op[q]
  BY <1>1, <1>2, <1>3, Begins, Zenon
<1>5. TypeOK'
  BY <1>1, <1>3, <1>4, Zenon DEF Inv, TypeOK
<1>6. Filled' /\ RowParses' /\ GapTracksWork' /\ Counted'
  BY <1>1, <1>2, <1>3, Zenon DEF Inv, Filled, RowParses, GapTracksWork, Counted, Proven
<1> QED
  BY <1>3, <1>4, <1>5, <1>6, Assembled, Zenon DEF Takes

\* A header that is put behind a proven target.
LEMMA CoalesceKeeps ==
  ASSUME Inv, NEW p \in Procs, NEW b \in Blocks, CanAdvance, row.on, Coalesce(p, b), gap' = TRUE \/ ckpt = NoBlock,
         ckpt' = ckpt
  PROVE  /\ row' \in Row /\ row'.owner = p /\ row'.target \in Blocks /\ row'.anchor \in Blocks
         /\ served' \subseteq 1..Wallets /\ retries' \subseteq 1..Wallets /\ staged' \subseteq Blocks
         /\ Filled' /\ RowParses' /\ GapTracksWork' /\ Counted'
<1>1. row \in Row /\ row.target \in Blocks /\ row.anchor \in Blocks /\ row.gen + 1 \in 0..MaxGen
  BY NextGeneration, Zenon DEF Inv, TypeOK, Filled
<1>2. row' = [row EXCEPT !.gen = row.gen + 1, !.owner = p, !.pending = b]
  BY Zenon DEF Coalesce
<1>3. row' \in Row
  BY <1>1, <1>2, ZenonT(30) DEF Row
<1>4. /\ row'.on /\ row'.owner = p /\ row'.target = row.target /\ row'.anchor = row.anchor
      /\ row'.cursor = row.cursor /\ row'.page = row.page /\ row'.enumerated = row.enumerated
  BY <1>1, <1>2, Zenon DEF Row
<1>5. Filled' /\ RowParses' /\ GapTracksWork' /\ Counted'
  BY <1>1, <1>4, Zenon DEF Inv, Filled, RowParses, GapTracksWork, Counted, Proven, Coalesce
<1> QED
  BY <1>1, <1>3, <1>4, <1>5, Zenon DEF Inv, TypeOK, Coalesce

\* A header that becomes the target, or is it already.
LEMMA RetargetKeeps ==
  ASSUME Inv, NEW p \in Procs, NEW b \in Blocks, CanAdvance, row.on, Retarget(p, b), gap' = TRUE \/ ckpt = NoBlock,
         ckpt' = ckpt
  PROVE  /\ row' \in Row /\ row'.on /\ row'.owner = p /\ row'.target \in Blocks /\ row'.anchor \in Blocks
         /\ served' \subseteq 1..Wallets /\ retries' \subseteq 1..Wallets /\ staged' \subseteq Blocks
         /\ Filled' /\ RowParses' /\ GapTracksWork' /\ Counted'
<1> DEFINE g == IF b # row.target \/ row.owner # p THEN row.gen + 1 ELSE row.gen
           n == IF b # row.target THEN 0 ELSE row.page
           e == ~(b # row.target) /\ row.enumerated
           m == InitialMode(ckpt, b).mode
           a == InitialMode(ckpt, b).anchor
           moved == [row EXCEPT !.gen = g, !.owner = p, !.target = b, !.page = n, !.enumerated = e]
           restarted == [moved EXCEPT !.mode = m, !.anchor = a, !.cursor = NoBlock]
<1>1. /\ row \in Row /\ row.target \in Blocks /\ row.anchor \in Blocks /\ row.page \in 0..Wallets
      /\ row.cursor \in Blocks \cup {NoBlock} /\ row.pending \in Blocks \cup {NoBlock}
  BY Zenon DEF Inv, TypeOK, Filled, Row
<1>2. g \in 0..MaxGen
  BY <1>1, NextGeneration, Zenon DEF Row
<1>3. n \in 0..Wallets /\ (b # row.target => n = 0) /\ (b = row.target => n = row.page)
  BY <1>1, FirstPage, Zenon
<1>4. e \in BOOLEAN /\ (e => b = row.target /\ row.enumerated)
  <2>1. row.enumerated \in BOOLEAN
    BY <1>1, Zenon DEF Row
  <2> QED
    BY <2>1, Zenon
<1>5. m \in Modes /\ a \in Blocks
  BY InitialModeTyped, Zenon DEF Inv, TypeOK
<1>6. row' = IF Compatible(b) THEN moved ELSE restarted
  BY Zenon DEF Retarget
<1>7. /\ served' = (IF b # row.target THEN {} ELSE served)
      /\ staged' = (IF Compatible(b) THEN staged ELSE {}) /\ retries' = (IF Compatible(b) THEN retries ELSE {})
      /\ ~Proven(row) \/ b = row.target
  BY Zenon DEF Retarget
<1> HIDE DEF g, n, e, m, a
<1>8. moved \in Row
  BY <1>1, <1>2, <1>3, <1>4, ZenonT(30) DEF Row
<1>9. /\ moved.on /\ moved.owner = p /\ moved.target = b /\ moved.page = n
      /\ moved.anchor = row.anchor /\ moved.cursor = row.cursor /\ moved.pending = row.pending
  BY <1>1, Zenon DEF Row
<1>10. moved.enumerated = e
  BY <1>1, ZenonT(30) DEF Row
<1> HIDE DEF moved
<1>11. CASE Compatible(b)
  <2>1. row' = moved /\ retries' = retries
    BY <1>6, <1>7, <1>11, Zenon
  <2>2. RowParses'
    <3>1. row.cursor # NoBlock => Height[row.cursor] < Height[b] \/ row.cursor = b
      BY <1>1, <1>7, <1>11, HeaderAssumption, SMTT(30)
      DEF HeaderAssumption, Inv, RowParses, Compatible, Proven
    <3>2. row.pending # NoBlock => row.cursor = b
      BY <1>7, Zenon DEF Inv, RowParses, Proven
    <3> QED
      BY <1>9, <2>1, <3>1, <3>2, Zenon DEF RowParses, Proven
  <2>3. Counted'
    <3>1. CASE b = row.target
      BY <1>3, <1>4, <1>7, <1>9, <1>10, <2>1, <3>1, Zenon DEF Counted, Inv
    <3>2. CASE b # row.target
      BY <1>3, <1>4, <1>9, <1>10, <2>1, <3>2, SMTT(30) DEF Counted
    <3> QED
      BY <3>1, <3>2, Zenon
  <2>4. Filled' /\ GapTracksWork'
    BY <1>1, <1>9, <2>1, Zenon DEF Filled, GapTracksWork
  <2> QED
    BY <1>1, <1>7, <1>8, <1>9, <2>1, <2>2, <2>3, <2>4, Zenon DEF Inv, TypeOK
<1>12. CASE ~Compatible(b)
  <2>1. row' = restarted /\ b # row.target /\ retries' = {}
    BY <1>6, <1>7, <1>12, Zenon DEF Compatible
  <2>2. row' \in Row
    BY <1>5, <1>8, <2>1, ZenonT(30) DEF Row
  <2>3. /\ row'.on /\ row'.owner = p /\ row'.target = b /\ row'.page = n /\ row'.anchor = a
        /\ row'.cursor = NoBlock /\ row'.pending = row.pending
    BY <1>8, <1>9, <2>1, Zenon DEF Row
  <2>4. row'.enumerated = e
    BY <1>8, <1>10, <2>1, ZenonT(30) DEF Row
  <2>5. row.pending = NoBlock
    BY <1>7, <2>1, Zenon DEF Inv, RowParses
  <2>6. RowParses' /\ Filled' /\ GapTracksWork'
    BY <1>5, <2>3, <2>5, Zenon DEF RowParses, Filled, GapTracksWork
  <2>7. Counted'
    BY <1>3, <1>4, <2>1, <2>3, <2>4, SMTT(30) DEF Counted
  <2> QED
    BY <1>1, <1>5, <1>7, <2>1, <2>2, <2>3, <2>6, <2>7, Zenon DEF Inv, TypeOK
<1> QED
  BY <1>11, <1>12, Zenon

\* A new row.
LEMMA NewRowKeeps ==
  ASSUME Inv, NEW p \in Procs, NEW b \in Blocks, CanAdvance, ~row.on, row' = NewRow(p, b), gap' = TRUE \/ ckpt = NoBlock,
         ckpt' = ckpt, served' = {}
  PROVE  /\ row' \in Row /\ row'.owner = p /\ row'.target \in Blocks /\ row'.anchor \in Blocks
         /\ Filled' /\ RowParses' /\ GapTracksWork' /\ Counted'
<1> DEFINE m == InitialMode(ckpt, b).mode
           a == InitialMode(ckpt, b).anchor
<1>1. m \in Modes /\ a \in Blocks
  BY InitialModeTyped, Zenon DEF Inv, TypeOK
<1>2. 1 \in 0..MaxGen
  <2>1. row = NoRow /\ row \in Row
    BY Zenon DEF Inv, Filled, TypeOK
  <2>2. row.gen + 1 \in 0..MaxGen /\ row.gen = 0
    BY <2>1, NextGeneration, Zenon DEF NoRow
  <2> QED
    BY <2>2, SMTT(30)
<1>3. row' = [NoRow EXCEPT !.on = TRUE, !.gen = 1, !.owner = p, !.target = b, !.mode = m, !.anchor = a]
  BY Zenon DEF NewRow
<1> HIDE DEF m, a
<1>4. row' \in Row
  BY <1>1, <1>2, <1>3, NothingTyped, ZenonT(30) DEF Row
<1>5. /\ row'.on /\ row'.owner = p /\ row'.target = b /\ row'.anchor = a
      /\ row'.cursor = NoBlock /\ row'.pending = NoBlock /\ row'.page = 0 /\ ~row'.enumerated
  BY <1>3, Zenon DEF NoRow
<1>6. Filled' /\ RowParses' /\ GapTracksWork' /\ Counted'
  BY <1>1, <1>5, SMTT(30) DEF Filled, RowParses, GapTracksWork, Counted
<1> QED
  BY <1>1, <1>4, <1>5, <1>6, Zenon

\* Observe keeps the invariant: the row is new, coalesced or moved to the header.
LEMMA ObserveKeeps == ASSUME Inv, NEW p \in Procs, NEW b \in Blocks, Observe(p, b) PROVE Inv'
<1>1. /\ CanAdvance /\ UNCHANGED <<ckpt, history, views>>
      /\ state' = [state EXCEPT ![p] = "working"]
      /\ gap' = (gap \/ ckpt # NoBlock)
      /\ op' = [op EXCEPT ![p] = Attempt(p, row')] \/ End(p)
  BY Zenon DEF Observe, End
<1>2. gap' \in BOOLEAN /\ (gap' = TRUE \/ ckpt = NoBlock)
  BY <1>1, Zenon DEF Inv, TypeOK
<1>3. state' \in [Procs -> {"inactive", "active", "working"}]
  BY <1>1, Zenon DEF Inv, TypeOK
<1>4. /\ row' \in Row /\ row'.owner = p /\ row'.target \in Blocks /\ row'.anchor \in Blocks
      /\ served' \subseteq 1..Wallets /\ retries' \subseteq 1..Wallets /\ staged' \subseteq Blocks
      /\ Filled' /\ RowParses' /\ GapTracksWork' /\ Counted'
  <2>1. CASE row.on /\ Coalesce(p, b)
    BY <1>1, <1>2, <2>1, CoalesceKeeps, Zenon
  <2>2. CASE row.on /\ Retarget(p, b)
    BY <1>1, <1>2, <2>2, RetargetKeeps, Zenon
  <2>3. CASE ~row.on
    <3>1. row' = NewRow(p, b) /\ served' = {} /\ UNCHANGED <<staged, retries>>
      BY <2>3, Zenon DEF Observe
    <3>2. /\ row' \in Row /\ row'.owner = p /\ row'.target \in Blocks /\ row'.anchor \in Blocks
          /\ Filled' /\ RowParses' /\ GapTracksWork' /\ Counted'
      BY <1>1, <1>2, <2>3, <3>1, NewRowKeeps, Zenon
    <3> QED
      BY <3>1, <3>2, Zenon DEF Inv, TypeOK
  <2> QED
    BY <2>1, <2>2, <2>3, Zenon DEF Observe
<1>5. op' \in [Procs -> Op] /\ Mine(p)' /\ \A q \in Procs \ {p} : op'[q] = op[q]
  BY <1>1, <1>4, Begins, Zenon
<1>6. TypeOK'
  BY <1>1, <1>2, <1>3, <1>4, <1>5, Zenon DEF Inv, TypeOK
<1> QED
  BY <1>4, <1>5, <1>6, Assembled, Zenon DEF Takes

\* A change of who is active touches no row, and of an operation only whether
\* it is still live.
LEMMA ActivityKeeps ==
  ASSUME Inv, UNCHANGED Database, views' \subseteq Blocks, views' # {},
         state' \in [Procs -> {"inactive", "active", "working"}],
         op' \in [Procs -> Op],
         \A p \in Procs : /\ op'[p].pc = op[p].pc /\ op'[p].st = op[p].st /\ op'[p].block = op[p].block
                          /\ op'[p].tried = op[p].tried /\ op'[p].failed = op[p].failed
  PROVE  Inv'
<1>1. Keeps /\ UNCHANGED <<ckpt, gap>>
  BY Zenon DEF Keeps, Database
<1>2. TypeOK'
  BY Zenon DEF Inv, TypeOK, Database
<1>3. ASSUME NEW p \in Procs PROVE Mine(p)'
  <2>1. Fenced(p)' => Fenced(p) /\ row' = row /\ served' = served
    BY Zenon DEF Fenced, Database
  <2> QED
    BY <2>1, SMTT(30) DEF Inv, Mine
<1> QED
  BY <1>1, <1>2, <1>3, RowKept, Zenon DEF Inv

\* An operation whose epoch is over
LEMMA Outdated ==
  ASSUME NEW k \in Op
  PROVE  LET o == [k EXCEPT !.live = FALSE]
         IN  /\ o \in Op /\ o.pc = k.pc /\ o.st = k.st /\ o.block = k.block
             /\ o.tried = k.tried /\ o.failed = k.failed
BY Zenon DEF Op

\* Activate keeps the invariant: no row is touched.
LEMMA ActivateKeeps == ASSUME Inv, NEW p \in Procs, Activate(p) PROVE Inv'
BY ActivityKeeps, Zenon DEF Activate, Inv, TypeOK

\* Lose keeps the invariant: no row is touched.
LEMMA LoseKeeps == ASSUME Inv, NEW p \in Procs, Lose(p) PROVE Inv'
<1>1. op[p] \in Op /\ op'[p] = [op[p] EXCEPT !.live = FALSE] /\ \A q \in Procs \ {p} : op'[q] = op[q]
  BY Zenon DEF Lose, Inv, TypeOK
<1>2. /\ op'[p] \in Op /\ op'[p].pc = op[p].pc /\ op'[p].st = op[p].st /\ op'[p].block = op[p].block
      /\ op'[p].tried = op[p].tried /\ op'[p].failed = op[p].failed
  BY <1>1, Outdated, Zenon
<1>3. op' \in [Procs -> Op] /\ state' \in [Procs -> {"inactive", "active", "working"}]
  BY <1>1, <1>2, Zenon DEF Lose, Inv, TypeOK
<1> QED
  BY <1>1, <1>2, <1>3, ActivityKeeps, Zenon DEF Lose, Inv, TypeOK

\* Agree keeps the invariant: no row is touched.
LEMMA AgreeKeeps == ASSUME Inv, NEW p \in Procs, Agree(p) PROVE Inv'
<1>1. \A q \in Procs : op[q] \in Op /\ op'[q] \in {op[q], [op[q] EXCEPT !.live = FALSE]}
  BY Zenon DEF Agree, Inv, TypeOK
<1>2. \A q \in Procs :
        /\ op'[q] \in Op /\ op'[q].pc = op[q].pc /\ op'[q].st = op[q].st /\ op'[q].block = op[q].block
        /\ op'[q].tried = op[q].tried /\ op'[q].failed = op[q].failed
  BY <1>1, Outdated, ZenonT(40)
<1>3. op' \in [Procs -> Op]
  BY <1>2, Zenon DEF Agree
<1>4. state' \in [Procs -> {"inactive", "active", "working"}]
  BY Zenon DEF Agree, Inv, TypeOK
<1>5. views' \subseteq Blocks /\ views' # {} /\ UNCHANGED Database
  BY Zenon DEF Agree, Inv, TypeOK
<1> QED
  BY <1>2, <1>3, <1>4, <1>5, ActivityKeeps, Zenon

-----------------------------------------------------------------------------
(* The theorems *)

\* The invariant holds initially.
LEMMA InitInv == Init => Inv
<1> SUFFICES ASSUME Init PROVE Inv
  OBVIOUS
<1>1. ~NoRow.on /\ ~NoRow.enumerated /\ NoOp.pc = "idle"
  BY Zenon DEF NoRow, NoOp
<1>2. views # {}
  BY HeaderAssumption, Zenon DEF Init, HeaderAssumption
<1>3. TypeOK
  BY <1>2, NothingTyped, Zenon DEF Init, TypeOK
<1>4. \A p \in Procs : Mine(p)
  BY <1>1, Zenon DEF Init, Mine
<1> QED
  BY <1>1, <1>3, <1>4, Zenon DEF Init, Inv, Filled, RowParses, GapTracksWork, Counted

\* Every step keeps the invariant.
LEMMA NextInv == Inv /\ [Next]_vars => Inv'
<1> SUFFICES ASSUME Inv, [Next]_vars PROVE Inv'
  OBVIOUS
<1>1. ASSUME NEW p \in Procs, Work(p) PROVE Inv'
  BY <1>1, ProbeKeeps, ResetKeeps, SeedKeeps, PageKeeps, RecordKeeps, DeferKeeps, ConfirmKeeps,
     ConfirmedKeeps, RetriesKeeps, RetryKeeps, RetriedKeeps, FinalizeKeeps, Zenon DEF Work
<1>2. CASE UNCHANGED vars
  BY <1>2, Zenon
  DEF vars, Inv, TypeOK, Filled, RowParses, Proven, GapTracksWork, Counted, Mine, Fenced
<1> QED
  BY <1>1, <1>2, ObserveKeeps, RecoverKeeps, ActivateKeeps, LoseKeeps, AgreeKeeps, ComesDueKeeps, Zenon
  DEF Next

\* The inductive invariant holds.
THEOREM Invariance == Spec => []Inv
BY InitInv, NextInv, PTL DEF Spec

\* Every variable keeps its type.
THEOREM TypeCorrect == Spec => []TypeOK
<1>1. Inv => TypeOK
  BY Zenon DEF Inv
<1> QED
  BY <1>1, Invariance, PTL

\* parseState accepts the row in every reachable state, for any tree of headers
\* and any interleaving of workers, resets and observations.
THEOREM RowParsesHolds == Spec => []RowParses
<1>1. Inv => RowParses
  BY Zenon DEF Inv
<1> QED
  BY <1>1, Invariance, PTL

\* Once there is a checkpoint the gap is open exactly while there is a row.
THEOREM GapTracksWorkHolds == Spec => []GapTracksWork
<1>1. Inv => GapTracksWork
  BY Zenon DEF Inv
<1> QED
  BY <1>1, Invariance, PTL

\* Only finalize moves the checkpoint or removes a row.
LEMMA OnlyFinalize ==
  ASSUME Inv, Next, ~\E p \in Procs : Finalize(p)
  PROVE  ckpt' = ckpt /\ (row.on => row'.on)
<1>1. row \in Row
  BY Zenon DEF Inv, TypeOK
<1>2. ASSUME NEW p \in Procs, NEW b \in Blocks, Observe(p, b) PROVE ckpt' = ckpt /\ (row.on => row'.on)
  <2>1. ASSUME Coalesce(p, b), row.on PROVE row'.on
    BY <1>1, <2>1, Zenon DEF Coalesce, Row
  <2>2. ASSUME Retarget(p, b), row.on PROVE row'.on
    <3>1. CanAdvance /\ ckpt' = ckpt /\ (gap' = TRUE \/ ckpt = NoBlock)
      BY <1>2, Zenon DEF Observe, Inv, TypeOK
    <3> QED
      BY <2>2, <3>1, RetargetKeeps, Zenon
  <2> QED
    BY <1>2, <2>1, <2>2, Zenon DEF Observe
<1>3. ASSUME NEW p \in Procs, Recover(p) PROVE ckpt' = ckpt /\ (row.on => row'.on)
  BY <1>1, <1>3, Zenon DEF Recover, Row
<1>4. ASSUME NEW p \in Procs, Reset(p) PROVE ckpt' = ckpt /\ (row.on => row'.on)
  BY <1>1, <1>4, Zenon DEF Reset, Row
<1>5. ASSUME NEW p \in Procs, Seed(p) \/ Record(p) PROVE ckpt' = ckpt /\ (row.on => row'.on)
  BY <1>1, <1>5, Zenon DEF Seed, Record, RecordCursor, Row
<1>6. ASSUME NEW p \in Procs, Defer(p) PROVE ckpt' = ckpt /\ (row.on => row'.on)
  BY <1>1, <1>6, Zenon DEF Defer, Row
<1>7. ASSUME NEW p \in Procs, Confirmed(p) \/ Retried(p) PROVE ckpt' = ckpt /\ (row.on => row'.on)
  BY <1>1, <1>7, Zenon DEF Confirmed, Retried, Row
<1>8. ASSUME ComesDue PROVE ckpt' = ckpt /\ (row.on => row'.on)
  BY <1>1, <1>8, Zenon DEF ComesDue, Row
<1>9. ASSUME NEW p \in Procs, Probe(p) \/ Page(p) \/ Confirm(p) \/ Retries(p) \/ Retry(p)
                              \/ Activate(p) \/ Lose(p) \/ Agree(p)
      PROVE  ckpt' = ckpt /\ row' = row
  BY <1>9, Zenon DEF Probe, Page, Confirm, Retries, Retry, Refresh, Activate, Lose, Agree, Database
<1> QED
  BY <1>2, <1>3, <1>4, <1>5, <1>6, <1>7, <1>8, <1>9, Zenon DEF Next, Work

\* No header is promoted, and no row removed, before every wallet was refreshed
\* at that header, for any number of wallets, workers and failures.
THEOREM AllConfirmedHolds == Spec => AllConfirmed
<1>1. ASSUME Inv, [Next]_vars
      PROVE  [ckpt' # ckpt \/ (row.on /\ ~row'.on) => served = 1..Wallets]_vars
  <2>1. CASE UNCHANGED vars
    BY <2>1, Zenon DEF vars
  <2>2. ASSUME NEW p \in Procs, Finalize(p), ckpt' # ckpt \/ (row.on /\ ~row'.on)
        PROVE  served = 1..Wallets
    BY <1>1, <2>2, PromotedServed, Zenon DEF Finalize, Fenced
  <2> QED
    BY <1>1, <2>1, <2>2, OnlyFinalize, Zenon
<1> QED
  BY <1>1, Invariance, PTL DEF Spec, AllConfirmed

\* The row can be read and says whether there is work.
THEOREM RowSoundHolds == Spec => []RowSound
BY RowParsesHolds, GapTracksWorkHolds, PTL DEF RowSound

-----------------------------------------------------------------------------
(* The header that waits *)

\* A header that waits behind a proven target is dropped by a reset only, for
\* any number of workers and of headers observed meanwhile.
THEOREM WaitingKeptHolds == Spec => WaitingKept
<1> DEFINE Goal == row.pending # NoBlock /\ row'.pending = NoBlock =>
                     \/ row'.on /\ row'.target = row.pending
                     \/ row'.cursor = NoBlock /\ row'.target = row.target /\ row'.gen > row.gen
<1>1. ASSUME Inv, Next PROVE Goal
  <2>1. row \in Row /\ row.gen \in Nat /\ NoBlock \notin Blocks
    BY <1>1, HeaderAssumption, SMTT(30) DEF Inv, TypeOK, Row, HeaderAssumption
  <2>2. ASSUME NEW p \in Procs, NEW b \in Blocks, Observe(p, b) PROVE Goal
    <3>1. CASE ~row.on
      BY <1>1, <3>1, SMTT(30) DEF Inv, Filled, NoRow
    <3>2. CASE row.on /\ Coalesce(p, b)
      BY <2>1, <3>2, Zenon DEF Coalesce, Row
    <3>3. CASE row.on /\ Retarget(p, b) /\ row.pending # NoBlock
      <4>1. b = row.target
        BY <1>1, <3>3, Zenon DEF Retarget, Inv, RowParses
      <4>2. Compatible(b)
        BY <4>1, Zenon DEF Compatible
      <4>3. row'.pending = row.pending
        BY <2>1, <3>3, <4>2, Zenon DEF Retarget, Row
      <4> QED
        BY <4>3, Zenon
    <3> QED
      BY <2>2, <3>1, <3>2, <3>3, Zenon DEF Observe
  <2>3. ASSUME NEW p \in Procs, Recover(p) PROVE Goal
    BY <2>1, <2>3, Zenon DEF Recover, Row
  <2>4. ASSUME NEW p \in Procs, Reset(p) PROVE Goal
    <3>1. CASE row' = row
      BY <3>1, Zenon
    <3>2. CASE row' # row
      <4>1. row'.cursor = NoBlock /\ row'.target = row.target /\ row'.gen = row.gen + 1
        BY <2>1, <2>4, <3>2, Zenon DEF Reset, Row
      <4> QED
        BY <2>1, <4>1, SMTT(30)
    <3> QED
      BY <3>1, <3>2, Zenon
  <2>5. ASSUME NEW p \in Procs, Seed(p) \/ Record(p) PROVE Goal
    BY <2>1, <2>5, Zenon DEF Seed, Record, RecordCursor, Row
  <2>6. ASSUME NEW p \in Procs, Defer(p) PROVE Goal
    BY <2>1, <2>6, Zenon DEF Defer, Row
  <2>7. ASSUME NEW p \in Procs, Confirmed(p) \/ Retried(p) PROVE Goal
    BY <2>1, <2>7, Zenon DEF Confirmed, Retried, Row
  <2>8. CASE ComesDue
    BY <2>1, <2>8, Zenon DEF ComesDue, Row
  <2>9. ASSUME NEW p \in Procs, Finalize(p) PROVE Goal
    BY <2>1, <2>9, Zenon DEF Finalize, Promote, Continued, NoRow
  <2>10. ASSUME NEW p \in Procs, Probe(p) \/ Page(p) \/ Confirm(p) \/ Retries(p) \/ Retry(p)
                                 \/ Activate(p) \/ Lose(p) \/ Agree(p)
         PROVE  Goal
    BY <2>10, Zenon
    DEF Probe, Page, Confirm, Retries, Retry, Refresh, Activate, Lose, Agree, Database
  <2> QED
    BY <1>1, <2>2, <2>3, <2>4, <2>5, <2>6, <2>7, <2>8, <2>9, <2>10, Zenon DEF Next, Work
<1>2. ASSUME Inv, [Next]_vars PROVE [Goal]_vars
  BY <1>1, <1>2, Zenon
<1> QED
  BY <1>2, Invariance, PTL DEF Spec, WaitingKept

\* No wallet is passed over by a promotion, and no header by its successor.
THEOREM NothingSkippedHolds == Spec => NothingSkipped
BY AllConfirmedHolds, WaitingKeptHolds, Zenon DEF NothingSkipped

-----------------------------------------------------------------------------
(* Chains *)

\* The headers of a chain, and their heights.
LEMMA InChain ==
  ASSUME NEW b \in Blocks
  PROVE  /\ b \in Chain[b] /\ Genesis \in Chain[b] /\ Height[b] \in Nat
         /\ \A c \in Chain[b] : c \in Blocks /\ Height[c] \in Nat /\ Height[c] <= Height[b]
<1>1. b \in Chain[b] /\ Genesis \in Chain[b]
  BY ChainAssumption, Zenon DEF ChainAssumption
<1>2. Chain[b] \subseteq Blocks /\ \A c \in Blocks : Height[c] \in Nat
  BY HeaderAssumption, Zenon DEF HeaderAssumption
<1>3. \A c \in Chain[b] : Height[c] <= Height[b]
  BY <1>1, ChainAssumption, Zenon DEF ChainAssumption
<1> QED
  BY <1>1, <1>2, <1>3, Zenon

\* Of two headers of one chain the higher one extends the lower one.
LEMMA Lower ==
  ASSUME NEW b \in Blocks, NEW c \in Chain[b], NEW d \in Chain[b], Height[c] <= Height[d]
  PROVE  c \in Chain[d]
BY ChainAssumption, Zenon DEF ChainAssumption

\* A chain has one header at a height.
LEMMA OneAtHeight ==
  ASSUME NEW b \in Blocks, NEW c \in Chain[b], NEW d \in Chain[b], Height[c] = Height[d]
  PROVE  c = d
BY ChainAssumption, Zenon DEF ChainAssumption

\* What a header extends is extended by everything that extends it.
LEMMA Transitive ==
  ASSUME NEW b \in Blocks, NEW c \in Chain[b], NEW d \in Chain[c]
  PROVE  d \in Chain[b]
<1>1. c \in Blocks /\ d \in Blocks /\ Height[d] \in Nat /\ Height[c] \in Nat /\ Height[b] \in Nat
      /\ Height[d] <= Height[c] /\ Height[c] <= Height[b]
  BY InChain, Zenon
<1>2. Height[d] \in 0..Height[b]
  BY <1>1, SMTT(30)
<1>3. PICK e \in Chain[b] : Height[e] = Height[d]
  BY <1>2, ChainAssumption, Zenon DEF ChainAssumption
<1>4. e \in Chain[c]
  BY <1>1, <1>3, Lower, Zenon
<1>5. e = d
  BY <1>1, <1>3, <1>4, OneAtHeight, Zenon
<1> QED
  BY <1>5, Zenon

\* The headers that are staged when those from a up to c have been recorded.
Stretch(a, c) == {d \in Chain[c] : Height[d] >= Height[a] /\ Height[d] > Height[c] - Window}

\* The anchor alone.
LEMMA StretchStarts ==
  ASSUME NEW a \in Blocks
  PROVE  Kept({} \cup {a}, a) = Stretch(a, a)
<1>1. a \in Chain[a] /\ Height[a] \in Nat /\ Height[a] > Height[a] - Window
  BY InChain, HeaderAssumption, SMTT(30) DEF HeaderAssumption
<1>2. ASSUME NEW d \in Stretch(a, a) PROVE d = a
  <2>1. d \in Chain[a] /\ Height[d] >= Height[a]
    BY Zenon DEF Stretch
  <2>2. Height[d] = Height[a]
    BY <2>1, InChain, SMTT(30)
  <2> QED
    BY <1>1, <2>1, <2>2, OneAtHeight, Zenon
<1> QED
  BY <1>1, <1>2, SMTT(30) DEF Kept, Stretch

\* A page that extends the cursor extends the stretch.
LEMMA StretchGrows ==
  ASSUME NEW b \in Blocks, NEW c \in Chain[b], NEW a \in Chain[c]
  PROVE  a \in Chain[b] /\ Kept(Stretch(a, c) \cup Between(c, b), b) = Stretch(a, b)
<1>1. /\ c \in Blocks /\ a \in Blocks /\ Height[a] \in Nat /\ Height[b] \in Nat /\ Height[c] \in Nat
      /\ Height[a] <= Height[c] /\ Height[c] <= Height[b] /\ a \in Chain[b] /\ Window \in Nat
  BY InChain, Transitive, HeaderAssumption, Zenon DEF HeaderAssumption
<1>2. ASSUME NEW d \in Kept(Stretch(a, c) \cup Between(c, b), b) PROVE d \in Stretch(a, b)
  <2>1. CASE d \in Stretch(a, c)
    <3>1. d \in Chain[b]
      BY <2>1, Transitive, Zenon DEF Stretch
    <3> QED
      BY <2>1, <3>1, Zenon DEF Stretch, Kept
  <2>2. CASE d \in Between(c, b)
    <3>1. d \in Chain[b] /\ Height[d] > Height[c] /\ Height[d] \in Nat
      BY <2>2, InChain, Zenon DEF Between
    <3> QED
      BY <1>1, <3>1, SMTT(30) DEF Stretch, Kept
  <2> QED
    BY <2>1, <2>2, Zenon DEF Kept
<1>3. ASSUME NEW d \in Stretch(a, b) PROVE d \in Kept(Stretch(a, c) \cup Between(c, b), b)
  <2>1. d \in Chain[b] /\ d \in Blocks /\ Height[d] \in Nat /\ Height[d] >= Height[a]
        /\ Height[d] > Height[b] - Window
    BY InChain, Zenon DEF Stretch
  <2>2. CASE Height[d] > Height[c]
    BY <2>1, <2>2, Zenon DEF Kept, Between
  <2>3. CASE Height[d] <= Height[c]
    <3>1. d \in Chain[c]
      BY <2>1, <2>3, Lower, Zenon
    <3>2. Height[d] > Height[c] - Window
      BY <1>1, <2>1, SMTT(30)
    <3> QED
      BY <2>1, <3>1, <3>2, Zenon DEF Kept, Stretch
  <2> QED
    BY <1>1, <2>1, <2>2, <2>3, SMTT(30)
<1> QED
  BY <1>1, <1>2, <1>3, Zenon

\* The history is an unbroken piece of the chain of c that ends in it.
Piece(h, c) == h \subseteq Chain[c] /\ c \in h /\ \A b \in h : Between(b, c) \subseteq h

\* A promotion replaces the end of the history by the staged stretch, which
\* starts in the history, at Genesis, or where the window does.
LEMMA PieceMoves ==
  ASSUME NEW h \in SUBSET Blocks, NEW a \in h \cup {Genesis}, NEW t \in Blocks, a \in Chain[t],
         h = {} \/ \E c \in Blocks : Piece(h, c)
  PROVE  Piece({b \in Kept(h, t) : Height[b] <= Height[t]
                                   /\ \A c \in Stretch(a, t) : Height[c] # Height[b]}
               \cup Stretch(a, t), t)
<1> DEFINE S == Stretch(a, t)
           old == {b \in Kept(h, t) : Height[b] <= Height[t] /\ \A c \in S : Height[c] # Height[b]}
<1>1. /\ a \in Blocks /\ Height[a] \in Nat /\ Height[t] \in Nat /\ Height[a] <= Height[t]
      /\ t \in Chain[t] /\ Window \in Nat \ {0} /\ Height[Genesis] = 0
  BY InChain, HeaderAssumption, Zenon DEF HeaderAssumption
<1>2. t \in S
  BY <1>1, SMTT(30) DEF Stretch
<1>3. ASSUME NEW b \in old
      PROVE  /\ b \in h /\ b \in Blocks /\ Height[b] \in Nat
             /\ Height[b] > Height[t] - Window /\ Height[b] < Height[a]
  <2>1. b \in h /\ b \in Blocks /\ Height[b] > Height[t] - Window /\ Height[b] <= Height[t]
        /\ Height[b] \in Nat
    BY InChain, Zenon DEF Kept
  <2>2. Height[b] < Height[a]
    <3> SUFFICES ASSUME Height[b] >= Height[a] PROVE FALSE
      BY <1>1, <2>1, SMTT(30)
    <3>1. Height[b] \in 0..Height[t]
      BY <1>1, <2>1, SMTT(30)
    <3>2. PICK e \in Chain[t] : Height[e] = Height[b]
      BY <3>1, ChainAssumption, Zenon DEF ChainAssumption
    <3>3. e \in S
      BY <2>1, <3>2, Zenon DEF Stretch
    <3> QED
      BY <3>2, <3>3, Zenon
  <2> QED
    BY <2>1, <2>2, Zenon
<1>4. ASSUME NEW b \in old
      PROVE  b \in Chain[t] /\ Between(b, t) \subseteq old \cup S
  <2>1. /\ b \in h /\ b \in Blocks /\ Height[b] \in Nat
        /\ Height[b] > Height[t] - Window /\ Height[b] < Height[a]
    BY <1>3, Zenon
  <2>2. a \in h
    BY <1>1, <2>1, SMTT(30)
  <2>3. PICK c \in Blocks : Piece(h, c)
    BY <2>1, Zenon
  <2>4. a \in Chain[c] /\ b \in Chain[c]
    BY <2>1, <2>2, <2>3, Zenon DEF Piece
  <2>5. b \in Chain[a]
    BY <1>1, <2>1, <2>4, Lower, SMTT(30)
  <2>6. b \in Chain[t]
    BY <2>5, Transitive, Zenon
  <2>7. ASSUME NEW d \in Between(b, t) PROVE d \in old \cup S
    <3>1. d \in Chain[t] /\ d \in Blocks /\ Height[d] > Height[b] /\ Height[d] \in Nat
          /\ Height[d] <= Height[t] /\ Height[d] > Height[t] - Window
      <4>1. d \in Chain[t] /\ d \in Blocks /\ Height[d] > Height[b]
        BY Zenon DEF Between
      <4>2. Height[d] \in Nat /\ Height[d] <= Height[t]
        BY <4>1, InChain, Zenon
      <4> QED
        BY <1>1, <2>1, <4>1, <4>2, SMTT(30)
    <3>2. CASE Height[d] >= Height[a]
      BY <3>1, <3>2, Zenon DEF Stretch
    <3>3. CASE Height[d] < Height[a]
      <4>1. d \in Chain[a]
        BY <1>1, <3>1, <3>3, Lower, SMTT(30)
      <4>2. d \in Chain[c]
        BY <2>4, <4>1, Transitive, Zenon
      <4>3. d \in h
        BY <2>1, <2>3, <3>1, <4>2, Zenon DEF Piece, Between
      <4>4. \A e \in S : Height[e] # Height[d]
        BY <1>1, <3>1, <3>3, InChain, SMTT(30) DEF Stretch
      <4> QED
        BY <3>1, <4>3, <4>4, Zenon DEF Kept
    <3> QED
      BY <1>1, <3>1, <3>2, <3>3, SMTT(30)
  <2> QED
    BY <2>6, <2>7, Zenon
<1>5. ASSUME NEW b \in S PROVE b \in Chain[t] /\ Between(b, t) \subseteq S
  <2>1. b \in Chain[t] /\ Height[b] \in Nat /\ Height[b] >= Height[a] /\ Height[b] > Height[t] - Window
    BY InChain, Zenon DEF Stretch
  <2>2. ASSUME NEW d \in Between(b, t) PROVE d \in S
    <3>1. d \in Chain[t] /\ Height[d] > Height[b]
      BY Zenon DEF Between
    <3>2. Height[d] \in Nat
      BY <3>1, InChain, Zenon
    <3> QED
      BY <1>1, <2>1, <3>1, <3>2, SMTT(30) DEF Stretch
  <2> QED
    BY <2>1, <2>2, Zenon
<1> HIDE DEF S, old
<1>6. Piece(old \cup S, t)
  BY <1>2, <1>4, <1>5, Zenon DEF Piece
<1> QED
  BY <1>6, Zenon DEF S, old

-----------------------------------------------------------------------------
(* What is recorded is one chain *)

\* What is staged leads from the anchor to the cursor, and the anchor is trusted.
Linked ==
  /\ ~row.on \/ row.cursor = NoBlock => staged = {}
  /\ row.on /\ row.cursor # NoBlock =>
       row.anchor \in Chain[row.cursor] /\ staged = Stretch(row.anchor, row.cursor)
  /\ row.on => row.anchor \in history \cup {Genesis}

Rooted == IF ckpt = NoBlock THEN history = {} ELSE Piece(history, ckpt)

\* What an operation has read: a page extends the cursor, and while its fence
\* holds the anchor is its own and a reset goes back to a trusted header.
Reads(p) ==
  LET k == op[p] IN
  k.pc # "idle" =>
    /\ k.st.cursor # NoBlock =>
         k.st.cursor = k.st.target \/ Height[k.st.cursor] < Height[k.st.target]
    /\ k.pc \in {"page", "record"} => k.st.cursor # NoBlock
    /\ k.pc = "record" => k.st.cursor \in Chain[k.block]
    /\ Fenced(p) => /\ row.anchor = k.st.anchor
                    /\ k.pc = "reset" => k.block \in history \cup {Genesis}

\* Inductive together with Inv.
Chained == Linked /\ Rooted /\ \A p \in Procs : Reads(p)

\* The part of the database that Chained speaks of stays as it is.
Same ==
  /\ row'.on <=> row.on
  /\ row'.gen = row.gen /\ row'.owner = row.owner
  /\ row'.anchor = row.anchor /\ row'.cursor = row.cursor
  /\ UNCHANGED <<ckpt, history, staged>>

Others(p) == \A q \in Procs \ {p} : op'[q] = op[q]

\* The workers that do not move keep what they have read.
LEMMA OthersRead ==
  ASSUME Inv, Chained, NEW p \in Procs, Same \/ Takes(p), Others(p)
  PROVE  \A q \in Procs \ {p} : Reads(q)'
<1> SUFFICES ASSUME NEW q \in Procs \ {p}, op[q].pc # "idle" PROVE Reads(q)'
  BY Zenon DEF Others, Reads
<1>1. op'[q] = op[q] /\ Reads(q) /\ op[q].st.owner = q
  BY Zenon DEF Inv, Mine, Chained, Others
<1>2. CASE Takes(p)
  <2>1. ~Fenced(q)'
    BY <1>1, <1>2, Zenon DEF Takes, Fenced
  <2> QED
    BY <1>1, <2>1, Zenon DEF Reads
<1>3. CASE Same
  <2>1. Fenced(q)' => Fenced(q)
    BY <1>1, <1>3, Zenon DEF Same, Fenced
  <2> QED
    BY <1>1, <1>3, <2>1, Zenon DEF Reads, Same
<1> QED
  BY <1>2, <1>3, Zenon

\* A step of p that leaves what is recorded alone.
LEMMA ChainedSame ==
  ASSUME Inv, Chained, NEW p \in Procs, Same, Others(p), Reads(p)'
  PROVE  Chained'
<1>1. Linked' /\ Rooted'
  BY Zenon DEF Chained, Linked, Rooted, Same
<1> QED
  BY <1>1, OthersRead, Zenon DEF Chained

\* A step of p that takes the row.
LEMMA ChainedTakes ==
  ASSUME Inv, Chained, NEW p \in Procs, Takes(p), Others(p), Reads(p)', Linked', Rooted'
  PROVE  Chained'
BY OthersRead, Zenon DEF Chained

\* An operation that is over has read nothing.
LEMMA EndReads ==
  ASSUME Inv, NEW p \in Procs, End(p)
  PROVE  Reads(p)' /\ Others(p)
<1>1. op'[p] = NoOp /\ Others(p)
  BY Zenon DEF End, Inv, TypeOK, Others
<1> QED
  BY <1>1, SMTT(30) DEF Reads, NoOp

\* An operation that goes on with what it has read.
LEMMA GoReads ==
  ASSUME Inv, Chained, NEW p \in Procs, NEW step, Go(p, step), Same, op[p].pc # "idle",
         step \notin {"record", "reset"}, step = "page" => op[p].st.cursor # NoBlock
  PROVE  Reads(p)' /\ Others(p)
<1>1. op[p] \in Op /\ op'[p] = [op[p] EXCEPT !.pc = step] /\ Others(p)
  BY Zenon DEF Go, Inv, TypeOK, Others
<1>2. op'[p].pc = step /\ op'[p].st = op[p].st
  BY <1>1, Zenon DEF Op
<1>3. Fenced(p)' => Fenced(p)
  BY <1>2, Zenon DEF Fenced, Same
<1> QED
  BY <1>1, <1>2, <1>3, Zenon DEF Reads, Chained, Same

\* An operation that goes back to a header that is trusted.
LEMMA ResetReads ==
  ASSUME Inv, Chained, NEW p \in Procs, NEW m, NEW b \in history \cup {Genesis}, ResetTo(p, m, b), Same,
         op[p].pc # "idle"
  PROVE  Reads(p)' /\ Others(p)
<1>1. op[p] \in Op /\ op'[p] = [op[p] EXCEPT !.pc = "reset", !.mode = m, !.block = b] /\ Others(p)
  BY Zenon DEF ResetTo, Inv, TypeOK, Others
<1>2. op'[p].pc = "reset" /\ op'[p].st = op[p].st /\ op'[p].block = b
  BY <1>1, Zenon DEF Op
<1>3. Fenced(p)' => Fenced(p)
  BY <1>2, Zenon DEF Fenced, Same
<1> QED
  BY <1>1, <1>2, <1>3, Zenon DEF Reads, Chained, Same

\* An operation that has read the row as it is now.
LEMMA FreshReads ==
  ASSUME Inv, Inv', NEW p \in Procs, row'.on, op'[p].st = row', op'[p].pc \notin {"record", "reset"},
         op'[p].pc = "page" => row'.cursor # NoBlock
  PROVE  Reads(p)'
<1>1. row'.cursor # NoBlock => row'.cursor = row'.target \/ Height[row'.cursor] < Height[row'.target]
  BY Zenon DEF Inv, RowParses, Proven
<1> QED
  BY <1>1, Zenon DEF Reads

\* A probe records nothing; it goes back to a header of the history or Genesis.
LEMMA ProbeChains == ASSUME Inv, Chained, NEW p \in Procs, Probe(p) PROVE Chained'
<1>1. op[p].pc # "idle" /\ Same
  BY Zenon DEF Probe, Database, Same
<1>2. ASSUME NEW t \in views, Search(p, t) PROVE Reads(p)' /\ Others(p)
  <2> DEFINE common == {b \in history : Height[b] <= Height[op[p].st.target]} \cap Chain[t]
  <2>1. \/ Go(p, "defer")
        \/ ResetTo(p, "genesis_rebuild", Genesis)
        \/ \E b \in Highest(common) : ResetTo(p, "forward", b)
    BY <1>2, Zenon DEF Search
  <2>2. Highest(common) \subseteq history
    BY Zenon DEF Highest
  <2> HIDE DEF common
  <2> QED
    BY <1>1, <2>1, <2>2, GoReads, ResetReads, Zenon
<1>3. ASSUME NEW t \in views, Revalidate(p, t) PROVE Reads(p)' /\ Others(p)
  <2> DEFINE st == op[p].st
  <2>1. CASE ResetTo(p, "ancestor_search", Genesis)
    BY <1>1, <2>1, ResetReads, Zenon
  <2>2. CASE st.cursor = NoBlock /\ Go(p, "seed")
    BY <1>1, <2>2, GoReads, Zenon
  <2>3. CASE st.cursor # NoBlock /\ Go(p, Onward(st, FALSE))
    BY <1>1, <2>3, OnwardStep, GoReads, Zenon
  <2>4. CASE Go(p, "defer")
    BY <1>1, <2>4, GoReads, Zenon
  <2> QED
    BY <1>3, <2>1, <2>2, <2>3, <2>4, Zenon DEF Revalidate
<1>4. Reads(p)' /\ Others(p)
  BY <1>1, <1>2, <1>3, EndReads, GoReads, Zenon DEF Probe, Displaced
<1> QED
  BY <1>1, <1>4, ChainedSame, Zenon

\* A reset starts again at a header that is trusted.
LEMMA ResetChains == ASSUME Inv, Inv', Chained, NEW p \in Procs, Reset(p) PROVE Chained'
<1>1. op[p].pc = "reset" /\ End(p) /\ UNCHANGED <<ckpt, history>> /\ row \in Row
  BY Zenon DEF Reset, Inv, TypeOK
<1>2. CASE ~Fenced(p) /\ UNCHANGED <<row, staged>>
  BY <1>1, <1>2, EndReads, ChainedSame, Zenon DEF Same
<1>3. CASE /\ Fenced(p) /\ staged' = {}
           /\ row' = [row EXCEPT !.gen = @ + 1, !.mode = op[p].mode, !.anchor = op[p].block,
                                 !.cursor = NoBlock, !.page = 0, !.enumerated = FALSE,
                                 !.pending = NoBlock, !.backoff = FALSE]
  <2>1. op[p].block \in history \cup {Genesis} /\ row.owner = p
    BY <1>1, <1>3, Zenon DEF Chained, Reads, Inv, Mine, Fenced
  <2>2. row'.cursor = NoBlock /\ row'.anchor = op[p].block /\ row'.owner = row.owner
    BY <1>1, <1>3, Zenon DEF Row
  <2>3. Linked' /\ Rooted' /\ Takes(p)
    BY <1>1, <1>3, <2>1, <2>2, Zenon DEF Linked, Rooted, Chained, Takes
  <2> QED
    BY <1>1, <2>3, EndReads, ChainedTakes, Zenon
<1> QED
  BY <1>2, <1>3, Zenon DEF Reset

\* A page that was fetched extends the cursor it was fetched for.
LEMMA PageChains == ASSUME Inv, Chained, NEW p \in Procs, Page(p) PROVE Chained'
<1> DEFINE st == op[p].st
           top == Least(Height[st.cursor] + PageSize, Height[st.target])
<1>1. op[p].pc = "page" /\ Same /\ op[p] \in Op
  BY Zenon DEF Page, Database, Same, Inv, TypeOK
<1>2. CASE Displaced(p) \/ Go(p, "defer")
  BY <1>1, <1>2, EndReads, GoReads, ChainedSame, Zenon DEF Displaced
<1>3. ASSUME NEW t \in views, NEW b \in Blocks, b \in Chain[t], Height[b] = top, st.cursor \in Chain[t],
             op' = [op EXCEPT ![p].pc = "record", ![p].block = b]
      PROVE  Chained'
  <2>1. /\ t \in Blocks /\ st.cursor # NoBlock /\ st.cursor # st.target /\ st.target \in Blocks
        /\ st.cursor \in Blocks
    BY <1>1, <1>3, InChain, Zenon DEF Inv, Mine, TypeOK, Chained, Reads
  <2>2. Height[st.cursor] < Height[st.target] /\ Height[st.cursor] \in Nat /\ Height[st.target] \in Nat
    BY <1>1, <2>1, InChain, Zenon DEF Chained, Reads
  <2>3. Height[st.cursor] <= Height[b]
    BY <1>3, <2>2, HeaderAssumption, SMTT(30) DEF HeaderAssumption, Least
  <2>4. st.cursor \in Chain[b]
    BY <1>3, <2>1, <2>3, Lower, Zenon
  <2>5. op'[p] = [op[p] EXCEPT !.pc = "record", !.block = b] /\ Others(p)
    BY <1>3, Zenon DEF Inv, TypeOK, Others
  <2>6. op'[p].pc = "record" /\ op'[p].st = op[p].st /\ op'[p].block = b
    BY <1>1, <2>5, Zenon DEF Op
  <2>7. Fenced(p)' => Fenced(p)
    BY <1>1, <2>6, Zenon DEF Fenced, Same
  <2>8. Reads(p)'
    BY <1>1, <2>1, <2>4, <2>6, <2>7, Zenon DEF Reads, Chained, Same
  <2> QED
    BY <1>1, <2>5, <2>8, ChainedSame, Zenon
<1> QED
  BY <1>2, <1>3, Zenon DEF Page

\* What is recorded extends what is staged.
LEMMA RecordCursorChains ==
  ASSUME Inv, Inv', Chained, NEW p \in Procs, NEW b \in Blocks, NEW headers, NEW a \in BOOLEAN,
         op[p].pc \in {"seed", "record"}, RecordCursor(p, headers, b, a),
         row.on /\ row.cursor = op[p].st.cursor /\ row.anchor = op[p].st.anchor =>
           row.anchor \in Chain[b] /\ Kept(staged \cup headers, b) = Stretch(row.anchor, b)
  PROVE  Chained'
<1> DEFINE records == Fenced(p) /\ row.cursor = op[p].st.cursor /\ Reaches(b)
                      /\ \A c \in staged, d \in headers : Height[c] = Height[d] => c = d
<1>1. CASE ~records
  <2>1. End(p) /\ Same
    BY <1>1, Zenon DEF RecordCursor, Same
  <2> QED
    BY <2>1, EndReads, ChainedSame, Zenon
<1>2. CASE records
  <2>1. /\ row' = [row EXCEPT !.mode = "forward", !.cursor = b, !.backoff = FALSE]
        /\ staged' = Kept(staged \cup headers, b)
        /\ op' = [op EXCEPT ![p] = IF Onward(row', a) = "idle" THEN NoOp
                                   ELSE [@ EXCEPT !.pc = Onward(row', a), !.st = row', !.block = NoBlock]]
        /\ UNCHANGED <<ckpt, history>>
    BY <1>2, Zenon DEF RecordCursor
  <2>2. row \in Row /\ row.on /\ row.owner = p /\ row.anchor = op[p].st.anchor /\ op[p] \in Op
    BY <1>2, Zenon DEF Inv, TypeOK, Fenced, Mine, Chained, Reads
  <2>3. row'.on /\ row'.owner = p /\ row'.anchor = row.anchor /\ row'.cursor = b
    BY <2>1, <2>2, Zenon DEF Row
  <2>4. b # NoBlock
    BY HeaderAssumption, Zenon DEF HeaderAssumption
  <2>5. Linked' /\ Rooted' /\ Takes(p)
    BY <1>2, <2>1, <2>2, <2>3, <2>4, Zenon DEF Linked, Rooted, Chained, Takes
  <2>6. Reads(p)' /\ Others(p)
    <3>1. CASE Onward(row', a) = "idle"
      <4>1. End(p)
        BY <2>1, <3>1, Zenon DEF End
      <4> QED
        BY <4>1, EndReads, Zenon
    <3>2. CASE Onward(row', a) # "idle"
      <4>1. /\ op'[p] = [op[p] EXCEPT !.pc = Onward(row', a), !.st = row', !.block = NoBlock]
            /\ Others(p)
        BY <2>1, <3>2, Zenon DEF Inv, TypeOK, Others
      <4>2. op'[p].st = row' /\ op'[p].pc = Onward(row', a)
        BY <2>2, <4>1, Zenon DEF Op
      <4>3. op'[p].pc \notin {"record", "reset"}
        BY <4>2, OnwardStep, Zenon
      <4> QED
        BY <2>3, <2>4, <4>1, <4>2, <4>3, FreshReads, Zenon
    <3> QED
      BY <3>1, <3>2, Zenon
  <2> QED
    BY <2>5, <2>6, ChainedTakes, Zenon
<1> QED
  BY <1>1, <1>2, Zenon

\* Seed stages the anchor.
LEMMA SeedChains == ASSUME Inv, Inv', Chained, NEW p \in Procs, Seed(p) PROVE Chained'
<1> DEFINE a == op[p].st.anchor
<1>1. op[p].pc = "seed" /\ RecordCursor(p, {a}, a, FALSE) /\ a \in Blocks /\ op[p].st.cursor = NoBlock
  BY Zenon DEF Seed, Inv, Mine
<1>2. row.cursor = NoBlock => staged = {}
  BY Zenon DEF Chained, Linked
<1>3. row.on /\ row.cursor = op[p].st.cursor /\ row.anchor = op[p].st.anchor =>
        row.anchor \in Chain[a] /\ Kept(staged \cup {a}, a) = Stretch(row.anchor, a)
  BY <1>1, <1>2, StretchStarts, InChain, Zenon
<1> QED
  BY <1>1, <1>3, RecordCursorChains, Zenon

\* Record stages the page.
LEMMA RecordChains == ASSUME Inv, Inv', Chained, NEW p \in Procs, Record(p) PROVE Chained'
<1> DEFINE b == op[p].block
           c == op[p].st.cursor
<1>1. /\ op[p].pc = "record" /\ RecordCursor(p, Between(c, b), b, TRUE) /\ b \in Blocks
      /\ c # NoBlock /\ c \in Chain[b]
  BY Zenon DEF Record, Inv, Mine, Chained, Reads
<1>2. row.on /\ row.cursor = c =>
        row.anchor \in Chain[c] /\ staged = Stretch(row.anchor, c)
  BY <1>1, Zenon DEF Chained, Linked
<1>3. row.on /\ row.cursor = op[p].st.cursor /\ row.anchor = op[p].st.anchor =>
        row.anchor \in Chain[b] /\ Kept(staged \cup Between(c, b), b) = Stretch(row.anchor, b)
  BY <1>1, <1>2, StretchGrows, Zenon
<1> QED
  BY <1>1, <1>3, RecordCursorChains, Zenon

\* A result that is recorded in the row of p.
LEMMA RecordedChains ==
  ASSUME Inv, Inv', Chained, NEW p \in Procs, Recorded(p), row'.on, Same
  PROVE  Chained'
<1>1. CASE End(p)
  BY <1>1, EndReads, ChainedSame, Zenon
<1>2. CASE op' = [op EXCEPT ![p] = [@ EXCEPT !.pc = "defer", !.st = row', !.tried = {}, !.failed = {}]]
  <2>1. /\ op'[p] = [op[p] EXCEPT !.pc = "defer", !.st = row', !.tried = {}, !.failed = {}]
        /\ Others(p) /\ op[p] \in Op
    BY <1>2, Zenon DEF Inv, TypeOK, Others
  <2>2. op'[p].pc = "defer" /\ op'[p].st = row'
    BY <2>1, ZenonT(40) DEF Op
  <2>3. Reads(p)'
    BY <2>2, FreshReads, Zenon
  <2> QED
    BY <2>1, <2>3, ChainedSame, Zenon
<1> QED
  BY <1>1, <1>2, Zenon DEF Recorded

\* Confirmations, retries and waits touch no header.
LEMMA ConfirmationChains ==
  ASSUME Inv, Inv', Chained, NEW p \in Procs,
         Defer(p) \/ Confirm(p) \/ Confirmed(p) \/ Retries(p) \/ Retry(p) \/ Retried(p)
  PROVE  Chained'
<1>1. row \in Row /\ op[p] \in Op
  BY Zenon DEF Inv, TypeOK
<1>2. CASE Defer(p)
  <2>1. End(p) /\ Same
    BY <1>1, <1>2, Zenon DEF Defer, Same, Row
  <2> QED
    BY <2>1, EndReads, ChainedSame, Zenon
<1>3. CASE Confirmed(p) \/ Retried(p)
  <2>1. Same
    BY <1>1, <1>3, ZenonT(40) DEF Confirmed, Retried, Same, Row
  <2>2. CASE Fenced(p) /\ Recorded(p)
    BY <2>1, <2>2, RecordedChains, Zenon DEF Fenced, Same
  <2>3. CASE End(p)
    BY <2>1, <2>3, EndReads, ChainedSame, Zenon
  <2> QED
    BY <1>3, <2>2, <2>3, Zenon DEF Confirmed, Retried
<1>4. ASSUME NEW step \in {"confirmed", "retried", "retry"}, NEW tried, NEW failed, Same, op[p].pc # "idle",
             op' = [op EXCEPT ![p].pc = step, ![p].tried = tried, ![p].failed = failed]
             \/ op' = [op EXCEPT ![p].pc = step, ![p].tried = tried]
      PROVE  Chained'
  <2>1. op'[p].pc = step /\ op'[p].st = op[p].st /\ Others(p)
    BY <1>1, <1>4, SMTT(30) DEF Inv, TypeOK, Op, Others
  <2>2. Fenced(p)' => Fenced(p)
    BY <1>4, <2>1, Zenon DEF Fenced, Same
  <2>3. Reads(p)'
    BY <1>4, <2>1, <2>2, Zenon DEF Reads, Chained, Same
  <2> QED
    BY <1>4, <2>1, <2>3, ChainedSame, Zenon
<1>5. ASSUME NEW tried, NEW step \in {"confirmed", "retried"}, Refresh(p, tried, step), op[p].pc # "idle"
      PROVE  Chained'
  <2>1. Same
    BY <1>5, Zenon DEF Refresh, Same
  <2> QED
    BY <1>4, <1>5, <2>1, EndReads, GoReads, ChainedSame, Zenon DEF Refresh, Displaced
<1>6. CASE Confirm(p) \/ Retry(p)
  BY <1>5, <1>6, Zenon DEF Confirm, Retry
<1>7. CASE Retries(p)
  <2>1. Same /\ op[p].pc # "idle"
    BY <1>7, Zenon DEF Retries, Same, Database
  <2> QED
    BY <1>4, <1>7, <2>1, EndReads, GoReads, ChainedSame, Zenon DEF Retries
<1> QED
  BY <1>2, <1>3, <1>6, <1>7, Zenon

\* A promotion joins the staged stretch to the history.
LEMMA FinalizeChains == ASSUME Inv, Inv', Chained, NEW p \in Procs, Finalize(p) PROVE Chained'
<1>1. End(p) /\ op[p].pc = "finalize"
  BY Zenon DEF Finalize
<1>2. CASE UNCHANGED <<ckpt, gap, history, row, staged, served>>
  BY <1>1, <1>2, EndReads, ChainedSame, Zenon DEF Same
<1>3. CASE Fenced(p) /\ Proven(row) /\ Promote
  <2>1. /\ row.on /\ row.owner = p /\ row.target \in Blocks /\ row.cursor = row.target
        /\ row.cursor # NoBlock /\ history \subseteq Blocks
    <3>0. op[p].st.owner = p
      BY <1>1, Zenon DEF Inv, Mine
    <3>1. row.on /\ row.owner = p /\ row.cursor = row.target
      BY <1>3, <3>0, Zenon DEF Fenced, Proven
    <3>2. row.target \in Blocks
      BY <3>1, Zenon DEF Inv, Filled
    <3>3. NoBlock \notin Blocks
      BY HeaderAssumption, Zenon DEF HeaderAssumption
    <3>4. history \subseteq Blocks
      BY Zenon DEF Inv, TypeOK
    <3> QED
      BY <3>1, <3>2, <3>3, <3>4, Zenon
  <2>2. /\ row.anchor \in Chain[row.target] /\ staged = Stretch(row.anchor, row.target)
        /\ row.anchor \in history \cup {Genesis}
    BY <2>1, Zenon DEF Chained, Linked
  <2>3. history = {} \/ \E c \in Blocks : Piece(history, c)
    BY Zenon DEF Chained, Rooted, Inv, TypeOK
  <2>4. /\ ckpt' = row.target /\ staged' = {}
        /\ history' = {b \in Kept(history, row.target) :
                         Height[b] <= Height[row.target] /\ \A c \in staged : Height[c] # Height[b]}
                      \cup staged
    BY <1>3, Zenon DEF Promote
  <2>5. Piece(history', row.target)
    <3> DEFINE S == Stretch(row.anchor, row.target)
               h == {b \in Kept(history, row.target) :
                       Height[b] <= Height[row.target] /\ \A c \in S : Height[c] # Height[b]} \cup S
    <3>1. Piece(h, row.target)
      BY <2>1, <2>2, <2>3, PieceMoves, Zenon
    <3>2. history' = h
      BY <2>2, <2>4, Zenon
    <3> HIDE DEF h
    <3> QED
      BY <3>1, <3>2, Zenon
  <2>6. Rooted'
    BY <2>1, <2>4, <2>5, Zenon DEF Rooted
  <2>7. row.target \in history'
    BY <2>5, Zenon DEF Piece
  <2>8. CASE row' = NoRow
    <3>1. ~row'.on
      BY <2>8, Zenon DEF NoRow
    <3> QED
      BY <1>1, <2>4, <2>6, <3>1, EndReads, ChainedTakes, Zenon DEF Linked, Takes
  <2>9. CASE row' = Continued
    <3>1. /\ row'.owner = p /\ row'.cursor = NoBlock
          /\ row'.anchor = InitialMode(row.target, row.pending).anchor
      BY <2>1, <2>9, Zenon DEF Continued, NoRow
    <3>2. row'.anchor \in history' \cup {Genesis}
      BY <2>7, <3>1, Zenon DEF InitialMode
    <3> QED
      BY <1>1, <2>4, <2>6, <3>1, <3>2, EndReads, ChainedTakes, Zenon DEF Linked, Takes
  <2> QED
    BY <1>3, <2>8, <2>9, Zenon DEF Promote
<1> QED
  BY <1>2, <1>3, Zenon DEF Finalize

\* An operation that starts with the row as it is now.
LEMMA BeginsChains ==
  ASSUME Inv, Inv', Chained, NEW p \in Procs, row'.on, row'.owner = p,
         op' = [op EXCEPT ![p] = Attempt(p, row')] \/ End(p), Linked', UNCHANGED <<ckpt, history>>
  PROVE  Chained'
<1>1. Takes(p) /\ Rooted'
  BY Zenon DEF Takes, Chained, Rooted
<1>2. CASE End(p)
  BY <1>1, <1>2, EndReads, ChainedTakes, Zenon
<1>3. CASE op' = [op EXCEPT ![p] = Attempt(p, row')]
  <2>1. op'[p] = [NoOp EXCEPT !.pc = "probe", !.live = TRUE, !.st = row'] /\ Others(p)
    BY <1>3, Zenon DEF Inv, TypeOK, Attempt, Others
  <2>2. op'[p].pc = "probe" /\ op'[p].st = row'
    BY <2>1, SMTT(30) DEF NoOp
  <2>3. Reads(p)'
    BY <2>2, FreshReads, Zenon
  <2> QED
    BY <1>1, <2>1, <2>3, ChainedTakes, Zenon
<1> QED
  BY <1>2, <1>3, Zenon

\* Where a proof starts is trusted.
LEMMA InitialAnchor ==
  ASSUME Chained, NEW b
  PROVE  InitialMode(ckpt, b).anchor \in history \cup {Genesis}
BY Zenon DEF Chained, Rooted, Piece, InitialMode

\* A claim of the row.
LEMMA RecoverChains == ASSUME Inv, Inv', Chained, NEW p \in Procs, Recover(p) PROVE Chained'
<1>1. /\ row'.on /\ row'.owner = p /\ row'.anchor = row.anchor /\ row'.cursor = row.cursor
      /\ UNCHANGED <<ckpt, history, staged>> /\ row.on
  BY Zenon DEF Recover, Inv, TypeOK, Row
<1>2. Linked'
  BY <1>1, Zenon DEF Chained, Linked
<1> QED
  BY <1>1, <1>2, BeginsChains, Zenon DEF Recover

\* An observation keeps what is staged under its cursor, or starts again.
LEMMA ObserveChains ==
  ASSUME Inv, Inv', Chained, NEW p \in Procs, NEW b \in Blocks, Observe(p, b)
  PROVE  Chained'
<1>1. row \in Row /\ UNCHANGED <<ckpt, history>>
  BY Zenon DEF Observe, Inv, TypeOK
<1>2. op' = [op EXCEPT ![p] = Attempt(p, row')] \/ End(p)
  BY Zenon DEF Observe, End
<1>3. CASE row.on /\ Coalesce(p, b)
  <2>1. /\ row'.on /\ row'.owner = p /\ row'.anchor = row.anchor /\ row'.cursor = row.cursor
        /\ staged' = staged
    BY <1>1, <1>3, Zenon DEF Coalesce, Row
  <2>2. Linked'
    BY <1>1, <1>3, <2>1, Zenon DEF Chained, Linked
  <2> QED
    BY <1>1, <1>2, <2>1, <2>2, BeginsChains, Zenon
<1>4. CASE row.on /\ Retarget(p, b)
  <2>1. row'.on /\ row'.owner = p
    BY <1>1, <1>4, Zenon DEF Retarget, Row
  <2>2. CASE Compatible(b)
    <3>1. row'.anchor = row.anchor /\ row'.cursor = row.cursor /\ staged' = staged
      BY <1>1, <1>4, <2>2, Zenon DEF Retarget, Row
    <3>2. Linked'
      BY <1>1, <1>4, <2>1, <3>1, Zenon DEF Chained, Linked
    <3> QED
      BY <1>1, <1>2, <2>1, <3>2, BeginsChains, Zenon
  <2>3. CASE ~Compatible(b)
    <3>1. row'.anchor = InitialMode(ckpt, b).anchor /\ row'.cursor = NoBlock /\ staged' = {}
      BY <1>1, <1>4, <2>3, Zenon DEF Retarget, Row
    <3>2. Linked'
      BY <1>1, <3>1, InitialAnchor, Zenon DEF Linked
    <3> QED
      BY <1>1, <1>2, <2>1, <3>2, BeginsChains, Zenon
  <2> QED
    BY <2>2, <2>3, Zenon
<1>5. CASE ~row.on /\ row' = NewRow(p, b) /\ staged' = staged
  <2>1. /\ row'.on /\ row'.owner = p /\ row'.cursor = NoBlock
        /\ row'.anchor = InitialMode(ckpt, b).anchor
    BY <1>5, Zenon DEF NewRow, NoRow
  <2>2. staged' = {}
    BY <1>5, Zenon DEF Chained, Linked
  <2>3. Linked'
    BY <1>1, <2>1, <2>2, InitialAnchor, Zenon DEF Linked
  <2> QED
    BY <1>1, <1>2, <2>1, <2>3, BeginsChains, Zenon
<1> QED
  BY <1>3, <1>4, <1>5, Zenon DEF Observe

\* A change of who is active, or the end of a wait.
LEMMA ActivityChains ==
  ASSUME Inv, Chained, Same,
         \A p \in Procs : op'[p].pc = op[p].pc /\ op'[p].st = op[p].st /\ op'[p].block = op[p].block
  PROVE  Chained'
<1>1. Linked' /\ Rooted'
  BY Zenon DEF Chained, Linked, Rooted, Same
<1>2. ASSUME NEW p \in Procs PROVE Reads(p)'
  <2>1. Fenced(p)' => Fenced(p)
    BY Zenon DEF Fenced, Same
  <2> QED
    BY <2>1, Zenon DEF Chained, Reads, Same
<1> QED
  BY <1>1, <1>2, Zenon DEF Chained

\* Every step keeps what is recorded one chain.
LEMMA NextChains == ASSUME Inv, Inv', Chained, [Next]_vars PROVE Chained'
<1>1. ASSUME NEW p \in Procs, Work(p) PROVE Chained'
  BY <1>1, ProbeChains, ResetChains, SeedChains, PageChains, RecordChains, ConfirmationChains,
     FinalizeChains, Zenon DEF Work
<1>2. ASSUME NEW p \in Procs, Activate(p) \/ Lose(p) \/ Agree(p) PROVE Chained'
  <2>1. Same
    BY <1>2, Zenon DEF Activate, Lose, Agree, Database, Same
  <2>2. \A q \in Procs : op[q] \in Op /\ op'[q] \in {op[q], [op[q] EXCEPT !.live = FALSE]}
    BY <1>2, Zenon DEF Activate, Lose, Agree, Inv, TypeOK
  <2>3. \A q \in Procs : op'[q].pc = op[q].pc /\ op'[q].st = op[q].st /\ op'[q].block = op[q].block
    BY <2>2, Outdated, Zenon
  <2> QED
    BY <2>1, <2>3, ActivityChains, Zenon
<1>3. CASE ComesDue
  <2>1. Same /\ op' = op
    BY <1>3, Zenon DEF ComesDue, Same, Inv, TypeOK, Row
  <2> QED
    BY <2>1, ActivityChains, Zenon
<1>4. CASE UNCHANGED vars
  BY <1>4, ActivityChains, Zenon DEF vars, Same
<1> QED
  BY <1>1, <1>2, <1>3, <1>4, ObserveChains, RecoverChains, Zenon DEF Next

\* What is recorded as proof is one chain, for any tree of headers, any window
\* and page size, any reorganisations and any number of rival workers.
THEOREM ProofIsChainHolds == Spec => []ProofIsChain
<1>1. Init => Chained
  <2> SUFFICES ASSUME Init PROVE Chained
    OBVIOUS
  <2>1. row.on = FALSE /\ staged = {}
    BY Zenon DEF Init, NoRow
  <2>2. Linked
    BY <2>1, Zenon DEF Linked
  <2>3. Rooted
    BY Zenon DEF Init, Rooted
  <2>4. \A p \in Procs : op[p].pc = "idle"
    BY Zenon DEF Init, NoOp
  <2> QED
    BY <2>2, <2>3, <2>4, Zenon DEF Chained, Reads
<1>2. Inv /\ Chained => ProofIsChain
  <2> SUFFICES ASSUME Inv, Chained PROVE ProofIsChain
    OBVIOUS
  <2>1. ASSUME row.on, row.cursor # NoBlock
        PROVE  staged \subseteq Chain[row.cursor] /\ row.cursor \in staged
    <3>1. /\ row.cursor \in Blocks /\ row.anchor \in Chain[row.cursor]
          /\ staged = Stretch(row.anchor, row.cursor)
      BY <2>1, Zenon DEF Inv, TypeOK, Row, Chained, Linked
    <3>2. /\ row.cursor \in Chain[row.cursor] /\ Height[row.cursor] \in Nat
          /\ Height[row.anchor] <= Height[row.cursor] /\ Height[row.anchor] \in Nat
          /\ Window \in Nat \ {0}
      BY <3>1, InChain, HeaderAssumption, Zenon DEF HeaderAssumption
    <3> QED
      BY <3>1, <3>2, SMTT(30) DEF Stretch
  <2> QED
    BY <2>1, Zenon DEF ProofIsChain, Chained, Linked, Rooted, Piece
<1> QED
  BY <1>1, <1>2, NextChains, Invariance, PTL DEF Spec
=============================================================================
