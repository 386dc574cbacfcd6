------------------------ MODULE WebhookDeliveryProofs ------------------------
(***************************************************************************)
(* The safety properties of WebhookDelivery, for any number of deliveries, *)
(* processes, attempts, replays and changes of the endpoint.               *)
(***************************************************************************)
EXTENDS WebhookDelivery, TLAPS

\* A row says the same as the endpoint and the history: a lease is on an open
\* row, an open row is owed to the endpoint as it is now, and an outcome is of
\* the last turn.
RowSound(d) ==
  LET r == row[d] IN
  /\ r.holder # Nobody => Open(r)
  /\ r.retired => r.status = "dead"
  /\ r.status # "absent" => endpoint.live
  /\ Open(r) => r.count < MaxAttempts /\ owed[d] = Current
  /\ r.status \in {"delivered", "failed"} => by[d] = turn[d]
  /\ r.status = "dead" /\ ~r.retired => by[d] = turn[d]
  /\ r.status = "delivered" => turn[d] \in got[d]

\* An attempt is of this turn or an earlier one.  One that still holds its
\* lease is of this turn; one of this turn goes where the delivery is owed.
AttemptSound(p) ==
  LET k == proc[p] IN
  /\ k.pc # "idle" => k.turn <= turn[k.d]
  /\ k.pc \in {"send", "record"} =>
       /\ row[k.d].status # "absent" \/ ~endpoint.live
       /\ row[k.d].holder = p => k.turn = turn[k.d]
  /\ k.pc = "send" /\ k.turn = turn[k.d] => k.ident = owed[k.d]
  /\ k.pc = "record" /\ k.outcome = "ok" => k.turn \in got[k.d]

\* The inductive invariant.
Inv ==
  /\ TypeOK
  /\ \A d \in Deliveries : RowSound(d)
  /\ \A p \in Processes : AttemptSound(p)

-----------------------------------------------------------------------------
(* What steps have in common *)

\* What a process has in hand.
LEMMA InHand ==
  ASSUME TypeOK, NEW p \in Processes, proc[p].pc # "idle"
  PROVE  proc[p] \in Busy /\ proc[p].d \in Deliveries /\ row[proc[p].d] \in Row
<1>1. proc[p] \in Busy
  BY SMTT(30) DEF TypeOK, Idle
<1> QED
  BY <1>1, Zenon DEF TypeOK, Busy

\* An idle process is typed and sound.
LEMMA Resting ==
  ASSUME NEW p \in Processes, proc'[p] = Idle
  PROVE  AttemptSound(p)'
BY SMTT(30) DEF AttemptSound, Idle

\* Rows and the process table after one entry is replaced.
LEMMA Replaced ==
  ASSUME TypeOK
  PROVE  /\ \A p \in Processes : \A k :
              Become(p, k) => proc'[p] = k /\ \A q \in Processes \ {p} : proc'[q] = proc[q]
         /\ \A d \in Deliveries : \A r :
              SetRow(d, r) => row'[d] = r /\ \A e \in Deliveries \ {d} : row'[e] = row[e]
BY Zenon DEF TypeOK, Become, SetRow

\* A step of p that leaves the rows alone.
LEMMA OnlyProcess ==
  ASSUME Inv, NEW p \in Processes, NEW k \in Busy \cup {Idle}, Become(p, k), AttemptSound(p)',
         UNCHANGED <<endpoint, row, turn, owed, by>>,
         jobs' \in SUBSET (Deliveries \X Attempts),
         got' \in [Deliveries -> SUBSET Turns], \A d \in Deliveries : got[d] \subseteq got'[d]
  PROVE  Inv'
<1>1. TypeOK'
  BY Zenon DEF Inv, TypeOK, Become
<1>2. ASSUME NEW d \in Deliveries PROVE RowSound(d)'
  BY Zenon DEF Inv, RowSound, Current
<1>3. ASSUME NEW q \in Processes \ {p} PROVE AttemptSound(q)'
  <2>1. proc'[q] = proc[q] /\ AttemptSound(q)
    BY Replaced, Zenon DEF Inv
  <2>2. proc[q].pc # "idle" => proc[q].d \in Deliveries
    BY InHand, Zenon DEF Inv
  <2> QED
    BY <2>1, <2>2, Zenon DEF AttemptSound
<1> QED
  BY <1>1, <1>2, <1>3, Zenon DEF Inv

\* A process that ends and leaves the rows alone.
LEMMA OnlyEnds ==
  ASSUME Inv, NEW p \in Processes, Finish(p), UNCHANGED <<endpoint, row, turn, owed, got, by>>,
         jobs' \in SUBSET (Deliveries \X Attempts)
  PROVE  Inv'
<1>1. AttemptSound(p)'
  BY Replaced, Resting, Zenon DEF Inv, Finish
<1> QED
  BY <1>1, OnlyProcess, Zenon DEF Inv, TypeOK, Finish

\* The operation a process starts with.
LEMMA Started ==
  ASSUME Inv, NEW d \in Deliveries, NEW n \in 1..(MaxAttempts + 1), NEW job \in BOOLEAN,
         NEW pc \in {"admit", "announce", "open"}, NEW mode \in {"emit", "replay", "job", "recover"}
  PROVE  Begin(pc, mode, job, d, n) \in Busy
<1>1. Current \in Identity /\ turn[d] \in Turns
  BY Zenon DEF Inv, TypeOK, Current, Identity
<1> QED
  BY <1>1, Zenon DEF Begin, Busy

\* A process that starts and leaves the rows alone.
LEMMA OnlyStarts ==
  ASSUME Inv, NEW p \in Processes, NEW d \in Deliveries, NEW n \in 1..(MaxAttempts + 1),
         NEW job \in BOOLEAN, NEW pc \in {"admit", "announce", "open"},
         NEW mode \in {"emit", "replay", "job", "recover"}, Become(p, Begin(pc, mode, job, d, n)),
         UNCHANGED <<endpoint, row, turn, owed, got, by>>,
         jobs' \in SUBSET (Deliveries \X Attempts)
  PROVE  Inv'
<1> DEFINE k == Begin(pc, mode, job, d, n)
<1>1. k \in Busy /\ k.pc = pc /\ k.turn = turn[d] /\ k.d = d
  BY Started, ZenonT(40) DEF Begin
<1>2. proc'[p] = k
  BY Replaced, Zenon DEF Inv
<1>3. turn[d] \in Nat
  BY SMTT(30) DEF Inv, TypeOK, Turns
<1> HIDE DEF k
<1>4. AttemptSound(p)'
  BY <1>1, <1>2, <1>3, SMTT(30) DEF AttemptSound
<1> QED
  BY <1>1, <1>4, OnlyProcess, Zenon DEF Inv, TypeOK, k

\* A step of p on the row of d that leaves the endpoint alone.
LEMMA OneRow ==
  ASSUME Inv, NEW p \in Processes, NEW k \in Busy \cup {Idle}, Become(p, k), AttemptSound(p)',
         NEW d \in Deliveries, NEW r \in Row, SetRow(d, r), RowSound(d)',
         UNCHANGED <<endpoint, jobs, got>>,
         turn' \in [Deliveries -> Turns], owed' \in [Deliveries -> Identity],
         by' \in [Deliveries -> Turns],
         \A e \in Deliveries \ {d} : turn'[e] = turn[e] /\ owed'[e] = owed[e] /\ by'[e] = by[e],
         turn'[d] >= turn[d], r.status # "absent" \/ ~endpoint.live,
         r.holder \in {Nobody, p, row[d].holder},
         turn'[d] = turn[d] \/ r.holder = Nobody,
         owed'[d] = owed[d] \/ turn'[d] > turn[d] \/ (row[d].status = "absent" /\ endpoint.live)
  PROVE  Inv'
<1>1. TypeOK'
  BY Zenon DEF Inv, TypeOK, Become, SetRow
<1>2. ASSUME NEW e \in Deliveries PROVE RowSound(e)'
  <2>1. CASE e = d
    BY <2>1, Zenon
  <2>2. CASE e # d
    BY <2>2, Replaced, SMTT(30) DEF Inv, RowSound, Current
  <2> QED
    BY <2>1, <2>2, Zenon
<1>3. ASSUME NEW q \in Processes \ {p} PROVE AttemptSound(q)'
  <2>1. proc'[q] = proc[q] /\ AttemptSound(q)
    BY Replaced, Zenon DEF Inv
  <2>2. CASE proc[q].pc = "idle"
    BY <2>1, <2>2, Zenon DEF AttemptSound
  <2>3. CASE proc[q].pc # "idle" /\ proc[q].d # d
    <3>1. proc[q].d \in Deliveries \ {d}
      BY <2>3, InHand, Zenon DEF Inv
    <3> QED
      BY <2>1, <3>1, Replaced, SMTT(30) DEF AttemptSound, Inv
  <2>4. CASE proc[q].pc # "idle" /\ proc[q].d = d
    <3>1. proc[q].turn \in Nat /\ turn[d] \in Nat /\ turn'[d] \in Nat /\ q # Nobody
      BY <2>4, InHand, WebhookAssumption, SMTT(30) DEF Inv, TypeOK, Busy, Turns, WebhookAssumption
    <3>2. row'[d] = r
      BY Replaced, Zenon DEF Inv
    <3> QED
      BY <2>1, <2>4, <3>1, <3>2, SMTT(30) DEF AttemptSound
  <2> QED
    BY <2>2, <2>3, <2>4, Zenon
<1> QED
  BY <1>1, <1>2, <1>3, Zenon DEF Inv

-----------------------------------------------------------------------------
(* Every step keeps the invariant *)

LEMMA EmitKeeps == ASSUME Inv, NEW p \in Processes, NEW d \in Deliveries, Emit(p, d) PROVE Inv'
<1>1. 1 \in 1..(MaxAttempts + 1)
  BY WebhookAssumption, SMTT(30) DEF WebhookAssumption
<1> QED
  BY <1>1, OnlyStarts, Zenon DEF Emit, Inv, TypeOK

LEMMA TakeKeeps ==
  ASSUME Inv, NEW p \in Processes, NEW d \in Deliveries, NEW n \in Attempts, Take(p, d, n)
  PROVE  Inv'
<1>1. n \in 1..(MaxAttempts + 1)
  BY WebhookAssumption, SMTT(30) DEF WebhookAssumption, Attempts
<1>2. jobs' \in SUBSET (Deliveries \X Attempts)
  BY Zenon DEF Take, Inv, TypeOK
<1> QED
  BY <1>1, <1>2, OnlyStarts, Zenon DEF Take

LEMMA ListDueKeeps ==
  ASSUME Inv, NEW p \in Processes, NEW d \in Deliveries, ListDue(p, d)
  PROVE  Inv'
<1>1. row[d].count + 1 \in 1..(MaxAttempts + 1)
  BY WebhookAssumption, SMTT(30) DEF WebhookAssumption, Inv, TypeOK, Row
<1> QED
  BY <1>1, OnlyStarts, Zenon DEF ListDue, Inv, TypeOK

LEMMA AnnounceKeeps == ASSUME Inv, NEW p \in Processes, Announce(p) PROVE Inv'
<1>1. proc[p] \in Busy
  BY InHand, Zenon DEF Announce, At, Inv
<1>2. proc[p].d \in Deliveries /\ (proc[p].n > MaxAttempts \/ proc[p].n \in Attempts)
  BY <1>1, WebhookAssumption, SMTT(30) DEF Busy, Attempts, WebhookAssumption
<1>3. jobs' \in SUBSET (Deliveries \X Attempts)
  BY <1>2, SMTT(30) DEF Announce, Inv, TypeOK
<1> QED
  BY <1>3, OnlyEnds, Zenon DEF Announce

LEMMA AbandonKeeps == ASSUME Inv, NEW p \in Processes, Abandon(p) PROVE Inv'
<1>1. jobs' \in SUBSET (Deliveries \X Attempts)
  BY Zenon DEF Abandon, Inv, TypeOK
<1> QED
  BY <1>1, OnlyEnds, Zenon DEF Abandon

\* A process goes on with what it has in hand.
LEMMA OnlyGoes ==
  ASSUME Inv, NEW p \in Processes, proc[p].pc # "idle", NEW k \in Busy, Become(p, k),
         k.d = proc[p].d, k.turn = proc[p].turn,
         k.pc \notin {"send", "record"}, UNCHANGED <<endpoint, row, jobs, turn, owed, got, by>>
  PROVE  Inv'
<1>1. proc'[p] = k /\ AttemptSound(p)
  BY Replaced, Zenon DEF Inv
<1>2. AttemptSound(p)'
  BY <1>1, Zenon DEF AttemptSound
<1> QED
  BY <1>2, OnlyProcess, Zenon DEF Inv, TypeOK

LEMMA AnnounceFailsKeeps == ASSUME Inv, NEW p \in Processes, AnnounceFails(p) PROVE Inv'
<1>1. proc[p].pc = "announce" /\ proc[p] \in Busy
  BY InHand, Zenon DEF AnnounceFails, At, Inv
<1>2. CASE Finish(p)
  BY <1>2, OnlyEnds, Zenon DEF AnnounceFails, Inv, TypeOK
<1>3. CASE Become(p, [proc[p] EXCEPT !.pc = "open"])
  <2> DEFINE k == [proc[p] EXCEPT !.pc = "open"]
  <2>1. k \in Busy
    BY <1>1, ZenonT(30) DEF Busy
  <2>2. k.pc = "open" /\ k.d = proc[p].d /\ k.turn = proc[p].turn
    BY <1>1, Zenon DEF Busy
  <2> HIDE DEF k
  <2> QED
    BY <1>1, <1>3, <2>1, <2>2, OnlyGoes, Zenon DEF AnnounceFails, k
<1> QED
  BY <1>2, <1>3, Zenon DEF AnnounceFails

LEMMA LookKeeps == ASSUME Inv, NEW p \in Processes, Look(p) PROVE Inv'
<1> DEFINE m == IF proc[p].mode = "replay" THEN row[proc[p].d].count + 1 ELSE proc[p].n
           k == [proc[p] EXCEPT !.pc = "claim", !.n = m]
<1>1. proc[p].pc = "open" /\ proc[p] \in Busy /\ row[proc[p].d] \in Row
  BY InHand, Zenon DEF Look, At, Inv
<1>2. CASE Finish(p)
  BY <1>2, OnlyEnds, Zenon DEF Look, Inv, TypeOK
<1>3. CASE Become(p, k)
  <2>1. m \in 1..(MaxAttempts + 1)
    BY <1>1, WebhookAssumption, SMTT(30) DEF Busy, Row, WebhookAssumption
  <2> HIDE DEF m
  <2>2. k \in Busy
    BY <1>1, <2>1, ZenonT(30) DEF Busy
  <2>3. k.pc = "claim" /\ k.d = proc[p].d /\ k.turn = proc[p].turn
    BY <1>1, Zenon DEF Busy
  <2> HIDE DEF k
  <2> QED
    BY <1>1, <1>3, <2>2, <2>3, OnlyGoes, Zenon DEF Look
<1>4. Finish(p) \/ Become(p, k)
  BY Zenon DEF Look, Become
<1> QED
  BY <1>2, <1>3, <1>4, Zenon

\* A process turns to record an outcome.
LEMMA OutcomeKnown ==
  ASSUME Inv, NEW p \in Processes, proc[p].pc \in {"send", "record"}, NEW o \in {"ok", "retry", "fatal"},
         Become(p, [proc[p] EXCEPT !.pc = "record", !.outcome = o]),
         UNCHANGED <<endpoint, row, jobs, turn, owed, by>>,
         got' \in [Deliveries -> SUBSET Turns], \A d \in Deliveries : got[d] \subseteq got'[d],
         o = "ok" => proc[p].turn \in got'[proc[p].d]
  PROVE  Inv'
<1> DEFINE k == [proc[p] EXCEPT !.pc = "record", !.outcome = o]
<1>1. proc[p] \in Busy
  BY InHand, Zenon DEF Inv
<1>2. k \in Busy
  BY <1>1, ZenonT(30) DEF Busy
<1>3. k.pc = "record" /\ k.d = proc[p].d /\ k.turn = proc[p].turn /\ k.outcome = o
  BY <1>1, Zenon DEF Busy
<1>4. proc'[p] = k /\ AttemptSound(p)
  BY Replaced, Zenon DEF Inv
<1> HIDE DEF k
<1>5. AttemptSound(p)'
  BY <1>3, <1>4, Zenon DEF AttemptSound
<1> QED
  BY <1>2, <1>5, OnlyProcess, Zenon DEF Inv, TypeOK, k

LEMMA AcceptedKeeps == ASSUME Inv, NEW p \in Processes, Accepted(p) PROVE Inv'
<1> DEFINE d == proc[p].d
<1>1. proc[p].pc = "send" /\ d \in Deliveries /\ proc[p].turn \in Turns
  BY InHand, Zenon DEF Accepted, At, Inv, Busy
<1>2. got' = [got EXCEPT ![d] = @ \cup {proc[p].turn}] /\ got \in [Deliveries -> SUBSET Turns]
  BY Zenon DEF Accepted, Inv, TypeOK
<1>3. /\ got' \in [Deliveries -> SUBSET Turns] /\ \A e \in Deliveries : got[e] \subseteq got'[e]
      /\ proc[p].turn \in got'[d]
  BY <1>1, <1>2, Zenon
<1>4. PICK o \in {"ok", "retry"} : Become(p, [proc[p] EXCEPT !.pc = "record", !.outcome = o])
  BY Zenon DEF Accepted
<1> QED
  BY <1>1, <1>3, <1>4, OutcomeKnown, Zenon DEF Accepted

LEMMA RefusedKeeps == ASSUME Inv, NEW p \in Processes, Refused(p) PROVE Inv'
<1>1. PICK o \in {"retry", "fatal"} : Become(p, [proc[p] EXCEPT !.pc = "record", !.outcome = o])
  BY Zenon DEF Refused
<1> QED
  BY <1>1, OutcomeKnown, Zenon DEF Refused, At, Inv, TypeOK

LEMMA RecordFailsKeeps == ASSUME Inv, NEW p \in Processes, RecordFails(p) PROVE Inv'
<1>1. PICK o \in {"retry", "fatal"} : Become(p, [proc[p] EXCEPT !.outcome = o])
  BY Zenon DEF RecordFails
<1>2. proc[p].pc = "record" /\ proc[p] \in Busy
  BY InHand, Zenon DEF RecordFails, At, Inv
<1>3. [proc[p] EXCEPT !.outcome = o] = [proc[p] EXCEPT !.pc = "record", !.outcome = o]
  BY <1>2, Zenon DEF Busy
<1> QED
  BY <1>1, <1>2, <1>3, OutcomeKnown, Zenon DEF RecordFails, Inv, TypeOK

\* A row is made only for the identity that was read, and only if there is none.
LEMMA AdmitKeeps == ASSUME Inv, NEW p \in Processes, Admit(p) PROVE Inv'
<1>0. PICK d \in Deliveries : d = proc[p].d
  BY InHand, Zenon DEF Admit, At, Inv
<1> DEFINE r == IF row[d].status = "absent" THEN Fresh ELSE row[d]
           k == [proc[p] EXCEPT !.pc = "announce", !.n = r.count + 1]
<1>1. /\ proc[p].pc = "admit" /\ proc[p] \in Busy /\ row[d] \in Row
      /\ RowSound(d) /\ AttemptSound(p)
  BY <1>0, InHand, Zenon DEF Admit, At, Inv
<1>2. CASE ~Admits(proc[p].ident)
  BY <1>2, OnlyEnds, Zenon DEF Admit, Inv, TypeOK
<1>3. CASE Admits(proc[p].ident)
  <2>1. /\ SetRow(d, r) /\ Become(p, k)
        /\ owed' = [owed EXCEPT ![d] = IF row[d].status = "absent" THEN proc[p].ident ELSE @]
        /\ UNCHANGED <<endpoint, jobs, turn, got, by>>
    BY <1>0, <1>3, Zenon DEF Admit
  <2>2. Fresh \in Row
    BY WebhookAssumption, SMTT(30) DEF Fresh, Row, WebhookAssumption
  <2>3. r \in Row /\ r.count + 1 \in 1..(MaxAttempts + 1)
    BY <1>1, <2>2, WebhookAssumption, SMTT(30) DEF Row, WebhookAssumption
  <2>4. k \in Busy
    <3> DEFINE n == r.count + 1
    <3>1. n \in 1..(MaxAttempts + 1)
      BY <2>3, Zenon
    <3> HIDE DEF n, r
    <3>2. [proc[p] EXCEPT !.pc = "announce", !.n = n] \in Busy
      BY <1>1, <3>1, ZenonT(30) DEF Busy
    <3> QED
      BY <3>2, Zenon DEF n
  <2>5. k.pc = "announce" /\ k.d = d /\ k.turn = proc[p].turn
    BY <1>0, <1>1, Zenon DEF Busy
  <2>6. AttemptSound(p)'
    <3>1. proc'[p] = k
      BY <2>1, Replaced, Zenon DEF Inv
    <3> HIDE DEF k
    <3> QED
      BY <1>0, <1>1, <2>1, <2>5, <3>1, Zenon DEF AttemptSound
  <2>7. endpoint.live /\ proc[p].ident = Current /\ proc[p].ident \in Identity
    BY <1>1, <1>3, Zenon DEF Admits, Busy
  <2>8. row'[d] = r /\ owed'[d] = (IF row[d].status = "absent" THEN proc[p].ident ELSE owed[d])
    BY <1>1, <2>1, Replaced, Zenon DEF Inv, TypeOK
  <2>9. RowSound(d)'
    <3>1. CASE row[d].status = "absent"
      BY <1>1, <2>1, <2>7, <2>8, <3>1, WebhookAssumption, SMTT(30)
      DEF RowSound, Fresh, Open, Current, WebhookAssumption
    <3>2. CASE row[d].status # "absent"
      BY <1>1, <2>1, <2>8, <3>2, Zenon DEF RowSound, Current
    <3> QED
      BY <3>1, <3>2, Zenon
  <2>10. /\ owed' \in [Deliveries -> Identity]
         /\ \A e \in Deliveries \ {d} : owed'[e] = owed[e]
         /\ owed'[d] = owed[d] \/ row[d].status = "absent"
    BY <1>1, <2>1, <2>7, Zenon DEF Inv, TypeOK
  <2>11. r.status # "absent" /\ r.holder \in {Nobody, p, row[d].holder}
    BY Zenon DEF Fresh
  <2>12. turn[d] \in Nat /\ turn \in [Deliveries -> Turns] /\ by \in [Deliveries -> Turns]
    BY <1>1 DEF Inv, TypeOK, Turns
  <2> HIDE DEF k, r
  <2> QED
    BY <1>1, <2>1, <2>3, <2>4, <2>6, <2>7, <2>9, <2>10, <2>11, <2>12, OneRow
<1> QED
  BY <1>2, <1>3, Zenon, SMTT(30)

\* A claim reads the endpoint that an open row is owed to.
LEMMA ClaimKeeps == ASSUME Inv, NEW p \in Processes, Claim(p) PROVE Inv'
<1>0. PICK d \in Deliveries : d = proc[p].d
  BY InHand, Zenon DEF Claim, At, Inv
<1> DEFINE r == [row[d] EXCEPT !.holder = p, !.live = TRUE]
           k == [proc[p] EXCEPT !.pc = "send", !.ident = Current, !.turn = turn[d]]
<1>1. /\ proc[p].pc = "claim" /\ proc[p] \in Busy /\ row[d] \in Row
      /\ RowSound(d) /\ AttemptSound(p)
  BY <1>0, InHand, Zenon DEF Claim, At, Inv
<1>2. CASE ~CanClaim(row[d], proc[p].n)
  BY <1>0, <1>2, OnlyEnds, Zenon DEF Claim, Inv, TypeOK
<1>3. CASE CanClaim(row[d], proc[p].n)
  <2>1. SetRow(d, r) /\ Become(p, k) /\ UNCHANGED <<endpoint, jobs, turn, owed, got, by>>
    BY <1>0, <1>3, Zenon DEF Claim
  <2>2. r \in Row
    BY <1>1, ZenonT(30) DEF Row
  <2>3. /\ r.status = row[d].status /\ r.count = row[d].count /\ r.holder = p
        /\ r.retired = row[d].retired
    BY <1>1, Zenon DEF Row
  <2>4. Current \in Identity /\ turn[d] \in Turns /\ turn[d] \in Nat
    BY <1>1, SMTT(30) DEF Inv, TypeOK, Current, Identity, Turns
  <2>5. k \in Busy
    BY <1>1, <2>4, ZenonT(30) DEF Busy
  <2>6. k.pc = "send" /\ k.d = d /\ k.turn = turn[d] /\ k.ident = Current
    BY <1>0, <1>1, Zenon DEF Busy
  <2>7. Open(row[d]) /\ endpoint.live /\ owed[d] = Current
    BY <1>1, <1>3, Zenon DEF CanClaim, Due, Open, RowSound
  <2>8. row'[d] = r /\ proc'[p] = k
    BY <1>1, <2>1, Replaced, ZenonT(40) DEF Inv
  <2>9. r.status # "absent" /\ Open(r)
    BY <2>3, <2>7, Zenon DEF Open
  <2> HIDE DEF k, r
  <2>10. AttemptSound(p)'
    BY <2>1, <2>4, <2>6, <2>7, <2>8, <2>9, SMTT(30) DEF AttemptSound
  <2>11. RowSound(d)'
    BY <1>1, <2>1, <2>3, <2>8, <2>9, Zenon DEF RowSound, Open, Current
  <2>12. /\ turn \in [Deliveries -> Turns] /\ by \in [Deliveries -> Turns]
         /\ owed \in [Deliveries -> Identity]
    BY Zenon DEF Inv, TypeOK
  <2>13. /\ turn' \in [Deliveries -> Turns] /\ owed' \in [Deliveries -> Identity]
         /\ by' \in [Deliveries -> Turns]
         /\ \A e \in Deliveries \ {d} : turn'[e] = turn[e] /\ owed'[e] = owed[e] /\ by'[e] = by[e]
         /\ turn'[d] >= turn[d] /\ r.holder \in {Nobody, p, row[d].holder}
         /\ turn'[d] = turn[d] \/ r.holder = Nobody
         /\ owed'[d] = owed[d] \/ turn'[d] > turn[d]
    BY <2>1, <2>3, <2>4, <2>12, SMTT(30)
  <2>14. k \in Busy \cup {Idle} /\ (r.status # "absent" \/ ~endpoint.live)
         /\ UNCHANGED <<endpoint, jobs, got>>
    BY <2>1, <2>5, <2>9, Zenon
  <2>15. owed'[d] = owed[d] \/ turn'[d] > turn[d] \/ (row[d].status = "absent" /\ endpoint.live)
    BY <2>13, Zenon
  <2> QED
    BY <2>1, <2>2, <2>10, <2>11, <2>13, <2>14, <2>15, OneRow, Zenon
<1> QED
  BY <1>2, <1>3, Zenon

\* An outcome settles the row under the lease of its own attempt.
LEMMA OutcomeRecorded ==
  ASSUME Inv, NEW p \in Processes, proc[p].pc = "record", NEW k \in Busy \cup {Idle}, Become(p, k),
         k.pc \notin {"send", "record"}, k.pc # "idle" => k.d = proc[p].d /\ k.turn = proc[p].turn,
         NEW status \in {"delivered", "dead", "failed"}, NEW due \in {"later", "never"},
         SetRow(proc[p].d, Settled(row[proc[p].d], status, proc[p].n, due)),
         by' = [by EXCEPT ![proc[p].d] = proc[p].turn], Owns(row[proc[p].d], p, proc[p].n),
         status = "failed" => proc[p].n < MaxAttempts,
         status = "delivered" => proc[p].outcome = "ok",
         UNCHANGED <<endpoint, jobs, turn, owed, got>>
  PROVE  Inv'
<1>0. PICK d \in Deliveries, n \in 1..(MaxAttempts + 1) : d = proc[p].d /\ n = proc[p].n
  BY InHand, Zenon DEF Inv, Busy
<1> DEFINE r == Settled(row[d], status, n, due)
<1>1. /\ proc[p] \in Busy /\ row[d] \in Row
      /\ RowSound(d) /\ AttemptSound(p)
  BY <1>0, InHand, Zenon DEF Inv
<1>2. row[d].holder = p /\ row[d].count = n - 1 /\ p # Nobody
  BY <1>0, WebhookAssumption, Zenon DEF Owns, WebhookAssumption
<1>3. Open(row[d]) /\ row[d].count < MaxAttempts /\ endpoint.live /\ owed[d] = Current
  BY <1>1, <1>2, Zenon DEF RowSound, Open
<1>4. n \in 0..MaxAttempts
  BY <1>1, <1>2, <1>3, WebhookAssumption, SMTT(30) DEF Busy, Row, WebhookAssumption
<1>5. r \in Row
  BY <1>1, <1>4, ZenonT(30) DEF Settled, Row
<1>6. r.status = status /\ r.count = n /\ r.holder = Nobody /\ r.retired = row[d].retired
  BY <1>1, Zenon DEF Settled, Row
<1>7. proc[p].turn = turn[d] /\ turn[d] \in Nat /\ turn[d] \in Turns
  BY <1>0, <1>1, <1>2, SMTT(30) DEF AttemptSound, Inv, TypeOK, Turns
<1>8. row'[d] = r /\ proc'[p] = k
  BY <1>0, Replaced, Zenon DEF Inv
<1>9. /\ by'[d] = turn[d] /\ by' \in [Deliveries -> Turns]
      /\ \A e \in Deliveries \ {d} : by'[e] = by[e]
  BY <1>0, <1>7, Zenon DEF Inv, TypeOK
<1>10. status = "delivered" => turn[d] \in got[d]
  BY <1>0, <1>1, <1>7, Zenon DEF AttemptSound
<1>11. ~row[d].retired
  BY <1>1, <1>3, Zenon DEF RowSound, Open
<1>12. AttemptSound(p)'
  BY <1>0, <1>1, <1>8, Zenon DEF AttemptSound
<1>13. turn \in [Deliveries -> Turns] /\ owed \in [Deliveries -> Identity]
  BY Zenon DEF Inv, TypeOK
<1>14. SetRow(d, r) /\ (status = "failed" => n < MaxAttempts)
  BY <1>0, Zenon
<1> HIDE DEF r
<1>15. RowSound(d)'
  BY <1>3, <1>6, <1>8, <1>9, <1>10, <1>11, <1>14, Zenon DEF RowSound, Open, Current
<1>16. /\ turn' \in [Deliveries -> Turns] /\ owed' \in [Deliveries -> Identity]
       /\ by' \in [Deliveries -> Turns]
       /\ \A e \in Deliveries \ {d} : turn'[e] = turn[e] /\ owed'[e] = owed[e] /\ by'[e] = by[e]
       /\ turn'[d] >= turn[d] /\ r.holder \in {Nobody, p, row[d].holder}
       /\ turn'[d] = turn[d] \/ r.holder = Nobody
       /\ owed'[d] = owed[d] \/ turn'[d] > turn[d]
  BY <1>6, <1>7, <1>9, <1>13
<1>17. r.status # "absent" \/ ~endpoint.live
  BY <1>6, Zenon, SMTT(30)
<1>18. owed'[d] = owed[d] \/ turn'[d] > turn[d] \/ (row[d].status = "absent" /\ endpoint.live)
  BY <1>16, Zenon
<1> QED
  BY <1>5, <1>12, <1>14, <1>15, <1>16, <1>17, <1>18, OneRow, Zenon

LEMMA RecordKeeps == ASSUME Inv, NEW p \in Processes, Record(p) PROVE Inv'
<1> DEFINE d == proc[p].d
           n == proc[p].n
           k == [proc[p] EXCEPT !.pc = "announce", !.n = n + 1, !.mode = "job"]
<1>1. proc[p].pc = "record" /\ proc[p] \in Busy
  BY InHand, Zenon DEF Record, At, Inv
<1>2. CASE ~Owns(row[d], p, n)
  BY <1>2, OnlyEnds, Zenon DEF Record, Inv, TypeOK
<1>3. CASE Owns(row[d], p, n) /\ proc[p].outcome = "ok"
  <2>1. /\ SetRow(d, Settled(row[d], "delivered", n, "never")) /\ Become(p, Idle)
        /\ by' = [by EXCEPT ![d] = proc[p].turn] /\ UNCHANGED <<endpoint, jobs, turn, owed, got>>
    BY <1>3, Zenon DEF Record, Finish
  <2> QED
    BY <1>1, <1>3, <2>1, OutcomeRecorded, Zenon DEF Idle
<1>4. CASE Owns(row[d], p, n) /\ proc[p].outcome # "ok" /\ GivesUp(p)
  <2>1. /\ SetRow(d, Settled(row[d], "dead", n, "never")) /\ Become(p, Idle)
        /\ by' = [by EXCEPT ![d] = proc[p].turn] /\ UNCHANGED <<endpoint, jobs, turn, owed, got>>
    BY <1>4, Zenon DEF Record, Finish
  <2> QED
    BY <1>1, <1>4, <2>1, OutcomeRecorded, Zenon DEF Idle
<1>5. CASE Owns(row[d], p, n) /\ proc[p].outcome # "ok" /\ ~GivesUp(p)
  <2>1. /\ SetRow(d, Settled(row[d], "failed", n, "later")) /\ Become(p, k)
        /\ by' = [by EXCEPT ![d] = proc[p].turn] /\ UNCHANGED <<endpoint, jobs, turn, owed, got>>
    BY <1>5, Zenon DEF Record
  <2>2. n < MaxAttempts /\ n + 1 \in 1..(MaxAttempts + 1)
    BY <1>1, <1>5, WebhookAssumption, SMTT(30) DEF GivesUp, Busy, WebhookAssumption
  <2>3. k \in Busy
    <3> DEFINE m == n + 1
    <3>1. m \in 1..(MaxAttempts + 1)
      BY <2>2, Zenon
    <3> HIDE DEF m, n
    <3>2. [proc[p] EXCEPT !.pc = "announce", !.n = m, !.mode = "job"] \in Busy
      BY <1>1, <3>1, ZenonT(30) DEF Busy
    <3> QED
      BY <3>2, Zenon DEF m
  <2>4. k.pc = "announce" /\ k.d = d /\ k.turn = proc[p].turn
    BY <1>1, Zenon DEF Busy
  <2> HIDE DEF k
  <2> QED
    BY <1>1, <1>5, <2>1, <2>2, <2>3, <2>4, OutcomeRecorded, Zenon
<1> QED
  BY <1>2, <1>3, <1>4, <1>5, Zenon

\* A replay opens a new turn, owed to the endpoint as it is now.
LEMMA ReplayKeeps ==
  ASSUME Inv, NEW p \in Processes, NEW d \in Deliveries, Replay(p, d)
  PROVE  Inv'
<1> DEFINE k == Begin("announce", "replay", FALSE, d, 1)
<1>1. /\ SetRow(d, Fresh) /\ Become(p, k) /\ turn[d] < MaxReplays
      /\ turn' = [turn EXCEPT ![d] = @ + 1] /\ owed' = [owed EXCEPT ![d].secret = endpoint.secret]
      /\ UNCHANGED <<endpoint, jobs, got, by>>
  BY Zenon DEF Replay
<1>2. Fresh \in Row /\ 1 \in 1..(MaxAttempts + 1)
  BY WebhookAssumption, SMTT(30) DEF Fresh, Row, WebhookAssumption
<1>3. k \in Busy /\ k.pc = "announce" /\ k.d = d /\ k.turn = turn[d]
  BY <1>2, Started, Zenon DEF Begin
<1>4. /\ turn' \in [Deliveries -> Turns] /\ turn'[d] = turn[d] + 1 /\ turn[d] \in Nat
      /\ \A e \in Deliveries \ {d} : turn'[e] = turn[e]
  BY <1>1, WebhookAssumption, SMTT(30) DEF Inv, TypeOK, Turns, WebhookAssumption
<1>5. /\ owed' \in [Deliveries -> Identity]
      /\ \A e \in Deliveries \ {d} : owed'[e] = owed[e]
      /\ owed'[d] = [owed[d] EXCEPT !.secret = endpoint.secret]
  BY <1>1, Zenon DEF Inv, TypeOK, Identity
<1>6. owed'[d] = Current
  <2>1. owed[d] \in Identity /\ owed[d].url = endpoint.url
    BY Zenon DEF Inv, TypeOK, Replay, CanReplay
  <2> QED
    BY <1>5, <2>1, Zenon DEF Identity, Current
<1>7. endpoint.live
  BY Zenon DEF Replay, CanReplay, Inv, RowSound
<1>8. row'[d] = Fresh /\ proc'[p] = k
  BY <1>1, Replaced, Zenon DEF Inv
<1> HIDE DEF k
<1>9. AttemptSound(p)'
  BY <1>3, <1>4, <1>8, SMTT(30) DEF AttemptSound
<1>10. RowSound(d)'
  BY <1>1, <1>6, <1>7, <1>8, WebhookAssumption, SMTT(30)
  DEF RowSound, Fresh, Open, Current, WebhookAssumption
<1>11. Fresh.holder = Nobody /\ Fresh.status # "absent" /\ by \in [Deliveries -> Turns]
  BY Zenon DEF Fresh, Inv, TypeOK
<1>12. /\ turn' \in [Deliveries -> Turns] /\ owed' \in [Deliveries -> Identity]
       /\ by' \in [Deliveries -> Turns]
       /\ \A e \in Deliveries \ {d} : turn'[e] = turn[e] /\ owed'[e] = owed[e] /\ by'[e] = by[e]
       /\ turn'[d] >= turn[d] /\ Fresh.holder \in {Nobody, p, row[d].holder}
       /\ turn'[d] = turn[d] \/ Fresh.holder = Nobody
       /\ owed'[d] = owed[d] \/ turn'[d] > turn[d]
  BY <1>1, <1>4, <1>5, <1>11
<1>13. k \in Busy \cup {Idle} /\ (Fresh.status # "absent" \/ ~endpoint.live)
       /\ UNCHANGED <<endpoint, jobs, got>>
  BY <1>1, <1>3, <1>11, Zenon, SMTT(30)
<1>14. owed'[d] = owed[d] \/ turn'[d] > turn[d] \/ (row[d].status = "absent" /\ endpoint.live)
  BY <1>12, Zenon
<1> QED
  BY <1>1, <1>2, <1>9, <1>10, <1>12, <1>13, <1>14, OneRow, Zenon

\* A row that changes in its clock only.
LEMMA ClockKeeps ==
  ASSUME Inv, NEW d \in Deliveries, LeaseExpires(d) \/ BecomesDue(d)
  PROVE  Inv'
<1>1. row[d] \in Row /\ UNCHANGED <<endpoint, jobs, proc, turn, owed, got, by>>
  BY Zenon DEF LeaseExpires, BecomesDue, Inv, TypeOK
<1>2. PICK r : r \in {[row[d] EXCEPT !.live = FALSE], [row[d] EXCEPT !.due = "now"]} /\ SetRow(d, r)
  BY Zenon DEF LeaseExpires, BecomesDue
<1>3. r \in Row
  BY <1>1, <1>2, ZenonT(30) DEF Row
<1>4. /\ r.status = row[d].status /\ r.count = row[d].count /\ r.holder = row[d].holder
      /\ r.retired = row[d].retired
  BY <1>1, <1>2, Zenon DEF Row
<1>5. row'[d] = r /\ \A e \in Deliveries \ {d} : row'[e] = row[e]
  BY <1>2, Replaced, Zenon DEF Inv
<1>6. TypeOK'
  BY <1>1, <1>2, <1>3, Zenon DEF Inv, TypeOK, SetRow
<1>7. \A e \in Deliveries : /\ row'[e].status = row[e].status /\ row'[e].count = row[e].count
                            /\ row'[e].holder = row[e].holder /\ row'[e].retired = row[e].retired
  BY <1>4, <1>5, Zenon
<1>8. ASSUME NEW e \in Deliveries PROVE RowSound(e)'
  BY <1>1, <1>7, Zenon DEF Inv, RowSound, Open, Current
<1>9. ASSUME NEW q \in Processes PROVE AttemptSound(q)'
  <2>1. AttemptSound(q) /\ (proc[q].pc # "idle" => proc[q].d \in Deliveries)
    BY InHand, Zenon DEF Inv
  <2> QED
    BY <1>1, <1>7, <2>1, Zenon DEF AttemptSound
<1> QED
  BY <1>6, <1>8, <1>9, Zenon DEF Inv

\* A change of the endpoint retires every open row.
LEMMA UpdateEndpointKeeps ==
  ASSUME Inv, NEW u \in Urls, NEW s \in Secrets, UpdateEndpoint(u, s)
  PROVE  Inv'
<1>1. /\ endpoint' = [endpoint EXCEPT !.url = u, !.secret = s] /\ endpoint.live
      /\ row' = [d \in Deliveries |-> Retired(row[d])]
      /\ UNCHANGED <<jobs, proc, turn, owed, got, by>>
  BY Zenon DEF UpdateEndpoint, Retires
<1>2. endpoint' \in [live : BOOLEAN, url : Urls, secret : Secrets] /\ endpoint'.live
  <2>1. endpoint \in [live : BOOLEAN, url : Urls, secret : Secrets]
    BY Zenon DEF Inv, TypeOK
  <2>2. endpoint' \in [live : BOOLEAN, url : Urls, secret : Secrets]
    BY <1>1, <2>1, ZenonT(30)
  <2>3. endpoint'.live = endpoint.live
    BY <1>1, <2>1, Zenon
  <2> QED
    BY <1>1, <2>2, <2>3, Zenon
<1>3. ASSUME NEW d \in Deliveries
      PROVE  /\ row'[d] \in Row /\ row[d] \in Row
             /\ Open(row[d]) => /\ row'[d].status = "dead" /\ row'[d].retired
                                /\ row'[d].holder = Nobody
             /\ ~Open(row[d]) => row'[d] = row[d]
  <2>1. row[d] \in Row /\ row'[d] = Retired(row[d])
    BY <1>1, Zenon DEF Inv, TypeOK
  <2>2. CASE ~Open(row[d])
    BY <2>1, <2>2, Zenon DEF Retired
  <2>3. CASE Open(row[d])
    <3>1. row'[d] = [row[d] EXCEPT !.status = "dead", !.due = "never", !.holder = Nobody,
                                   !.live = FALSE, !.retired = TRUE]
      BY <2>1, <2>3, Zenon DEF Retired
    <3>2. row'[d] \in Row
      BY <2>1, <3>1, ZenonT(30) DEF Row
    <3>3. row'[d].status = "dead" /\ row'[d].retired = TRUE /\ row'[d].holder = Nobody
      BY <2>1, <3>1, Zenon DEF Row
    <3> QED
      BY <2>1, <2>3, <3>2, <3>3, Zenon
  <2> QED
    BY <2>2, <2>3, Zenon
<1>4. TypeOK'
  <2>1. row' \in [Deliveries -> Row]
    BY <1>1, <1>3, Zenon
  <2> QED
    BY <1>1, <1>2, <2>1, Zenon DEF Inv, TypeOK
<1>5. ASSUME NEW d \in Deliveries PROVE RowSound(d)'
  <2>1. CASE Open(row[d])
    BY <1>2, <1>3, <2>1, Zenon DEF RowSound, Open
  <2>2. CASE ~Open(row[d])
    BY <1>1, <1>2, <1>3, <2>2, ZenonT(40) DEF RowSound, Inv
  <2> QED
    BY <2>1, <2>2, Zenon
<1>6. ASSUME NEW q \in Processes PROVE AttemptSound(q)'
  <2>1. AttemptSound(q) /\ (proc[q].pc # "idle" => proc[q].d \in Deliveries) /\ q # Nobody
    BY InHand, WebhookAssumption, Zenon DEF Inv, WebhookAssumption
  <2>2. proc[q].pc # "idle" =>
          /\ row[proc[q].d].status # "absent" => row'[proc[q].d].status # "absent"
          /\ row'[proc[q].d].holder = q => row[proc[q].d].holder = q
    BY <1>3, <2>1, Zenon
  <2> QED
    BY <1>1, <2>1, <2>2, Zenon DEF AttemptSound
<1> QED
  BY <1>4, <1>5, <1>6, Zenon DEF Inv

\* With the endpoint its rows go.
LEMMA DeleteEndpointKeeps == ASSUME Inv, DeleteEndpoint PROVE Inv'
<1>1. /\ endpoint' = [endpoint EXCEPT !.live = FALSE] /\ row' = [d \in Deliveries |-> Absent]
      /\ UNCHANGED <<jobs, proc, turn, owed, got, by>>
  BY Zenon DEF DeleteEndpoint
<1>2. endpoint' \in [live : BOOLEAN, url : Urls, secret : Secrets] /\ ~endpoint'.live
  <2>1. endpoint \in [live : BOOLEAN, url : Urls, secret : Secrets]
    BY Zenon DEF Inv, TypeOK
  <2>2. endpoint' \in [live : BOOLEAN, url : Urls, secret : Secrets]
    BY <1>1, <2>1, ZenonT(30)
  <2>3. endpoint'.live = FALSE
    BY <1>1, <2>1, Zenon
  <2> QED
    BY <2>2, <2>3, Zenon
<1>3. Absent \in Row
  BY WebhookAssumption DEF Absent, Row, WebhookAssumption
<1>4. TypeOK'
  BY <1>1, <1>2, <1>3, Zenon, SMTT(30) DEF Inv, TypeOK
<1>5. ASSUME NEW d \in Deliveries PROVE RowSound(d)'
  BY <1>1, Zenon DEF RowSound, Absent, Open
<1>6. ASSUME NEW q \in Processes PROVE AttemptSound(q)'
  <2>1. AttemptSound(q) /\ (proc[q].pc # "idle" => proc[q].d \in Deliveries) /\ q # Nobody
    BY InHand, WebhookAssumption, Zenon DEF Inv, WebhookAssumption
  <2>2. proc[q].pc # "idle" => row'[proc[q].d].holder = Nobody
    BY <1>1, <2>1, Zenon DEF Absent
  <2> QED
    BY <1>1, <1>2, <2>1, <2>2, Zenon DEF AttemptSound
<1> QED
  BY <1>4, <1>5, <1>6, Zenon DEF Inv

LEMMA InitInv == Init => Inv
<1> SUFFICES ASSUME Init PROVE Inv
  OBVIOUS
<1>1. Absent \in Row /\ 0 \in Turns /\ 0 \in Secrets
  BY WebhookAssumption DEF Absent, Row, Turns, Secrets, WebhookAssumption
<1>2. endpoint \in [live : BOOLEAN, url : Urls, secret : Secrets] /\ Current \in Identity
  BY <1>1, Zenon, SMTT(30) DEF Init, Current, Identity
<1>3. TypeOK
  BY <1>1, <1>2, Zenon DEF Init, TypeOK
<1>4. ASSUME NEW d \in Deliveries PROVE RowSound(d)
  BY Zenon DEF Init, RowSound, Absent, Open
<1>5. ASSUME NEW p \in Processes PROVE AttemptSound(p)
  BY Zenon DEF Init, AttemptSound, Idle
<1> QED
  BY <1>3, <1>4, <1>5, Zenon DEF Inv

LEMMA NextInv == Inv /\ [Next]_vars => Inv'
<1> SUFFICES ASSUME Inv, [Next]_vars PROVE Inv'
  OBVIOUS
<1>1. CASE Steps
  BY <1>1, EmitKeeps, ReplayKeeps, AdmitKeeps, TakeKeeps, LookKeeps, ClaimKeeps, AcceptedKeeps,
     RefusedKeeps, RecordKeeps, AnnounceKeeps, ListDueKeeps, ClockKeeps, Zenon DEF Steps, Calls, Work
<1>2. CASE Mishaps \/ Deaths
  BY <1>2, AnnounceFailsKeeps, RecordFailsKeeps, AbandonKeeps, Zenon DEF Mishaps, Deaths
<1>3. CASE Administration
  BY <1>3, UpdateEndpointKeeps, DeleteEndpointKeeps, Zenon DEF Administration
<1>4. CASE UNCHANGED vars
  <2>1. TypeOK'
    BY <1>4, Zenon DEF vars, Inv, TypeOK
  <2>2. ASSUME NEW d \in Deliveries PROVE RowSound(d)'
    BY <1>4, Zenon DEF vars, Inv, RowSound, Current
  <2>3. ASSUME NEW p \in Processes PROVE AttemptSound(p)'
    BY <1>4, Zenon DEF vars, Inv, AttemptSound
  <2> QED
    BY <2>1, <2>2, <2>3, Zenon DEF Inv
<1> QED
  BY <1>1, <1>2, <1>3, <1>4, Zenon DEF Next

-----------------------------------------------------------------------------
(* Results *)

\* Inv is an invariant.
THEOREM Invariance == Spec => []Inv
BY InitInv, NextInv, PTL DEF Spec

\* Every row, job and process has its type.
THEOREM TypeCorrect == Spec => []TypeOK
<1>1. Inv => TypeOK
  BY Zenon DEF Inv
<1> QED
  BY <1>1, Invariance, PTL

\* The outcome in a row is of the last turn, and a delivery counts as delivered
\* only when the receiver accepted an attempt of that turn (the lease token in
\* markDeliveryDelivered, markDeliveryFailed and markDeliveryDead).
THEOREM OutcomeIsCurrentHolds == Spec => []OutcomeIsCurrent
<1>1. Inv => OutcomeIsCurrent
  BY Zenon DEF Inv, RowSound, OutcomeIsCurrent
<1> QED
  BY <1>1, Invariance, PTL

\* An attempt of the last turn goes to the URL its delivery was queued for, with
\* the secret of that time (createDelivery's re-check, updateEndpoint's
\* updateMany and isReplayRefused between them).
THEOREM SentWhereQueuedHolds == Spec => []SentWhereQueued
<1>1. Inv => SentWhereQueued
  BY Zenon DEF Inv, AttemptSound, SentWhereQueued, At
<1> QED
  BY <1>1, Invariance, PTL

SameEnd(d) == row'[d].status = row[d].status /\ row'[d].retired = row[d].retired

\* What a step makes of a row that is settled: it stays so, unless it is
\* replayed or its endpoint deleted; a retired row is not replayed either.
LEMMA SettledRow ==
  ASSUME Inv, Inv', [Next]_vars, NEW d \in Deliveries, row[d].status \in {"delivered", "dead"},
         endpoint'.live
  PROVE  \/ SameEnd(d)
         \/ ~(row[d].status = "dead" /\ row[d].retired) /\ turn'[d] # turn[d]
<1>1. ~Open(row[d]) /\ row[d].holder = Nobody /\ row[d] \in Row
  BY Zenon DEF Inv, TypeOK, RowSound, Open
<1>2. CASE row' = row
  BY <1>2, Zenon DEF SameEnd
<1>3. ASSUME NEW p \in Processes, Admit(p) PROVE row'[d] = row[d]
  <2>1. proc[p].d \in Deliveries
    BY <1>3, InHand, Zenon DEF Admit, At, Inv
  <2> QED
    BY <1>3, <2>1, Zenon DEF Admit, SetRow, Inv, TypeOK
<1>4. ASSUME NEW p \in Processes, Claim(p) PROVE row'[d] = row[d]
  <2>1. proc[p].d \in Deliveries
    BY <1>4, InHand, Zenon DEF Claim, At, Inv
  <2>2. proc[p].d = d => ~CanClaim(row[d], proc[p].n)
    BY <1>1, Zenon DEF CanClaim, Due
  <2> QED
    BY <1>4, <2>1, <2>2, Zenon DEF Claim, SetRow, Inv, TypeOK
<1>5. ASSUME NEW p \in Processes, Record(p) PROVE row'[d] = row[d]
  <2>1. proc[p].d \in Deliveries
    BY <1>5, InHand, Zenon DEF Record, At, Inv
  <2>2. proc[p].d = d => ~Owns(row[d], p, proc[p].n)
    BY <1>1, WebhookAssumption, Zenon DEF Owns, WebhookAssumption
  <2>3. CASE proc[p].d = d
    BY <1>5, <2>2, <2>3, Zenon DEF Record
  <2>4. CASE proc[p].d # d
    <3>1. row' = row \/ \E r : SetRow(proc[p].d, r)
      BY <1>5, Zenon DEF Record
    <3> QED
      BY <2>1, <2>4, <3>1, Zenon DEF SetRow, Inv, TypeOK
  <2> QED
    BY <2>3, <2>4, Zenon
<1>6. ASSUME NEW p \in Processes, NEW e \in Deliveries, Replay(p, e)
      PROVE  \/ SameEnd(d)
             \/ ~(row[d].status = "dead" /\ row[d].retired) /\ turn'[d] # turn[d]
  <2>1. CASE e = d
    <3>1. ~(row[d].status = "dead" /\ row[d].retired)
      BY <1>6, <2>1, Zenon DEF Replay, CanReplay
    <3>2. turn'[d] = turn[d] + 1 /\ turn[d] \in Nat
      BY <1>6, <2>1 DEF Replay, Inv, TypeOK, Turns
    <3>3. turn'[d] # turn[d]
      BY <3>2, SMTT(30)
    <3> QED
      BY <3>1, <3>3, Zenon, SMTT(30)
  <2>2. CASE e # d
    BY <1>6, <2>2, Zenon DEF Replay, SetRow, Inv, TypeOK, SameEnd
  <2> QED
    BY <2>1, <2>2, Zenon
<1>7. ASSUME NEW e \in Deliveries, LeaseExpires(e) \/ BecomesDue(e)
      PROVE  SameEnd(d)
  <2>1. PICK r : r \in {[row[e] EXCEPT !.live = FALSE], [row[e] EXCEPT !.due = "now"]} /\ SetRow(e, r)
    BY <1>7, Zenon DEF LeaseExpires, BecomesDue
  <2>2. row[e] \in Row
    BY Zenon DEF Inv, TypeOK
  <2>3. r.status = row[e].status /\ r.retired = row[e].retired
    BY <2>1, <2>2, Zenon DEF Row
  <2>4. row'[d] = IF d = e THEN r ELSE row[d]
    BY <2>1, Zenon DEF SetRow, Inv, TypeOK
  <2> QED
    BY <2>3, <2>4, Zenon DEF SameEnd
<1>8. ASSUME NEW u \in Urls, NEW s \in Secrets, UpdateEndpoint(u, s) PROVE row'[d] = row[d]
  BY <1>1, <1>8, Zenon DEF UpdateEndpoint, Retired
<1>9. CASE DeleteEndpoint
  <2>1. endpoint' = [endpoint EXCEPT !.live = FALSE]
        /\ endpoint \in [live : BOOLEAN, url : Urls, secret : Secrets]
    BY <1>9, Zenon DEF DeleteEndpoint, Inv, TypeOK
  <2>2. endpoint'.live = FALSE
    BY <2>1, Zenon
  <2> QED
    BY <2>2, Zenon
<1>10. ASSUME NEW p \in Processes, NEW e \in Deliveries, NEW n \in Attempts, Take(p, e, n)
       PROVE  row' = row
  BY <1>10, Zenon DEF Take
<1>11. ASSUME NEW p \in Processes, Announce(p) \/ Look(p) \/ Accepted(p) \/ Refused(p)
       PROVE  row' = row
  BY <1>11, Zenon DEF Look, Accepted, Refused, Announce
<1>12. ASSUME NEW p \in Processes, NEW e \in Deliveries, Emit(p, e) \/ ListDue(p, e)
       PROVE  row' = row
  BY <1>12, Zenon DEF Emit, ListDue
<1>13. ASSUME NEW p \in Processes, AnnounceFails(p) \/ RecordFails(p) \/ Abandon(p)
       PROVE  row' = row
  BY <1>13, Zenon DEF AnnounceFails, RecordFails, Abandon
<1>14. row'[d] = row[d] => SameEnd(d)
  BY Zenon DEF SameEnd
<1>15. CASE Steps
  BY <1>2, <1>3, <1>4, <1>5, <1>6, <1>7, <1>10, <1>11, <1>12, <1>14, <1>15, Zenon
  DEF Steps, Calls, Work
<1>16. CASE Mishaps \/ Deaths
  BY <1>2, <1>13, <1>16, Zenon DEF Mishaps, Deaths
<1>17. CASE Administration
  BY <1>8, <1>9, <1>14, <1>17, Zenon DEF Administration
<1>18. CASE UNCHANGED vars
  BY <1>2, <1>18, Zenon DEF vars
<1> QED
  BY <1>15, <1>16, <1>17, <1>18, Zenon DEF Next

\* A settled delivery is reopened by nothing but a replay or the deletion of its
\* endpoint, and a retired one by no replay (the status and token in the WHERE
\* clauses of claimDeliveryAttempt and of the three outcomes, isReplayRefused).
THEOREM FinalStaysHolds == Spec => FinalStays
<1>1. ASSUME Inv, Inv', [Next]_vars, NEW d \in Deliveries
      PROVE  /\ row[d].status \in {"delivered", "dead"} /\ row'[d].status # row[d].status =>
                  turn'[d] # turn[d] \/ ~endpoint'.live
             /\ row[d].retired => row'[d].retired \/ ~endpoint'.live
  <2>1. row[d].retired => row[d].status = "dead"
    BY <1>1, Zenon DEF Inv, RowSound
  <2> QED
    BY <1>1, <2>1, SettledRow, Zenon DEF SameEnd
<1>2. Inv /\ Inv' /\ [Next]_vars =>
        [\A d \in Deliveries :
           /\ row[d].status \in {"delivered", "dead"}
           /\ row'[d].status # row[d].status
           => turn'[d] # turn[d] \/ ~endpoint'.live]_vars
  BY <1>1, Zenon
<1>3. Inv /\ Inv' /\ [Next]_vars =>
        [\A d \in Deliveries : row[d].retired => row'[d].retired \/ ~endpoint'.live]_vars
  BY <1>1, Zenon
<1>4. Spec => SettledStays
  BY <1>2, Invariance, PTL DEF Spec, SettledStays
<1>5. Spec => RetiredIsFinal
  BY <1>3, Invariance, PTL DEF Spec, RetiredIsFinal
<1> QED
  BY <1>4, <1>5, PTL DEF FinalStays
==============================================================================
