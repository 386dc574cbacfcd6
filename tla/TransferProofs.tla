--------------------------- MODULE TransferProofs ---------------------------
(***************************************************************************)
(* Proofs about Transfer for any number of users, transfers and calls: the *)
(* resource never has two owners, at most one transfer of it is open,      *)
(* ownership moves only by a confirmed transfer, and a closed transfer     *)
(* stays closed.                                                           *)
(***************************************************************************)
EXTENDS Transfer, TLAPS

CallType == Transaction \cup SharingCall \cup {Idle}

\* What a call may rely on: a transaction that is not stale still sees the
\* rows it is about to write as they are, and no sharing call gives ownership.
Sound(k) ==
  /\ k.pc = "initiate" => k.from # k.to
  /\ k.pc = "initiate" /\ ~k.stale => NoActive
  /\ k.pc \in {"confirm", "expire"} /\ ~k.stale => transfers[k.t].status = "accepted"
  /\ k.pc = "confirm" /\ ~k.stale =>
       /\ Owner(transfers[k.t].from)
       /\ transfers[k.t].keep \/ transfers[k.t].from \in k.others
  /\ k.pc \in {"add", "change", "remove"} => k.as # "owner"

Apart == \A t \in Transfers : Open(t) => transfers[t].from # transfers[t].to

\* The inductive invariant.
Inv ==
  /\ TypeOK /\ SoleOwner /\ OneActive /\ Apart
  /\ \A c \in Calls : Sound(call[c])

-----------------------------------------------------------------------------
(* A call somebody else's commit passed over *)

\* What After does to the calls that did not commit: they keep their place and
\* their reading, and are not fresh any more if the commit wrote their rows.
Passed(o, n, users, ts, resource) ==
  /\ n \in CallType /\ n.pc = o.pc
  /\ o.pc = "initiate" =>
       /\ n.from = o.from /\ n.to = o.to /\ n.keep = o.keep
       /\ ~n.stale => ~o.stale /\ ~resource
  /\ o.pc \in {"confirm", "expire"} =>
       /\ n.t = o.t /\ n.others = o.others
       /\ ~n.stale => ~o.stale /\ ~MadeStale(o, users, ts, resource)
  /\ o.pc \in {"add", "change", "remove"} => n.user = o.user /\ n.as = o.as
  /\ o.pc = "group" => n.grant = o.grant

\* An untouched call.
LEMMA PassedSame ==
  ASSUME NEW o \in CallType, NEW users, NEW ts, NEW resource \in BOOLEAN,
         ~MadeStale(o, users, ts, resource)
  PROVE  Passed(o, o, users, ts, resource)
BY Zenon DEF Passed, MadeStale, CallType, Transaction, SharingCall, Idle

\* A call that became stale.
LEMMA PassedStale ==
  ASSUME NEW o \in CallType, NEW users, NEW ts, NEW resource \in BOOLEAN,
         MadeStale(o, users, ts, resource)
  PROVE  Passed(o, [o EXCEPT !.stale = TRUE], users, ts, resource)
<1> DEFINE n == [o EXCEPT !.stale = TRUE]
<1>1. o \in Transaction
  BY SMTT(30) DEF MadeStale, CallType, Transaction, SharingCall, Idle
<1>2. n \in Transaction
  BY <1>1, Zenon DEF Transaction
<1>3. n.stale
  BY <1>1, Zenon DEF Transaction
<1> QED
  BY <1>1, <1>2, <1>3, Zenon DEF Passed, CallType, Transaction

\* A call whose row was deleted.
LEMMA PassedGone ==
  ASSUME NEW o \in CallType, NEW users, NEW ts, NEW resource \in BOOLEAN,
         o.pc \in {"change", "remove"}
  PROVE  Passed(o, [o EXCEPT !.gone = TRUE], users, ts, resource)
<1>1. o \in SharingCall /\ o.pc # "group"
  BY SMTT(30) DEF CallType, Transaction, SharingCall, Idle
<1> QED
  BY <1>1, Zenon DEF Passed, CallType, SharingCall

\* What a commit does to a call of somebody else.
LEMMA TouchedPasses ==
  ASSUME NEW o \in CallType, NEW users, NEW removed, NEW ts, NEW resource \in BOOLEAN
  PROVE  Passed(o, Touched(o, users, removed, ts, resource), users, ts, resource)
<1> DEFINE n == Touched(o, users, removed, ts, resource)
<1>1. CASE MadeStale(o, users, ts, resource)
  <2>1. n = [o EXCEPT !.stale = TRUE]
    BY <1>1, Zenon DEF Touched
  <2> QED
    BY <1>1, <2>1, PassedStale, Zenon
<1>2. CASE ~MadeStale(o, users, ts, resource) /\ o.pc \in {"change", "remove"} /\ o.user \in removed
  <2>1. n = [o EXCEPT !.gone = TRUE]
    BY <1>2, Zenon DEF Touched
  <2> QED
    BY <1>2, <2>1, PassedGone, SMTT(30)
<1>3. CASE ~MadeStale(o, users, ts, resource) /\ ~(o.pc \in {"change", "remove"} /\ o.user \in removed)
  <2>1. n = o
    BY <1>3, Zenon DEF Touched
  <2> QED
    BY <1>3, <2>1, PassedSame, Zenon
<1> QED
  BY <1>1, <1>2, <1>3, Zenon

\* The calls after a commit of call c.
LEMMA CommitPasses ==
  ASSUME TypeOK, NEW c \in Calls, NEW users, NEW removed, NEW ts, NEW resource \in BOOLEAN,
         Commit(c, users, removed, ts, resource)
  PROVE  /\ call' \in [Calls -> CallType] /\ call'[c] = Idle
         /\ \A d \in Calls \ {c} : Passed(call[d], call'[d], users, ts, resource)
<1>1. \A d \in Calls : call[d] \in CallType
  BY Zenon DEF TypeOK, CallType
<1>2. call'[c] = Idle
  BY Zenon DEF Commit
<1>3. \A d \in Calls \ {c} : call'[d] = Touched(call[d], users, removed, ts, resource)
  BY Zenon DEF Commit
<1>4. \A d \in Calls \ {c} : Passed(call[d], call'[d], users, ts, resource)
  BY <1>1, <1>3, TouchedPasses, Zenon
<1>5. \A d \in Calls : call'[d] \in CallType
  BY <1>2, <1>4, Zenon DEF Passed, CallType
<1>6. call' = [d \in Calls |-> call'[d]]
  BY Zenon DEF Commit
<1> QED
  BY <1>2, <1>4, <1>5, <1>6, Zenon

\* The calls after a statement outside the calls that writes transfer t.
LEMMA SetStatusPasses ==
  ASSUME TypeOK, NEW t, NEW status, SetStatus(t, status)
  PROVE  /\ call' \in [Calls -> CallType]
         /\ \A d \in Calls : Passed(call[d], call'[d], {}, {t}, FALSE)
<1>1. \A d \in Calls : call[d] \in CallType
  BY Zenon DEF TypeOK, CallType
<1>3. \A d \in Calls : call'[d] = Touched(call[d], {}, {}, {t}, FALSE)
  BY Zenon DEF SetStatus
<1>4. \A d \in Calls : Passed(call[d], call'[d], {}, {t}, FALSE)
  BY <1>1, <1>3, TouchedPasses, Zenon
<1>5. \A d \in Calls : call'[d] \in CallType
  BY <1>4, Zenon DEF Passed
<1>6. call' = [d \in Calls |-> call'[d]]
  BY Zenon DEF SetStatus
<1> QED
  BY <1>4, <1>5, <1>6, Zenon

-----------------------------------------------------------------------------
(* The steps *)

\* Statements that move a transfer out of a status, to one that is not open or
\* from pending to accepted.
LEMMA SetStatusStep ==
  ASSUME Inv, UNCHANGED resourceType, NEW t \in Transfers, NEW status, SetStatus(t, status), Open(t),
         status \in {"accepted", "declined", "cancelled", "expired"}
  PROVE  Inv'
<1> USE DEF Inv
<1>1. /\ call' \in [Calls -> CallType]
      /\ \A d \in Calls : Passed(call[d], call'[d], {}, {t}, FALSE)
  BY SetStatusPasses, Zenon
<1>2. /\ transfers' \in [Transfers -> Transfer]
      /\ \A u \in Transfers : /\ transfers'[u].from = transfers[u].from
                              /\ transfers'[u].to = transfers[u].to
                              /\ transfers'[u].keep = transfers[u].keep
                              /\ u # t => transfers'[u] = transfers[u]
                              /\ Open(u)' => Open(u)
  BY Zenon DEF SetStatus, TypeOK, Transfer, Open
<1>3. role' = role /\ grouped' = grouped /\ column' = column
  BY Zenon DEF SetStatus
<1>4. TypeOK'
  BY <1>1, <1>2, <1>3, Zenon DEF TypeOK, CallType
<1>5. SoleOwner'
  BY <1>3, Zenon DEF SoleOwner, Owner
<1>6. OneActive' /\ Apart'
  BY <1>2, Zenon DEF OneActive, Apart
<1>7. ASSUME NEW d \in Calls PROVE Sound(call[d])'
  <2>1. Sound(call[d]) /\ Passed(call[d], call'[d], {}, {t}, FALSE) /\ call[d] \in CallType
    BY <1>1, Zenon DEF TypeOK, CallType
  <2>2. NoActive => NoActive'
    BY <1>2, Zenon DEF NoActive
  <2>3. call[d].pc = "initiate" => Sound(call[d])'
    BY <2>1, <2>2, Zenon DEF Sound, Passed
  <2>4. call[d].pc \in {"confirm", "expire"} => Sound(call[d])'
    <3>1. call[d].t \in Transfers \/ call[d].pc \notin {"confirm", "expire"}
      BY <2>1, SMTT(30) DEF CallType, Transaction, SharingCall, Idle
    <3>2. call[d].pc \in {"confirm", "expire"} /\ call[d].t = t => call'[d].stale
      BY <2>1, Zenon DEF Passed, MadeStale
    <3> QED
      BY <1>2, <1>3, <2>1, <3>1, <3>2, ZenonT(40) DEF Sound, Passed, Owner
  <2>5. call[d].pc \notin {"initiate", "confirm", "expire"} => Sound(call[d])'
    BY <2>1, Zenon DEF Sound, Passed
  <2> QED
    BY <2>3, <2>4, <2>5, Zenon
<1> QED
  BY <1>4, <1>5, <1>6, <1>7, Zenon

\* Steps that change nothing but one call.
LEMMA CallStep ==
  ASSUME Inv, UNCHANGED resourceType, NEW c \in Calls, NEW k \in CallType, Sound(k),
         call' = [call EXCEPT ![c] = k],
         UNCHANGED <<role, grouped, column, transfers>>
  PROVE  Inv'
<1> USE DEF Inv
<1>1. TypeOK'
  BY Zenon DEF TypeOK, CallType
<1>2. SoleOwner' /\ OneActive' /\ Apart'
  BY Zenon DEF SoleOwner, OneActive, Apart, Owner, Open
<1>3. \A d \in Calls : call'[d] = call[d] \/ call'[d] = k
  BY Zenon DEF TypeOK
<1>4. \A d \in Calls : Sound(call[d])'
  BY <1>3, ZenonT(40) DEF Sound, NoActive, Open, Owner
<1> QED
  BY <1>1, <1>2, <1>4, Zenon

\* The clock passes a transfer's expiry.
LEMMA LapseStep ==
  ASSUME Inv, UNCHANGED resourceType, NEW t \in Transfers, Lapse(t)
  PROVE  Inv'
<1> USE DEF Inv
<1>1. /\ transfers' \in [Transfers -> Transfer]
      /\ \A u \in Transfers : /\ transfers'[u].from = transfers[u].from
                              /\ transfers'[u].to = transfers[u].to
                              /\ transfers'[u].keep = transfers[u].keep
                              /\ transfers'[u].status = transfers[u].status
  BY Zenon DEF Lapse, TypeOK, Transfer
<1>2. UNCHANGED <<role, grouped, column, call>>
  BY Zenon DEF Lapse
<1>3. TypeOK'
  BY <1>1, <1>2, Zenon DEF TypeOK
<1>4. SoleOwner' /\ OneActive' /\ Apart'
  BY <1>1, <1>2, Zenon DEF SoleOwner, OneActive, Apart, Owner, Open
<1>5. ASSUME NEW d \in Calls PROVE Sound(call[d])'
  <2>1. call[d].pc \in {"confirm", "expire"} => call[d].t \in Transfers
    BY SMTT(30) DEF TypeOK, Transaction, SharingCall, Idle
  <2>2. NoActive => NoActive'
    BY <1>1, Zenon DEF NoActive, Open
  <2> QED
    BY <1>1, <1>2, <2>1, <2>2, Zenon DEF Sound, Owner
<1> QED
  BY <1>3, <1>4, <1>5, Zenon

\* Two initiations that overlap: the second to commit is stale.
LEMMA InitiateStep ==
  ASSUME Inv, UNCHANGED resourceType, NEW c \in Calls, NEW t \in Transfers, InitiateCommit(c, t)
  PROVE  Inv'
<1> USE DEF Inv
<1> DEFINE k == call[c]
<1>1. /\ call' \in [Calls -> CallType] /\ call'[c] = Idle
      /\ \A d \in Calls \ {c} : Passed(call[d], call'[d], {}, {t}, TRUE)
  BY CommitPasses, Zenon DEF InitiateCommit
<1>2. k.from \in Users /\ k.to \in Users /\ k.keep \in BOOLEAN
  BY SMTT(30) DEF InitiateCommit, At, TypeOK, Transaction, SharingCall, Idle
<1>3. NoActive /\ k.from # k.to
  BY Zenon DEF InitiateCommit, At, Sound
<1>4. /\ transfers'[t].status = "pending" /\ transfers'[t].from = k.from /\ transfers'[t].to = k.to
      /\ \A u \in Transfers \ {t} : transfers'[u] = transfers[u]
      /\ transfers' \in [Transfers -> Transfer]
  BY <1>2, Zenon DEF InitiateCommit, TypeOK, Transfer
<1>5. role' = role /\ grouped' = grouped /\ column' = column
  BY Zenon DEF InitiateCommit
<1>6. TypeOK'
  BY <1>1, <1>4, <1>5, Zenon DEF TypeOK, CallType
<1>7. SoleOwner'
  BY <1>5, Zenon DEF SoleOwner, Owner
<1>8. \A u \in Transfers : Open(u)' => u = t
  BY <1>3, <1>4, Zenon DEF NoActive, Open
<1>9. OneActive' /\ Apart'
  BY <1>3, <1>4, <1>8, Zenon DEF OneActive, Apart
<1>10. ASSUME NEW d \in Calls PROVE Sound(call[d])'
  <2>1. CASE d = c
    BY <1>1, <2>1, SMTT(30) DEF Sound, Idle
  <2>2. CASE d # c
    <3>1. Sound(call[d]) /\ Passed(call[d], call'[d], {}, {t}, TRUE) /\ call[d] \in CallType
      BY <1>1, <2>2, Zenon DEF TypeOK, CallType
    <3>2. call[d].pc = "confirm" => call'[d].stale
      BY <3>1, Zenon DEF Passed, MadeStale
    <3>3. call[d].pc = "expire" /\ call[d].t = t => call'[d].stale
      BY <3>1, Zenon DEF Passed, MadeStale
    <3>4. call[d].pc = "expire" => call[d].t \in Transfers
      BY <3>1, SMTT(30) DEF CallType, Transaction, SharingCall, Idle
    <3> QED
      BY <1>4, <3>1, <3>2, <3>3, <3>4, Zenon DEF Sound, Passed
  <2> QED
    BY <2>1, <2>2, Zenon
<1> QED
  BY <1>6, <1>7, <1>9, <1>10, Zenon

\* confirmTransfer finds its transfer overdue.
LEMMA ExpireStep ==
  ASSUME Inv, UNCHANGED resourceType, NEW c \in Calls, ExpireCommit(c)
  PROVE  Inv'
<1> USE DEF Inv
<1> DEFINE t == call[c].t
<1>1. t \in Transfers /\ transfers[t].status = "accepted"
  BY SMTT(30) DEF ExpireCommit, At, TypeOK, Transaction, SharingCall, Idle, Sound
<1>2. /\ call' \in [Calls -> CallType] /\ call'[c] = Idle
      /\ \A d \in Calls \ {c} : Passed(call[d], call'[d], {}, {t}, FALSE)
  BY CommitPasses, Zenon DEF ExpireCommit
<1>3. /\ transfers' \in [Transfers -> Transfer]
      /\ \A u \in Transfers : /\ transfers'[u].from = transfers[u].from
                              /\ transfers'[u].to = transfers[u].to
                              /\ transfers'[u].keep = transfers[u].keep
                              /\ u # t => transfers'[u] = transfers[u]
                              /\ Open(u)' => Open(u)
  BY <1>1, Zenon DEF ExpireCommit, TypeOK, Transfer, Open
<1>4. role' = role /\ grouped' = grouped /\ column' = column
  BY Zenon DEF ExpireCommit
<1>5. TypeOK'
  BY <1>2, <1>3, <1>4, Zenon DEF TypeOK, CallType
<1>6. SoleOwner' /\ OneActive' /\ Apart'
  BY <1>3, <1>4, Zenon DEF SoleOwner, OneActive, Apart, Owner
<1>7. ASSUME NEW d \in Calls PROVE Sound(call[d])'
  <2>1. CASE d = c
    BY <1>2, <2>1, SMTT(30) DEF Sound, Idle
  <2>2. CASE d # c
    <3>1. Sound(call[d]) /\ Passed(call[d], call'[d], {}, {t}, FALSE) /\ call[d] \in CallType
      BY <1>2, <2>2, Zenon DEF TypeOK, CallType
    <3>2. call[d].pc \in {"confirm", "expire"} /\ call[d].t = t => call'[d].stale
      BY <3>1, Zenon DEF Passed, MadeStale
    <3>3. call[d].pc \in {"confirm", "expire"} => call[d].t \in Transfers
      BY <3>1, SMTT(30) DEF CallType, Transaction, SharingCall, Idle
    <3>4. NoActive => NoActive'
      BY <1>3, Zenon DEF NoActive
    <3> HIDE DEF t
    <3> QED
      BY <1>3, <1>4, <3>1, <3>2, <3>3, <3>4, ZenonT(40) DEF Sound, Passed, Owner
  <2> QED
    BY <2>1, <2>2, Zenon
<1> QED
  BY <1>5, <1>6, <1>7, Zenon

\* The hand-over: one owner goes, one comes.
LEMMA ConfirmStep ==
  ASSUME Inv, UNCHANGED resourceType, NEW c \in Calls, ConfirmCommit(c)
  PROVE  Inv'
<1> USE DEF Inv
<1> DEFINE t == call[c].t
           from == transfers[t].from
           to == transfers[t].to
           others == call[c].others
<1>1. /\ t \in Transfers /\ others \subseteq Users
      /\ transfers[t].status = "accepted" /\ Owner(from)
      /\ transfers[t].keep \/ from \in others
  BY SMTT(30) DEF ConfirmCommit, At, TypeOK, Transaction, SharingCall, Idle, Sound
<1>2. from \in Users /\ to \in Users /\ from # to
  BY <1>1, Zenon DEF TypeOK, Transfer, Apart, Open
<1>3. /\ call' \in [Calls -> CallType] /\ call'[c] = Idle
      /\ \A d \in Calls \ {c} : Passed(call[d], call'[d], {from, to} \cup others, {t}, TRUE)
  BY CommitPasses, Zenon DEF ConfirmCommit
<1>4. /\ transfers' \in [Transfers -> Transfer]
      /\ \A u \in Transfers : /\ transfers'[u].from = transfers[u].from
                              /\ transfers'[u].to = transfers[u].to
                              /\ u # t => transfers'[u] = transfers[u]
                              /\ Open(u)' => Open(u)
  BY <1>1, Zenon DEF ConfirmCommit, TypeOK, Transfer, Open
<1>5. role' \in [Users -> Roles]
  BY Zenon DEF ConfirmCommit, Handed, TypeOK, Roles
<1>6. \A u \in Users : role'[u] = "owner" => u = to
  <2>1. \A u \in Users \ {to, from} : role'[u] = "owner" => role[u] = "owner"
    BY Zenon DEF ConfirmCommit, Handed
  <2>2. role'[from] # "owner"
    BY <1>2, Zenon DEF ConfirmCommit, Handed
  <2>3. \A u \in Users \ {from} : role[u] # "owner"
    BY <1>1, <1>2, Zenon DEF SoleOwner, Owner
  <2> HIDE DEF t, from, to, others
  <2> QED
    BY <2>1, <2>2, <2>3, Zenon
<1>7. grouped' \in BOOLEAN /\ column' \in Users
  <2>1. grouped' \in BOOLEAN
    BY Zenon DEF ConfirmCommit
  <2>2. column' \in Users
    BY <1>2, Zenon DEF ConfirmCommit, Column, TypeOK
  <2> QED
    BY <2>1, <2>2, Zenon
<1>8. TypeOK'
  BY <1>3, <1>4, <1>5, <1>7, Zenon DEF TypeOK, CallType
<1>9. SoleOwner'
  BY <1>6, Zenon DEF SoleOwner, Owner
<1>10. OneActive' /\ Apart'
  BY <1>4, Zenon DEF OneActive, Apart
<1>11. ASSUME NEW d \in Calls PROVE Sound(call[d])'
  <2>1. CASE d = c
    BY <1>3, <2>1, SMTT(30) DEF Sound, Idle
  <2>2. CASE d # c
    <3>1. Sound(call[d]) /\ Passed(call[d], call'[d], {from, to} \cup others, {t}, TRUE)
          /\ call[d] \in CallType
      BY <1>3, <2>2, Zenon DEF TypeOK, CallType
    <3>2. call[d].pc = "confirm" => call'[d].stale
      BY <3>1, Zenon DEF Passed, MadeStale
    <3>3. call[d].pc = "expire" /\ call[d].t = t => call'[d].stale
      BY <3>1, Zenon DEF Passed, MadeStale
    <3>4. call[d].pc = "expire" => call[d].t \in Transfers
      BY <3>1, SMTT(30) DEF CallType, Transaction, SharingCall, Idle
    <3> HIDE DEF t, from, to, others
    <3> QED
      BY <1>4, <3>1, <3>2, <3>3, <3>4, Zenon DEF Sound, Passed
  <2> QED
    BY <2>1, <2>2, Zenon
<1> QED
  BY <1>8, <1>9, <1>10, <1>11, Zenon

\* A sharing call writes a row, or the group grant (w is empty then).
LEMMA SharingStep ==
  ASSUME Inv, UNCHANGED resourceType, NEW c \in Calls, NEW w \in SUBSET Users, NEW removed, NEW resource \in BOOLEAN,
         Commit(c, w, removed, {}, resource),
         role' \in [Users -> Roles],
         \A u \in Users \ w : role'[u] = role[u],
         \A u \in w : role'[u] # "owner",
         grouped' \in BOOLEAN, UNCHANGED <<column, transfers>>
  PROVE  Inv'
<1> USE DEF Inv
<1>1. /\ call' \in [Calls -> CallType] /\ call'[c] = Idle
      /\ \A d \in Calls \ {c} : Passed(call[d], call'[d], w, {}, resource)
  BY CommitPasses, ZenonT(40)
<1>2. TypeOK'
  BY <1>1, Zenon DEF TypeOK, CallType
<1>3. \A u \in Users : role'[u] = "owner" => role[u] = "owner"
  OBVIOUS
<1>4. SoleOwner' /\ OneActive' /\ Apart'
  BY <1>3, Zenon DEF SoleOwner, OneActive, Apart, Owner, Open
<1>5. ASSUME NEW d \in Calls PROVE Sound(call[d])'
  <2>1. CASE d = c
    BY <1>1, <2>1, SMTT(30) DEF Sound, Idle
  <2>2. CASE d # c
    <3>1. Sound(call[d]) /\ Passed(call[d], call'[d], w, {}, resource) /\ call[d] \in CallType
      BY <1>1, <2>2, Zenon DEF TypeOK, CallType
    <3>2. ASSUME call[d].pc = "confirm", ~call'[d].stale
          PROVE  Owner(transfers[call[d].t].from)'
      <4>1. call[d].t \in Transfers
        BY <3>1, <3>2, SMTT(30) DEF CallType, Transaction, SharingCall, Idle
      <4>2. transfers[call[d].t].from \in Users
        BY <4>1, Zenon DEF TypeOK, Transfer
      <4>3. transfers[call[d].t].from \notin w
        BY <3>1, <3>2, Zenon DEF Passed, MadeStale
      <4>4. Owner(transfers[call[d].t].from)
        BY <3>1, <3>2, Zenon DEF Sound, Passed
      <4>5. call'[d].t = call[d].t
        BY <3>1, <3>2, Zenon DEF Passed
      <4> QED
        BY <4>2, <4>3, <4>4, <4>5, Zenon DEF Owner
    <3>3. NoActive => NoActive'
      BY Zenon DEF NoActive, Open
    <3> QED
      BY <3>1, <3>2, <3>3, Zenon DEF Sound, Passed
  <2> QED
    BY <2>1, <2>2, Zenon
<1> QED
  BY <1>2, <1>4, <1>5, Zenon

-----------------------------------------------------------------------------
(* The invariant *)

\* A statement on the transfer itself.
LEMMA TransferSteps ==
  ASSUME Inv, UNCHANGED resourceType, NEW t \in Transfers, TransferStep(t)
  PROVE  Inv'
<1>1. CASE Accept(t)
  BY <1>1, SetStatusStep, Zenon DEF Accept, Open
<1>2. CASE Decline(t)
  BY <1>2, SetStatusStep, Zenon DEF Decline, Open
<1>3. CASE Cancel(t)
  BY <1>3, SetStatusStep, Zenon DEF Cancel
<1>4. CASE Expire(t)
  BY <1>4, SetStatusStep, Zenon DEF Expire
<1>5. CASE Lapse(t)
  BY <1>5, LapseStep, Zenon
<1> QED
  BY <1>1, <1>2, <1>3, <1>4, <1>5, Zenon DEF TransferStep

\* A step of an initiation or a confirmation.
LEMMA TransactionSteps ==
  ASSUME Inv, UNCHANGED resourceType, NEW c \in Calls, Transacts(c)
  PROVE  Inv'
<1>1. ASSUME NEW from \in Users, NEW to \in Users, NEW keep \in BOOLEAN,
             InitiateBegin(c, from, to, keep)
      PROVE  Inv'
  <2> DEFINE k == [pc |-> "initiate", from |-> from, to |-> to, keep |-> keep, stale |-> FALSE]
  <2>1. k \in CallType
    BY Zenon DEF CallType, Transaction
  <2>2. Sound(k)
    BY <1>1, Zenon DEF Sound, InitiateBegin
  <2>3. call' = [call EXCEPT ![c] = k] /\ UNCHANGED <<role, grouped, column, transfers>>
    BY <1>1, Zenon DEF InitiateBegin, Begin
  <2> HIDE DEF k
  <2> QED
    BY <2>1, <2>2, <2>3, CallStep, Zenon
<1>2. ASSUME NEW t \in Transfers, InitiateCommit(c, t) PROVE Inv'
  BY <1>2, InitiateStep, Zenon
<1>3. ASSUME NEW t \in Transfers, ConfirmBegin(c, t) PROVE Inv'
  <2> DEFINE others == {u \in Users \ {transfers[t].to} : ~transfers[t].keep /\ role[u] # "none"}
             k == [pc |-> IF transfers[t].late THEN "expire" ELSE "confirm", t |-> t,
                   others |-> others, stale |-> FALSE]
  <2>1. k \in CallType
    BY Zenon DEF CallType, Transaction
  <2>2. transfers[t].status = "accepted" /\ (k.pc = "confirm" => Owner(transfers[t].from))
    BY <1>3, Zenon DEF ConfirmBegin, MayConfirm
  <2>3. transfers[t].from \in Users /\ transfers[t].from # transfers[t].to
    BY <2>2, Zenon DEF Inv, TypeOK, Transfer, Apart, Open
  <2>4. k.pc = "confirm" => transfers[t].keep \/ transfers[t].from \in others
    BY <2>2, <2>3, Zenon DEF Owner
  <2>5. Sound(k)
    BY <2>2, <2>4, Zenon DEF Sound
  <2>6. call' = [call EXCEPT ![c] = k] /\ UNCHANGED <<role, grouped, column, transfers>>
    BY <1>3, Zenon DEF ConfirmBegin, Begin
  <2> HIDE DEF k
  <2> QED
    BY <2>1, <2>5, <2>6, CallStep, Zenon
<1>4. CASE RollBack(c)
  <2>1. Idle \in CallType /\ Sound(Idle)
    BY Zenon DEF CallType, Sound, Idle
  <2> QED
    BY <1>4, <2>1, CallStep, Zenon DEF RollBack, Finish
<1> QED
  BY <1>1, <1>2, <1>3, <1>4, ConfirmStep, ExpireStep, Zenon DEF Transacts

\* A sharing call reads.
LEMMA SharingBegins ==
  ASSUME Inv, UNCHANGED resourceType, NEW c \in Calls, NEW k \in SharingCall,
         k.pc # "group" => k.as # "owner",
         Begin(c, k), UNCHANGED <<role, grouped, column, transfers>>
  PROVE  Inv'
<1>1. k \in CallType /\ Sound(k)
  BY Zenon DEF CallType, SharingCall, Sound
<1> QED
  BY <1>1, CallStep, Zenon DEF Begin

\* A sharing call reads or writes.
LEMMA SharingSteps ==
  ASSUME Inv, UNCHANGED resourceType, NEW c \in Calls, Shares(c)
  PROVE  Inv'
<1> DEFINE k == call[c]
<1>1. /\ k.pc \in {"add", "change", "remove"} =>
            k.user \in Users /\ k.as \in Roles /\ k.as # "owner"
      /\ k.pc = "group" => k.grant \in BOOLEAN
  BY SMTT(30) DEF Inv, TypeOK, Transaction, SharingCall, Idle, Sound
<1>2. Idle \in CallType /\ Sound(Idle)
  BY Zenon DEF CallType, Sound, Idle
<1>3. Finish(c) /\ UNCHANGED <<role, grouped, column, transfers>> => Inv'
  BY <1>2, CallStep, Zenon DEF Finish
<1>4. ASSUME NEW by \in Users, NEW u \in Users, RemoveBegin(c, by, u) PROVE Inv'
  BY <1>4, SharingBegins, Zenon DEF RemoveBegin, SharingCall, Roles
<1>5. ASSUME NEW by \in Users, NEW u \in Users, NEW as \in Roles, ShareBegin(c, by, u, as)
      PROVE  Inv'
  <2>1. as # "owner"
    BY <1>5, Zenon DEF ShareBegin, ShareRoles
  <2> QED
    BY <1>5, <2>1, SharingBegins, Zenon DEF ShareBegin, SharingCall, Roles
<1>6. ASSUME NEW by \in Users, NEW grant \in BOOLEAN, GroupBegin(c, by, grant) PROVE Inv'
  BY <1>6, SharingBegins, Zenon DEF GroupBegin, SharingCall
<1>7. ASSUME NEW r \in Roles, r # "owner", NEW removed, k.user \in Users,
             role' = [role EXCEPT ![k.user] = r], Commit(c, {k.user}, removed, {}, FALSE),
             UNCHANGED <<grouped, column, transfers>>
      PROVE  Inv'
  <2>1. /\ role' \in [Users -> Roles]
        /\ \A u \in Users \ {k.user} : role'[u] = role[u]
        /\ \A u \in {k.user} : role'[u] # "owner"
    BY <1>7, Zenon DEF Inv, TypeOK
  <2>2. grouped' \in BOOLEAN
    BY <1>7, Zenon DEF Inv, TypeOK
  <2> DEFINE w == {k.user}
  <2>3. w \in SUBSET Users /\ Commit(c, w, removed, {}, FALSE) /\ FALSE \in BOOLEAN
    BY <1>7, Zenon
  <2>4. (\A u \in Users \ w : role'[u] = role[u]) /\ \A u \in w : role'[u] # "owner"
    BY <2>1, Zenon
  <2> HIDE DEF w, k
  <2> QED
    BY <1>7, <2>1, <2>2, <2>3, <2>4, SharingStep, Zenon
<1>8. CASE Add(c)
  BY <1>1, <1>3, <1>7, <1>8, Zenon DEF Add, At, Given
<1>9. CASE Change(c)
  BY <1>1, <1>3, <1>7, <1>9, Zenon DEF Change, At, Given
<1>10. CASE Remove(c)
  BY <1>1, <1>3, <1>7, <1>10, Zenon DEF Remove, At, Roles
<1>11. CASE SetGroup(c)
  <2>1. grouped' \in BOOLEAN
    BY <1>1, <1>11, Zenon DEF SetGroup, At
  <2>2. role' = role /\ role \in [Users -> Roles] /\ UNCHANGED <<column, transfers>>
    BY <1>11, Zenon DEF SetGroup, Inv, TypeOK
  <2> DEFINE w == {}
  <2>3. w \in SUBSET Users /\ Commit(c, w, {}, {}, TRUE) /\ TRUE \in BOOLEAN
    BY <1>11, Zenon DEF SetGroup
  <2>4. (\A u \in Users \ w : role'[u] = role[u]) /\ \A u \in w : role'[u] # "owner"
    BY <2>2, Zenon
  <2> HIDE DEF w, k
  <2> QED
    BY <2>1, <2>2, <2>3, <2>4, SharingStep, Zenon
<1> QED
  BY <1>4, <1>5, <1>6, <1>8, <1>9, <1>10, <1>11, Zenon DEF Shares

\* The invariant is inductive.
THEOREM Invariance == Spec => []Inv
<1>1. Init => Inv
  <2> SUFFICES ASSUME Init PROVE Inv
    OBVIOUS
  <2>1. PICK owner \in Users :
          /\ column = owner
          /\ role \in {r \in [Users -> {"none", "viewer", "owner"}] :
                         \A u \in Users : r[u] = "owner" <=> u = owner}
          /\ transfers = [t \in Transfers |->
               [status |-> "absent", from |-> owner, to |-> owner, keep |-> TRUE, late |-> FALSE]]
    BY Zenon DEF Init
  <2>2. TypeOK
    <3>1. role \in [Users -> Roles] /\ column \in Users
      BY <2>1, Zenon DEF Roles
    <3>2. transfers \in [Transfers -> Transfer]
      BY <2>1, Zenon DEF Transfer
    <3>3. call \in [Calls -> Transaction \cup SharingCall \cup {Idle}]
      BY Zenon DEF Init
    <3>4. grouped \in BOOLEAN /\ resourceType \in {"wallet", "device"}
      BY Zenon DEF Init
    <3> QED
      BY <3>1, <3>2, <3>3, <3>4, Zenon DEF TypeOK
  <2>3. SoleOwner
    BY <2>1, Zenon DEF SoleOwner, Owner
  <2>4. \A t \in Transfers : ~Open(t)
    BY <2>1, Zenon DEF Open
  <2>5. \A c \in Calls : Sound(call[c])
    BY Zenon DEF Init, Sound, Idle
  <2> QED
    BY <2>2, <2>3, <2>4, <2>5, Zenon DEF Inv, OneActive, Apart
<1>2. Inv /\ [Next]_vars => Inv'
  <2> SUFFICES ASSUME Inv, [Next]_vars PROVE Inv'
    OBVIOUS
  <2>1. CASE Next
    BY <2>1, TransferSteps, TransactionSteps, SharingSteps, Zenon DEF Next
  <2>2. CASE UNCHANGED vars
    <3>1. UNCHANGED <<resourceType, role, grouped, column, transfers, call>>
      BY <2>2, Zenon DEF vars
    <3>2. TypeOK' /\ SoleOwner' /\ OneActive' /\ Apart'
      BY <3>1, Zenon DEF Inv, TypeOK, SoleOwner, OneActive, Apart, Open, Owner
    <3>3. \A c \in Calls : Sound(call[c])'
      BY <3>1, Zenon DEF Inv, Sound, NoActive, Open, Owner
    <3> QED
      BY <3>2, <3>3, Zenon DEF Inv
  <2> QED
    BY <2>1, <2>2, Zenon
<1> QED
  BY <1>1, <1>2, PTL DEF Spec

\* The resource never has two owners: confirm.ts demotes or removes the
\* initiator in the transaction that promotes the recipient, and the fence of
\* lockResourceOwnership keeps two of them apart.
THEOREM SoleOwnerHolds == Spec => []SoleOwner
<1>1. Inv => SoleOwner
  BY Zenon DEF Inv
<1> QED
  BY <1>1, Invariance, PTL

\* At most one transfer of a resource is open: the check and the insertion of
\* initiateTransfer are fenced against each other.
THEOREM OneActiveHolds == Spec => []OneActive
<1>1. Inv => OneActive
  BY Zenon DEF Inv
<1> QED
  BY <1>1, Invariance, PTL

\* Types hold.
THEOREM TypeCorrect == Spec => []TypeOK
<1>1. Inv => TypeOK
  BY Zenon DEF Inv
<1> QED
  BY <1>1, Invariance, PTL

\* Who becomes the owner was named in a transfer by the owner, accepted it and
\* had it confirmed.
THEOREM OwnershipMovesHolds == Spec => OwnershipMoves
<1> DEFINE Moves ==
      \A u \in Users :
        ~Owner(u) /\ Owner(u)' =>
          \E t \in Transfers :
            /\ transfers[t].status = "accepted" /\ transfers'[t].status = "confirmed"
            /\ transfers[t].to = u /\ Owner(transfers[t].from)
<1>1. Inv /\ [Next]_vars => Moves
  <2> SUFFICES ASSUME Inv, [Next]_vars, NEW u \in Users, role[u] # "owner", role'[u] = "owner"
               PROVE  \E t \in Transfers :
                        /\ transfers[t].status = "accepted" /\ transfers'[t].status = "confirmed"
                        /\ transfers[t].to = u /\ Owner(transfers[t].from)
    BY Zenon DEF Owner
  <2>1. \A k \in Calls : call[k].pc \in {"add", "change"} => call[k].as # "owner"
    BY Zenon DEF Inv, Sound
  <2>2. role \in [Users -> Roles]
    BY Zenon DEF Inv, TypeOK
  <2>3. role' # role
    OBVIOUS
  <2>4. \A t \in Transfers : ~TransferStep(t)
    BY <2>3, Zenon DEF TransferStep, Accept, Decline, Cancel, Expire, Lapse, SetStatus
  <2>5. \A c \in Calls : ~Shares(c)
    BY <2>1, <2>2, <2>3, Zenon DEF Shares, ShareBegin, RemoveBegin, GroupBegin, Add, Change, Remove,
                            SetGroup, At, Given
  <2>6. PICK c \in Calls : Transacts(c)
    BY <2>3, <2>4, <2>5, Zenon DEF Next, vars
  <2>7. ConfirmCommit(c)
    BY <2>3, <2>6, Zenon
    DEF Transacts, InitiateBegin, InitiateCommit, ConfirmBegin, ExpireCommit, RollBack
  <2> DEFINE t == call[c].t
  <2>8. t \in Transfers /\ transfers[t].status = "accepted" /\ Owner(transfers[t].from)
    BY <2>7, SMTT(30) DEF ConfirmCommit, At, Inv, TypeOK, Transaction, SharingCall, Idle, Sound
  <2>9. transfers'[t].status = "confirmed"
    BY <2>7, <2>8, Zenon DEF ConfirmCommit, Inv, TypeOK, Transfer
  <2>10. transfers[t].to = u
    BY <2>7, Zenon DEF ConfirmCommit, Handed
  <2> QED
    BY <2>8, <2>9, <2>10, Zenon
<1> QED
  BY <1>1, Invariance, PTL DEF Spec, OwnershipMoves

\* A transfer that was confirmed, declined, cancelled or expired stays so.
THEOREM ClosedStaysHolds == Spec => ClosedStays
<1> DEFINE Stays ==
      \A t \in Transfers :
        transfers[t].status # "absent" /\ ~Open(t) => transfers'[t] = transfers[t]
<1>1. Inv /\ [Next]_vars => Stays
  <2> SUFFICES ASSUME Inv, [Next]_vars, NEW t \in Transfers,
                      transfers[t].status # "absent", ~Open(t)
               PROVE  transfers'[t] = transfers[t]
    OBVIOUS
  <2>1. transfers \in [Transfers -> Transfer]
    BY Zenon DEF Inv, TypeOK
  <2>2. ASSUME NEW u \in Transfers, TransferStep(u) PROVE transfers'[t] = transfers[t]
    BY <2>1, <2>2, Zenon DEF TransferStep, Accept, Decline, Cancel, Expire, Lapse, SetStatus, Open
  <2>3. ASSUME NEW c \in Calls, Shares(c) PROVE transfers'[t] = transfers[t]
    BY <2>3, Zenon DEF Shares, ShareBegin, RemoveBegin, GroupBegin, Add, Change, Remove, SetGroup
  <2>4. ASSUME NEW c \in Calls, Transacts(c) PROVE transfers'[t] = transfers[t]
    <3>1. CASE ConfirmCommit(c) \/ ExpireCommit(c)
      <4>0. call[c].pc \in {"confirm", "expire"} /\ ~call[c].stale
        BY <3>1, Zenon DEF ConfirmCommit, ExpireCommit, At
      <4>1. call[c].t \in Transfers /\ transfers[call[c].t].status = "accepted"
        BY <4>0, SMTT(30) DEF Inv, TypeOK, Transaction, SharingCall, Idle, Sound
      <4>2. call[c].t # t
        BY <4>1, Zenon DEF Open
      <4> QED
        BY <2>1, <3>1, <4>1, <4>2, Zenon DEF ConfirmCommit, ExpireCommit
    <3>2. ASSUME NEW u \in Transfers, InitiateCommit(c, u) PROVE transfers'[t] = transfers[t]
      BY <2>1, <3>2, Zenon DEF InitiateCommit
    <3> QED
      BY <2>4, <3>1, <3>2, Zenon DEF Transacts, InitiateBegin, ConfirmBegin, RollBack
  <2> QED
    BY <2>2, <2>3, <2>4, Zenon DEF Next, vars
<1> QED
  BY <1>1, Invariance, PTL DEF Spec, ClosedStays

-----------------------------------------------------------------------------
(* The owner, the owner column and the open transfer *)

\* A transfer from `from` to `to` is one the present owner can make.
ByOwner(from, to) == ~Owner(to) /\ (HasOwner => Owner(from))

\* An initiation that has read and is not stale.
Asks(k) == k.pc = "initiate" /\ ~k.stale

\* Inductive together with Inv: what an initiation in progress asks for is what
\* the owner may ask for, as is every open transfer.
Links ==
  /\ ColumnAgrees /\ OpenByOwner
  /\ \A c \in Calls : Asks(call[c]) => ByOwner(call[c].from, call[c].to)

\* A step by which nobody becomes the owner keeps Links, if what is open or
\* being asked for afterwards was possible before.
LEMMA LinksKept ==
  ASSUME Inv, Inv', Links, UNCHANGED <<resourceType, column>>,
         \A u \in Users : Owner(u)' => Owner(u),
         \A t \in Transfers : Open(t)' => ByOwner(transfers'[t].from, transfers'[t].to),
         \A c \in Calls : Asks(call'[c]) => ByOwner(call'[c].from, call'[c].to)
  PROVE  Links'
<1>1. ASSUME NEW from \in Users, NEW to \in Users, ByOwner(from, to) PROVE ByOwner(from, to)'
  BY <1>1, Zenon DEF ByOwner, HasOwner, Owner, Inv, SoleOwner
<1>2. \A t \in Transfers : transfers'[t].from \in Users /\ transfers'[t].to \in Users
  BY Zenon DEF Inv, TypeOK, Transfer
<1>3. \A c \in Calls : Asks(call'[c]) => call'[c].from \in Users /\ call'[c].to \in Users
  <2>1. \A c \in Calls : call'[c] \in Transaction \cup SharingCall \cup {Idle}
    BY Zenon DEF Inv, TypeOK
  <2> QED
    BY <2>1, SMTT(30) DEF Asks, Transaction, SharingCall, Idle
<1>4. ColumnAgrees'
  BY Zenon DEF Links, ColumnAgrees
<1>5. OpenByOwner'
  BY <1>1, <1>2, Zenon DEF OpenByOwner, ByOwner
<1>6. \A c \in Calls : Asks(call[c])' => ByOwner(call[c].from, call[c].to)'
  BY <1>1, <1>3, Zenon DEF Asks
<1> QED
  BY <1>4, <1>5, <1>6, Zenon DEF Links

\* A call somebody else's commit passed over asks for what it asked for before.
LEMMA PassedAsks ==
  ASSUME NEW o \in CallType, NEW n, NEW users, NEW ts, NEW resource,
         Passed(o, n, users, ts, resource), Asks(n)
  PROVE  Asks(o) /\ n.from = o.from /\ n.to = o.to /\ ~resource
BY Zenon DEF Passed, Asks

\* A call that reads or ends, beside others that stay as they are.
LEMMA CallLinks ==
  ASSUME Inv, Inv', Links, UNCHANGED <<resourceType, role, column, transfers>>,
         NEW c \in Calls, NEW k, call' = [call EXCEPT ![c] = k],
         Asks(k) => ByOwner(k.from, k.to)
  PROVE  Links'
<1>1. \A d \in Calls : call'[d] = call[d] \/ call'[d] = k
  BY Zenon DEF Inv, TypeOK
<1>2. \A d \in Calls : Asks(call'[d]) => ByOwner(call'[d].from, call'[d].to)
  BY <1>1, Zenon DEF Links
<1>3. \A t \in Transfers : Open(t)' => ByOwner(transfers'[t].from, transfers'[t].to)
  BY Zenon DEF Links, OpenByOwner, ByOwner, Open
<1>4. \A u \in Users : Owner(u)' => Owner(u)
  BY Zenon DEF Owner
<1> QED
  BY <1>2, <1>3, <1>4, LinksKept, Zenon

\* A statement on the transfer itself opens nothing.
LEMMA TransferLinks ==
  ASSUME Inv, Inv', Links, UNCHANGED resourceType, NEW t \in Transfers, TransferStep(t)
  PROVE  Links'
<1>1. UNCHANGED <<role, column>>
  BY Zenon DEF TransferStep, Accept, Decline, Cancel, Expire, Lapse, SetStatus
<1>2. \A u \in Transfers : /\ transfers'[u].from = transfers[u].from
                           /\ transfers'[u].to = transfers[u].to
                           /\ Open(u)' => Open(u)
  <2>1. \A u \in Transfers : transfers[u] \in Transfer
    BY Zenon DEF Inv, TypeOK
  <2>2. CASE Lapse(t)
    BY <2>1, <2>2, Zenon DEF Lapse, Inv, TypeOK, Transfer, Open
  <2>3. ASSUME NEW status, Open(t), SetStatus(t, status)
        PROVE  \A u \in Transfers : /\ transfers'[u].from = transfers[u].from
                                    /\ transfers'[u].to = transfers[u].to
                                    /\ Open(u)' => Open(u)
    BY <2>1, <2>3, Zenon DEF SetStatus, Inv, TypeOK, Transfer, Open
  <2> QED
    BY <2>2, <2>3, SMTT(30) DEF TransferStep, Accept, Decline, Cancel, Expire, Open
<1>3. \A d \in Calls : Asks(call'[d]) => Asks(call[d]) /\ call'[d].from = call[d].from
                                                      /\ call'[d].to = call[d].to
  <2>1. CASE Lapse(t)
    BY <2>1, Zenon DEF Lapse
  <2>2. ASSUME NEW status, SetStatus(t, status)
        PROVE  \A d \in Calls : Asks(call'[d]) => Asks(call[d]) /\ call'[d].from = call[d].from
                                                               /\ call'[d].to = call[d].to
    <3>1. \A d \in Calls : Passed(call[d], call'[d], {}, {t}, FALSE) /\ call[d] \in CallType
      BY <2>2, SetStatusPasses, Zenon DEF Inv, TypeOK, CallType
    <3> QED
      BY <3>1, PassedAsks, Zenon
  <2> QED
    BY <2>1, <2>2, Zenon DEF TransferStep, Accept, Decline, Cancel, Expire
<1>4. \A u \in Transfers : Open(u)' => ByOwner(transfers'[u].from, transfers'[u].to)
  BY <1>2, Zenon DEF Links, OpenByOwner, ByOwner
<1>5. \A d \in Calls : Asks(call'[d]) => ByOwner(call'[d].from, call'[d].to)
  BY <1>3, Zenon DEF Links
<1>6. \A u \in Users : Owner(u)' => Owner(u)
  BY <1>1, Zenon DEF Owner
<1> QED
  BY <1>1, <1>4, <1>5, <1>6, LinksKept, Zenon

\* What the calls ask for after a commit of one of them.
LEMMA CommitAsks ==
  ASSUME Inv, Links, NEW c \in Calls, NEW users, NEW removed, NEW ts, NEW resource \in BOOLEAN,
         Commit(c, users, removed, ts, resource)
  PROVE  \A d \in Calls : Asks(call'[d]) => ByOwner(call'[d].from, call'[d].to) /\ ~resource
<1>1. /\ call'[c] = Idle
      /\ \A d \in Calls \ {c} : Passed(call[d], call'[d], users, ts, resource) /\ call[d] \in CallType
  BY CommitPasses, ZenonT(40) DEF Inv, TypeOK, CallType
<1>2. ~Asks(Idle)
  BY Zenon DEF Asks, Idle
<1> QED
  BY <1>1, <1>2, PassedAsks, Zenon DEF Links

\* Initiation and expiry commit what was asked for, or close.
LEMMA TransactionLinks ==
  ASSUME Inv, Inv', Links, UNCHANGED resourceType, NEW c \in Calls, Transacts(c), ~ConfirmCommit(c)
  PROVE  Links'
<1>0. UNCHANGED <<role, column>> /\ \A u \in Users : Owner(u)' => Owner(u)
  BY Zenon DEF Transacts, InitiateBegin, InitiateCommit, ConfirmBegin, ExpireCommit, RollBack, Owner
<1>1. ASSUME NEW from \in Users, NEW to \in Users, NEW keep \in BOOLEAN,
             InitiateBegin(c, from, to, keep)
      PROVE  Links'
  <2> DEFINE k == [pc |-> "initiate", from |-> from, to |-> to, keep |-> keep, stale |-> FALSE]
  <2>1. ByOwner(k.from, k.to)
    BY <1>1, Zenon DEF InitiateBegin, ByOwner
  <2>2. call' = [call EXCEPT ![c] = k] /\ transfers' = transfers
    BY <1>1, Zenon DEF InitiateBegin, Begin
  <2> HIDE DEF k
  <2> QED
    BY <1>0, <2>1, <2>2, CallLinks, Zenon
<1>2. ASSUME NEW t \in Transfers, InitiateCommit(c, t) PROVE Links'
  <2>1. Asks(call[c]) /\ NoActive
    BY <1>2, Zenon DEF InitiateCommit, At, Asks, Inv, Sound
  <2>2. /\ transfers'[t].from = call[c].from /\ transfers'[t].to = call[c].to
        /\ \A u \in Transfers \ {t} : transfers'[u] = transfers[u]
    BY <1>2, Zenon DEF InitiateCommit, Inv, TypeOK
  <2>3. \A u \in Transfers : Open(u)' => ByOwner(transfers'[u].from, transfers'[u].to)
    BY <2>1, <2>2, Zenon DEF NoActive, Open, Links
  <2>4. \A d \in Calls : Asks(call'[d]) => ByOwner(call'[d].from, call'[d].to)
    BY <1>2, CommitAsks, Zenon DEF InitiateCommit
  <2> QED
    BY <1>0, <2>3, <2>4, LinksKept, Zenon
<1>3. ASSUME NEW t \in Transfers, ConfirmBegin(c, t) PROVE Links'
  <2> DEFINE k == [pc |-> IF transfers[t].late THEN "expire" ELSE "confirm", t |-> t,
                   others |-> {u \in Users \ {transfers[t].to} : ~transfers[t].keep /\ role[u] # "none"},
                   stale |-> FALSE]
  <2>1. ~Asks(k)
    BY Zenon DEF Asks
  <2>2. call' = [call EXCEPT ![c] = k] /\ transfers' = transfers
    BY <1>3, Zenon DEF ConfirmBegin, Begin
  <2> HIDE DEF k
  <2> QED
    BY <1>0, <2>1, <2>2, CallLinks, Zenon
<1>4. CASE RollBack(c)
  <2>1. ~Asks(Idle) /\ call' = [call EXCEPT ![c] = Idle] /\ transfers' = transfers
    BY <1>4, Zenon DEF Asks, Idle, RollBack, Finish
  <2> QED
    BY <1>0, <2>1, CallLinks, Zenon
<1>5. CASE ExpireCommit(c)
  <2>1. \A d \in Calls : Asks(call'[d]) => ByOwner(call'[d].from, call'[d].to)
    BY <1>5, CommitAsks, Zenon DEF ExpireCommit
  <2>2. \A u \in Transfers : Open(u)' => ByOwner(transfers'[u].from, transfers'[u].to)
    BY <1>5, ZenonT(40) DEF ExpireCommit, Inv, TypeOK, Transfer, Open, Links, OpenByOwner, ByOwner
  <2> QED
    BY <1>0, <2>1, <2>2, LinksKept, Zenon
<1> QED
  BY <1>1, <1>2, <1>3, <1>4, <1>5, Zenon DEF Transacts

\* The hand-over closes the only open transfer and makes every initiation stale.
LEMMA ConfirmLinks ==
  ASSUME Inv, Inv', Links, UNCHANGED resourceType, NEW c \in Calls, ConfirmCommit(c)
  PROVE  Links' /\ HasOwner'
<1> DEFINE t == call[c].t
           to == transfers[t].to
<1>1. t \in Transfers /\ transfers[t].status = "accepted" /\ to \in Users
  BY SMTT(30) DEF ConfirmCommit, At, Inv, TypeOK, Transaction, SharingCall, Idle, Sound, Transfer
<1>2. /\ transfers'[t].status = "confirmed"
      /\ \A u \in Transfers \ {t} : transfers'[u] = transfers[u]
  BY <1>1, Zenon DEF ConfirmCommit, Inv, TypeOK, Transfer
<1>3. \A u \in Transfers : ~Open(u)'
  BY <1>1, <1>2, Zenon DEF Inv, OneActive, Open
<1>4. \A d \in Calls : ~Asks(call'[d])
  BY CommitAsks, Zenon DEF ConfirmCommit
<1>5. role'[to] = "owner"
  BY <1>1, Zenon DEF ConfirmCommit, Handed
<1>6. resourceType = "device" => column' = to
  BY Zenon DEF ConfirmCommit, Column
<1> HIDE DEF t, to
<1>7. ColumnAgrees'
  BY <1>1, <1>5, <1>6, Zenon DEF ColumnAgrees, Inv, SoleOwner, Owner
<1> QED
  BY <1>1, <1>3, <1>4, <1>5, <1>7, ZenonT(40) DEF Links, OpenByOwner, Asks, HasOwner, Owner

\* A sharing call makes nobody an owner.
LEMMA SharingLinks ==
  ASSUME Inv, Inv', Links, UNCHANGED resourceType, NEW c \in Calls, Shares(c)
  PROVE  Links'
<1>0. UNCHANGED <<column, transfers>>
  BY Zenon DEF Shares, ShareBegin, RemoveBegin, GroupBegin, Add, Change, Remove, SetGroup
<1>1. \A u \in Users : Owner(u)' => Owner(u)
  <2>1. call[c].pc \in {"add", "change"} => call[c].as # "owner"
    BY Zenon DEF Inv, Sound
  <2>2. role \in [Users -> Roles]
    BY Zenon DEF Inv, TypeOK
  <2> QED
    BY <2>1, <2>2, Zenon
    DEF Shares, ShareBegin, RemoveBegin, GroupBegin, Add, Change, Remove, SetGroup,
                      At, Given, Owner
<1>2. \A t \in Transfers : Open(t)' => ByOwner(transfers'[t].from, transfers'[t].to)
  BY <1>0, Zenon DEF Links, OpenByOwner, ByOwner, Open
<1>3. ASSUME NEW k, ~Asks(k), role' = role, call' = [call EXCEPT ![c] = k] PROVE Links'
  BY <1>0, <1>3, CallLinks, Zenon
<1>4. ASSUME NEW users, NEW removed, NEW resource \in BOOLEAN, Commit(c, users, removed, {}, resource)
      PROVE  Links'
  <2>1. \A d \in Calls : Asks(call'[d]) => ByOwner(call'[d].from, call'[d].to)
    BY <1>4, CommitAsks, Zenon
  <2> QED
    BY <1>0, <1>1, <1>2, <2>1, LinksKept, Zenon
<1>5. ASSUME NEW by \in Users, NEW u \in Users, RemoveBegin(c, by, u) PROVE Links'
  BY <1>3, <1>5, Zenon DEF RemoveBegin, Begin, Asks
<1>6. ASSUME NEW by \in Users, NEW u \in Users, NEW as \in Roles, ShareBegin(c, by, u, as)
      PROVE  Links'
  BY <1>3, <1>6, Zenon DEF ShareBegin, Begin, Asks
<1>7. ASSUME NEW by \in Users, NEW grant \in BOOLEAN, GroupBegin(c, by, grant) PROVE Links'
  BY <1>3, <1>7, Zenon DEF GroupBegin, Begin, Asks
<1>8. ~Asks(Idle)
  BY Zenon DEF Asks, Idle
<1>9. CASE Add(c) \/ Change(c) \/ Remove(c)
  BY <1>3, <1>4, <1>8, <1>9, Zenon DEF Add, Change, Remove, Finish
<1>10. CASE SetGroup(c)
  BY <1>4, <1>10, Zenon DEF SetGroup
<1> QED
  BY <1>5, <1>6, <1>7, <1>9, <1>10, Zenon DEF Shares

\* Links is an invariant.
LEMMA LinksInvariance == Spec => []Links
<1>1. Init => Links
  BY SMTT(30) DEF Init, Links, ColumnAgrees, OpenByOwner, Owner, Open, Asks, Idle
<1>2. ASSUME Inv, Inv', Links, [Next]_vars PROVE Links'
  <2>1. CASE UNCHANGED vars
    BY <1>2, <2>1, Zenon
    DEF vars, Links, ColumnAgrees, OpenByOwner, HasOwner, Owner, Open, Asks, ByOwner
  <2>2. CASE Next
    BY <1>2, <2>2, TransferLinks, TransactionLinks, ConfirmLinks, SharingLinks, Zenon DEF Next
  <2> QED
    BY <1>2, <2>1, <2>2, Zenon
<1> QED
  BY <1>1, <1>2, Invariance, PTL DEF Spec

\* The owner column of a device names its owner (executeDeviceTransferTx).
THEOREM ColumnAgreesHolds == Spec => []ColumnAgrees
<1>1. Links => ColumnAgrees
  BY Zenon DEF Links
<1> QED
  BY <1>1, LinksInvariance, PTL

\* An open transfer is from the present owner, if there is one, to somebody else:
\* no confirmation or sharing call leaves an offer of a former owner behind.
THEOREM OpenByOwnerHolds == Spec => []OpenByOwner
<1>1. Links => OpenByOwner
  BY Zenon DEF Links
<1> QED
  BY <1>1, LinksInvariance, PTL

\* Only a sharing call that read its row before a confirmation made it the
\* owner's loses the owner; no step of a transfer does.
THEOREM OwnerKeptHolds == Spec => OwnerKept
<1> DEFINE Kept ==
      HasOwner /\ ~HasOwner' =>
        \E c \in Calls :
          /\ call[c].pc \in {"change", "remove"} /\ ~call[c].gone
          /\ Owner(call[c].user) /\ call'[c] = Idle
<1>1. ASSUME Inv, Inv', Links, [Next]_vars PROVE Kept
  <2> SUFFICES ASSUME HasOwner, ~HasOwner'
               PROVE  \E c \in Calls :
                        /\ call[c].pc \in {"change", "remove"} /\ ~call[c].gone
                        /\ Owner(call[c].user) /\ call'[c] = Idle
    OBVIOUS
  <2>1. PICK u \in Users : role[u] = "owner" /\ role'[u] # "owner"
    BY Zenon DEF HasOwner, Owner
  <2>2. role' # role
    BY <2>1, Zenon
  <2>3. PICK c \in Calls : Shares(c) \/ ConfirmCommit(c)
    BY <1>1, <2>2, Zenon
    DEF Next, vars, TransferStep, Accept, Decline, Cancel, Expire, Lapse, SetStatus,
                 Transacts, InitiateBegin, InitiateCommit, ConfirmBegin, ExpireCommit, RollBack
  <2>4. ~ConfirmCommit(c)
    <3>1. UNCHANGED resourceType
      BY <1>1, Zenon DEF Next, vars
    <3> QED
      BY <1>1, <3>1, ConfirmLinks, Zenon
  <2>5. Add(c) \/ Change(c) \/ Remove(c)
    BY <2>2, <2>3, <2>4, Zenon DEF Shares, ShareBegin, RemoveBegin, GroupBegin, SetGroup
  <2>6. role \in [Users -> Roles]
    BY <1>1, Zenon DEF Inv, TypeOK
  <2>7. ~Add(c)
    BY <2>1, <2>6, Zenon DEF Add
  <2>8. /\ call[c].pc \in {"change", "remove"} /\ ~call[c].gone
        /\ call[c].user = u /\ call'[c] = Idle
    BY <2>1, <2>5, <2>6, <2>7, Zenon DEF Change, Remove, At, Commit
  <2> QED
    BY <2>1, <2>8, Zenon DEF Owner
<1> QED
  BY <1>1, Invariance, LinksInvariance, PTL DEF Spec, OwnerKept

\* At most one owner, and the device's column names them, for any number of
\* overlapping confirmations and sharing calls.
THEOREM OneOwnerHolds == Spec => []OneOwner
BY SoleOwnerHolds, ColumnAgreesHolds, PTL DEF OneOwner

\* At most one open offer, and one the present owner may make.
THEOREM OneOfferHolds == Spec => []OneOffer
BY OneActiveHolds, OpenByOwnerHolds, PTL DEF OneOffer

\* Ownership comes by a confirmed transfer only, and no transfer loses it
\* (executeWalletTransferTx, executeDeviceTransferTx).
THEOREM OwnerByTransferHolds == Spec => OwnerByTransfer
BY OwnershipMovesHolds, OwnerKeptHolds, Zenon DEF OwnerByTransfer
=============================================================================
