--------------------------- MODULE BroadcastProofs ---------------------------
(***************************************************************************)
(* Proofs about Broadcast, for any number of requests, reconcilers,        *)
(* intents and signatures, whether or not leases outlive attempts.         *)
(*                                                                         *)
(* None of the properties is inductive.  What makes them true is that an   *)
(* actor between its claim and its last write still finds its own bytes in *)
(* the row (InHand), although others may have taken the claim over, and    *)
(* that a request that made a first claim and still owns it is alone with  *)
(* the intent (Alone): only such a request may return it to "ready".       *)
(*                                                                         *)
(* The limits need an account of every reserved unit (Ledger), which holds *)
(* as long as no lease has run out under its attempt.                      *)
(***************************************************************************)
EXTENDS BroadcastInTime, FiniteSetTheorems, TLAPS

RowOK(r) ==
  /\ r.raw = NoRaw <=> r.state = "ready"
  /\ r.state = "claimed" => r.count > 0
  /\ r.state # "ready" => r.link = "current"

RowsOK == \A i \in Intents : RowOK(row[i])

\* An attempt finds the bytes it claimed with in the row.
InHand ==
  \A a \in Actors : \A i \in Intents :
    Attempting(a, i) =>
      /\ row[i].raw = actor[a].v
      /\ actor[a].pc = "sent" => actor[a].v \in out[i]

\* Whether nothing of a's attempt can have left yet.
Unsent(a) ==
  actor[a].pc = "claimed" \/ (actor[a].pc = "failed" /\ actor[a].why = "definite")

First(a) == a \in Requests /\ actor[a].prior = "ready"

\* A rejection is taken for definite by a first attempt only.
DefiniteIsFirst ==
  \A a \in Actors :
    actor[a].pc = "failed" /\ actor[a].why = "definite" => First(a)

\* A first attempt that owns its claim is alone with the intent.
Alone ==
  \A a \in Actors : \A i \in Intents :
    Attempting(a, i) /\ First(a) /\ OwnsClaim(row[i], a) =>
      /\ \A b \in Actors : Attempting(b, i) => b = a
      /\ Unsent(a) => wire[i] = {} /\ out[i] = {}

\* What is about to be saved is on the network, what is about to be completed
\* is saved.
Saving ==
  \A a \in Actors :
    /\ actor[a].pc = "persisting" => out[actor[a].i] # {}
    /\ actor[a].pc = "completing" => actor[a].i \in saved

\* Of a payjoin original and its proposals, one at most can be claimed.
OneCurrent ==
  \A p \in Pairs :
    row[p[2]].link = "current" =>
      /\ row[p[1]].link # "current"
      /\ \A q \in Pairs : q[1] = p[1] /\ row[q[2]].link = "current" => q = p

Inv ==
  /\ TypeOK /\ RowsOK /\ InHand /\ DefiniteIsFirst /\ Alone /\ Saving
  /\ OneArtifact /\ SettledIsReal /\ OneCurrent

-----------------------------------------------------------------------------
(* Typing of the rows and of an actor's locals *)

\* An actor with something in hand is not the idle record.
LEMMA BusyType ==
  ASSUME TypeOK, NEW a \in Actors, actor[a].pc # "idle"
  PROVE  actor[a] \in Working
<1>1. actor[a] \in Working \cup {Idle}
  BY Zenon DEF TypeOK
<1>2. actor[a] # Idle
  BY SMTT(30) DEF Idle
<1> QED BY <1>1, <1>2, Zenon

\* A claim stores the bytes, the reservations and the holder.
LEMMA ClaimedRow ==
  ASSUME NEW r \in Row, NEW v \in Variants, NEW s \in SUBSET Windows,
         NEW a \in Actors
  PROVE  /\ Claimed(r, v, s, a) \in Row
         /\ Claimed(r, v, s, a).state = "claimed"
         /\ Claimed(r, v, s, a).raw = v
         /\ Claimed(r, v, s, a).owner = a
         /\ Claimed(r, v, s, a).link = r.link
         /\ Claimed(r, v, s, a).count > 0
<1> DEFINE c == IF r.count < CountCap THEN r.count + 1 ELSE r.count
<1>1. c \in 0..CountCap /\ c > 0
  BY IntentRowAssumption DEF Row, CountCap
<1> DEFINE Q(d) == [r EXCEPT !.state = "claimed", !.raw = v, !.resv = s,
                             !.owner = a, !.expired = FALSE, !.count = d]
<1>2. ASSUME NEW d \in 0..CountCap
      PROVE  /\ Q(d) \in Row /\ Q(d).state = "claimed" /\ Q(d).raw = v
             /\ Q(d).owner = a /\ Q(d).link = r.link /\ Q(d).count = d
  BY ZenonT(30) DEF Row, States
<1>3. Claimed(r, v, s, a) = Q(c)
  BY DEF Claimed
<1> HIDE DEF c, Q
<1> QED BY <1>1, <1>2, <1>3, ZenonT(30)

\* A rejected first attempt leaves the row as it was before any claim.
LEMMA RejectedRow ==
  ASSUME NEW r \in Row
  PROVE  /\ Rejected(r) \in Row /\ Rejected(r).state = "ready"
         /\ Rejected(r).raw = NoRaw /\ Rejected(r).link = r.link
BY ZenonT(30) DEF Row, States, Rejected

\* A fresh row.
LEMMA InitRowType ==
  ASSUME NEW link \in {"absent", "current", "superseded"}
  PROVE  /\ InitRow(link) \in Row /\ InitRow(link).state = "ready"
         /\ InitRow(link).raw = NoRaw /\ InitRow(link).link = link
<1>1. 0 \in 0..CountCap
  BY IntentRowAssumption DEF CountCap
<1> QED BY <1>1, Zenon DEF Row, States, InitRow

-----------------------------------------------------------------------------
(* Steps that leave the attempts alone *)

\* Rows keep their bytes and links; a row that changes state leaves its claim
\* for good, and is settled only by what the network and the history show.
QuietRows ==
  \A i \in Intents :
    /\ row'[i].raw = row[i].raw /\ row'[i].link = row[i].link
    /\ \/ /\ row'[i].state = row[i].state
          /\ row'[i].owner = row[i].owner /\ row'[i].count = row[i].count
       \/ /\ row[i].state # "ready"
          /\ row'[i].state \in {"unknown", "accepted", "complete"}
          /\ row'[i].state \in {"accepted", "complete"} => row[i].raw \in out[i]
          /\ row'[i].state = "complete" => i \in saved

\* An actor that moves is not between a claim and the end of it.
QuietActors ==
  \A a \in Actors :
    \/ actor'[a] = actor[a]
    \/ /\ actor'[a].pc \notin {"claimed", "failed", "sent"}
       /\ actor'[a].pc = "persisting" => out[actor'[a].i] # {}
       /\ actor'[a].pc = "completing" => actor'[a].i \in saved'

\* Nothing new is handed to the network, nothing it has is taken back.
QuietNet ==
  /\ \A i \in Intents :
       /\ wire'[i] \cup out'[i] \subseteq wire[i] \cup out[i]
       /\ out[i] \subseteq out'[i]
  /\ saved \subseteq saved'
  /\ \A i \in saved' : i \in saved \/ out[i] # {}

\* Such a step preserves the invariant.
LEMMA QuietStep ==
  ASSUME Inv, TypeOK', QuietRows, QuietActors, QuietNet
  PROVE  Inv'
<1>1. \A a \in Actors, i \in Intents :
        Attempting(a, i)' => Attempting(a, i) /\ actor'[a] = actor[a]
  BY Zenon DEF QuietActors, Attempting
<1>2. \A a \in Actors, i \in Intents : OwnsClaim(row'[i], a) => OwnsClaim(row[i], a)
  BY Zenon DEF QuietRows, OwnsClaim
<1>3. RowsOK'
  <2> SUFFICES ASSUME NEW i \in Intents PROVE RowOK(row'[i])
    BY Zenon DEF RowsOK
  <2>1. RowOK(row[i])
    BY Zenon DEF Inv, RowsOK
  <2> QED BY <2>1, Zenon DEF RowOK, QuietRows
<1>4. InHand'
  <2> SUFFICES ASSUME NEW a \in Actors, NEW i \in Intents, Attempting(a, i)'
               PROVE  /\ row'[i].raw = actor'[a].v
                      /\ actor'[a].pc = "sent" => actor'[a].v \in out'[i]
    BY Zenon DEF InHand
  <2>1. Attempting(a, i) /\ actor'[a] = actor[a]
    BY <1>1, Zenon
  <2>2. row[i].raw = actor[a].v /\ (actor[a].pc = "sent" => actor[a].v \in out[i])
    BY <2>1, Zenon DEF Inv, InHand
  <2> QED BY <2>1, <2>2, Zenon DEF QuietRows, QuietNet
<1>5. DefiniteIsFirst'
  BY Zenon DEF Inv, DefiniteIsFirst, First, QuietActors
<1>6. Alone'
  <2> SUFFICES ASSUME NEW a \in Actors, NEW i \in Intents,
                      Attempting(a, i)', First(a)', OwnsClaim(row'[i], a)
               PROVE  /\ \A b \in Actors : Attempting(b, i)' => b = a
                      /\ Unsent(a)' => wire'[i] = {} /\ out'[i] = {}
    BY Zenon DEF Alone
  <2>1. Attempting(a, i) /\ First(a) /\ OwnsClaim(row[i], a) /\ actor'[a] = actor[a]
    BY <1>1, <1>2, Zenon DEF First
  <2>2. /\ \A b \in Actors : Attempting(b, i) => b = a
        /\ Unsent(a) => wire[i] = {} /\ out[i] = {}
    BY <2>1, Zenon DEF Inv, Alone
  <2>3. Unsent(a)' => wire'[i] \cup out'[i] \subseteq {}
    BY <2>1, <2>2, Zenon DEF Unsent, QuietNet
  <2> QED BY <1>1, <2>2, <2>3, Zenon
<1>7. Saving'
  <2>1. ASSUME NEW a \in Actors, actor'[a].pc \in {"persisting", "completing"}
        PROVE  actor'[a].i \in Intents
    BY <2>1, SMTT(30) DEF TypeOK, Idle, Working
  <2> QED BY <2>1, Zenon DEF Inv, Saving, QuietActors, QuietNet
<1>8. OneArtifact'
  BY Zenon DEF Inv, OneArtifact, QuietRows, QuietNet
<1>9. SettledIsReal'
  <2> SUFFICES ASSUME NEW i \in Intents
               PROVE  /\ Consumed(row'[i]) => row'[i].raw \in out'[i]
                      /\ row'[i].state = "complete" => i \in saved'
                      /\ i \in saved' => out'[i] # {}
    BY Zenon DEF SettledIsReal
  <2>1. /\ Consumed(row[i]) => row[i].raw \in out[i]
        /\ row[i].state = "complete" => i \in saved
        /\ i \in saved => out[i] # {}
    BY Zenon DEF Inv, SettledIsReal
  <2> QED BY <2>1, Zenon DEF QuietRows, QuietNet, Consumed
<1>10. OneCurrent'
  <2>1. \A p \in Pairs : p[1] \in Intents /\ p[2] \in Intents
    BY BroadcastAssumption
  <2>2. \A i \in Intents : row'[i].link = row[i].link
    BY Zenon DEF QuietRows
  <2> QED BY <2>1, <2>2, ZenonT(30) DEF Inv, OneCurrent
<1> QED BY <1>3, <1>4, <1>5, <1>6, <1>7, <1>8, <1>9, <1>10, Zenon DEF Inv

\* A write of one row that is quiet.
LEMMA RowWrite ==
  ASSUME TypeOK, NEW i \in Intents, NEW r \in Row, row' = [row EXCEPT ![i] = r],
         \/ r = row[i]
         \/ /\ row[i].state # "ready" /\ r.raw = row[i].raw /\ r.link = row[i].link
            /\ r.state \in {"unknown", "accepted", "complete"}
            /\ r.state \in {"accepted", "complete"} => row[i].raw \in out[i]
            /\ r.state = "complete" => i \in saved
  PROVE  row' \in [Intents -> Row] /\ QuietRows
<1>1. row \in [Intents -> Row]
  BY Zenon DEF TypeOK
<1>2. row' \in [Intents -> Row]
  BY <1>1, Zenon
<1>3. \A j \in Intents : row'[j] = IF j = i THEN r ELSE row[j]
  BY <1>1, Zenon
<1>4. ASSUME NEW j \in Intents, j # i
      PROVE  row'[j] = row[j]
  BY <1>3, <1>4, Zenon
<1>5. row'[i] = r
  BY <1>3, Zenon
<1> QED BY <1>2, <1>4, <1>5, Zenon DEF QuietRows

\* A quiet move of one actor.
LEMMA ActorMove ==
  ASSUME TypeOK, NEW a \in Actors, NEW n \in Working \cup {Idle},
         actor' = [actor EXCEPT ![a] = n],
         n.pc \notin {"claimed", "failed", "sent"},
         n.pc = "persisting" => out[n.i] # {},
         n.pc = "completing" => n.i \in saved'
  PROVE  actor' \in [Actors -> Working \cup {Idle}] /\ QuietActors
<1>1. actor \in [Actors -> Working \cup {Idle}]
  BY Zenon DEF TypeOK
<1>2. actor' \in [Actors -> Working \cup {Idle}]
  BY <1>1, Zenon
<1>3. \A b \in Actors : actor'[b] = IF b = a THEN n ELSE actor[b]
  BY <1>1, Zenon
<1> QED BY <1>2, <1>3, Zenon DEF QuietActors

\* Going idle is one.
LEMMA FinishMove ==
  ASSUME TypeOK, NEW a \in Actors, Finish(a)
  PROVE  actor' \in [Actors -> Working \cup {Idle}] /\ QuietActors
<1>1. Idle \in Working \cup {Idle} /\ Idle.pc = "idle"
  BY Zenon DEF Idle
<1>2. actor' = [actor EXCEPT ![a] = Idle]
  BY Zenon DEF Finish
<1>3. /\ Idle.pc \notin {"claimed", "failed", "sent"}
      /\ Idle.pc # "persisting" /\ Idle.pc # "completing"
  BY <1>1, Zenon
<1> HIDE DEF Idle
<1> QED BY <1>1, <1>2, <1>3, ActorMove, Zenon

\* The network and the history are left alone.
LEMMA NetSame ==
  ASSUME UNCHANGED <<wire, out, saved>>
  PROVE  QuietNet
BY Zenon DEF QuietNet

\* So are the rows.
LEMMA RowsSame ==
  ASSUME UNCHANGED row
  PROVE  QuietRows
BY Zenon DEF QuietRows

-----------------------------------------------------------------------------
(* The call to the node, or the check before it, ends: the attempt has      *)
(* failed or its transaction is on the network.                             *)

\* An attempt that ends its call hands nothing but its own bytes over.
LEMMA AttemptStep ==
  ASSUME Inv, NEW a \in Actors, actor[a].pc = "claimed",
         NEW n \in Working, actor' = [actor EXCEPT ![a] = n],
         n.i = actor[a].i, n.v = actor[a].v, n.prior = actor[a].prior,
         n.pc \in {"failed", "sent"},
         UNCHANGED <<row, usage, saved>>,
         wire' \in [Intents -> SUBSET Variants],
         out' \in [Intents -> SUBSET Variants],
         \A i \in Intents :
           /\ out[i] \subseteq out'[i]
           /\ wire'[i] \cup out'[i] \subseteq wire[i] \cup out[i] \cup {n.v}
           /\ i # n.i => wire'[i] = wire[i] /\ out'[i] = out[i],
         n.pc = "sent" => n.v \in out'[n.i],
         n.pc = "failed" /\ n.why = "definite" =>
           First(a) /\ UNCHANGED <<wire, out>>
  PROVE  Inv'
<1> DEFINE k == n.i
<1>1. TypeOK /\ k \in Intents /\ n.v \in Variants
  BY Zenon DEF Inv, Working
<1>2. \A b \in Actors : actor'[b] = IF b = a THEN n ELSE actor[b]
  BY <1>1, Zenon DEF TypeOK
<1>3. TypeOK'
  BY <1>1, Zenon DEF TypeOK
<1>4. \A b \in Actors, i \in Intents : Attempting(b, i)' <=> Attempting(b, i)
  BY <1>2, ZenonT(30) DEF Attempting
<1>5. Attempting(a, k) /\ row[k].raw = n.v
  BY <1>1, Zenon DEF Attempting, Inv, InHand
<1>6. InHand'
  <2> SUFFICES ASSUME NEW b \in Actors, NEW i \in Intents, Attempting(b, i)'
               PROVE  /\ row'[i].raw = actor'[b].v
                      /\ actor'[b].pc = "sent" => actor'[b].v \in out'[i]
    BY Zenon DEF InHand
  <2>1. /\ row[i].raw = actor[b].v
        /\ actor[b].pc = "sent" => actor[b].v \in out[i]
    BY <1>4, Zenon DEF Inv, InHand
  <2>2. CASE b = a
    <3>1. i = k
      BY <2>2, <1>2, Zenon DEF Attempting
    <3> QED BY <2>2, <3>1, <1>2, <1>5, ZenonT(30)
  <2>3. CASE b # a
    <3>1. actor'[b] = actor[b]
      BY <2>3, <1>2, Zenon
    <3> QED BY <2>1, <3>1, Zenon
  <2> QED BY <2>2, <2>3
<1>7. DefiniteIsFirst'
  <2> SUFFICES ASSUME NEW b \in Actors, actor'[b].pc = "failed",
                      actor'[b].why = "definite"
               PROVE  b \in Requests /\ actor'[b].prior = "ready"
    BY Zenon DEF DefiniteIsFirst, First
  <2>1. CASE b = a
    BY <2>1, <1>2, Zenon DEF First
  <2>2. CASE b # a
    BY <2>2, <1>2, ZenonT(30) DEF Inv, DefiniteIsFirst, First
  <2> QED BY <2>1, <2>2
<1>8. Alone'
  <2> SUFFICES ASSUME NEW b \in Actors, NEW i \in Intents,
                      Attempting(b, i)', First(b)', OwnsClaim(row'[i], b)
               PROVE  /\ \A c \in Actors : Attempting(c, i)' => c = b
                      /\ Unsent(b)' => wire'[i] = {} /\ out'[i] = {}
    BY Zenon DEF Alone
  <2>1. Attempting(b, i) /\ First(b) /\ OwnsClaim(row[i], b)
    BY <1>2, <1>4, ZenonT(30) DEF First
  <2>2. /\ \A c \in Actors : Attempting(c, i) => c = b
        /\ Unsent(b) => wire[i] = {} /\ out[i] = {}
    BY <2>1, Zenon DEF Inv, Alone
  <2>3. CASE b = a
    <3>1. Unsent(b)' => UNCHANGED <<wire, out>>
      BY <2>3, <1>2, Zenon DEF Unsent
    <3>2. Unsent(b)
      BY <2>3, Zenon DEF Unsent
    <3> QED BY <1>4, <2>2, <3>1, <3>2, Zenon
  <2>4. CASE b # a
    <3>1. i # k
      BY <2>4, <2>2, <1>5, Zenon
    <3>2. Unsent(b)' => Unsent(b)
      BY <2>4, <1>2, Zenon DEF Unsent
    <3> QED BY <1>4, <2>2, <3>1, <3>2, Zenon
  <2> QED BY <2>3, <2>4
<1>9. Saving'
  <2> SUFFICES ASSUME NEW b \in Actors
               PROVE  /\ actor'[b].pc = "persisting" => out'[actor'[b].i] # {}
                      /\ actor'[b].pc = "completing" => actor'[b].i \in saved'
    BY Zenon DEF Saving
  <2>1. CASE b = a
    BY <2>1, <1>2, Zenon
  <2>2. CASE b # a
    <3>1. actor'[b] = actor[b]
      BY <2>2, <1>2, Zenon
    <3>2. actor[b].pc = "persisting" => actor[b].i \in Intents
      BY <1>1, SMTT(30) DEF TypeOK, Idle, Working
    <3> QED BY <3>1, <3>2, SMTT(30) DEF Inv, Saving
  <2> QED BY <2>1, <2>2
<1>10. OneArtifact'
  <2> SUFFICES ASSUME NEW i \in Intents
               PROVE  wire'[i] \cup out'[i] \subseteq {row'[i].raw}
    BY Zenon DEF OneArtifact
  <2>1. wire[i] \cup out[i] \subseteq {row[i].raw}
    BY Zenon DEF Inv, OneArtifact
  <2>2. CASE i = k
    BY <2>1, <2>2, <1>5, ZenonT(30)
  <2>3. CASE i # k
    BY <2>1, <2>3, Zenon
  <2> QED BY <2>2, <2>3
<1>11. SettledIsReal'
  BY Zenon DEF Inv, SettledIsReal, Consumed
<1>12. RowsOK' /\ OneCurrent'
  BY Zenon DEF Inv, RowsOK, OneCurrent
<1> QED BY <1>3, <1>6, <1>7, <1>8, <1>9, <1>10, <1>11, <1>12, Zenon DEF Inv

\* A call that fails; what it left behind is at most its own submission.
LEMMA FailStep ==
  ASSUME Inv, NEW a \in Actors, actor[a].pc = "claimed",
         NEW why \in {"definite", "answered", "unanswered"}, Fail(a, why),
         why = "definite" => First(a), UNCHANGED <<row, usage, wire, out, saved>>
  PROVE  Inv'
<1> DEFINE n == [actor[a] EXCEPT !.pc = "failed", !.why = why]
<1>1. TypeOK /\ actor[a] \in Working
  BY BusyType, Zenon DEF Inv
<1>2. /\ n \in Working /\ n.i = actor[a].i /\ n.v = actor[a].v
      /\ n.prior = actor[a].prior /\ n.pc = "failed" /\ n.why = why
  BY <1>1, ZenonT(30) DEF Working, Steps
<1>3. actor' = [actor EXCEPT ![a] = n]
  BY Zenon DEF Fail
<1>4. wire' \in [Intents -> SUBSET Variants] /\ out' \in [Intents -> SUBSET Variants]
  BY <1>1, Zenon DEF TypeOK
<1> HIDE DEF n
<1>5. n.pc \in {"failed", "sent"} /\ n.pc # "sent"
  BY <1>2, Zenon
<1> QED BY <1>2, <1>3, <1>4, <1>5, AttemptStep, Zenon

\* A call whose transaction is on the network.
LEMMA SentStep ==
  ASSUME Inv, NEW a \in Actors, actor[a].pc = "claimed", Goto(a, "sent"),
         \/ out' = out /\ actor[a].v \in out[actor[a].i]
         \/ out' = [out EXCEPT ![actor[a].i] = out[actor[a].i] \cup {actor[a].v}],
         UNCHANGED <<row, usage, wire, saved>>
  PROVE  Inv'
<1> DEFINE n == [actor[a] EXCEPT !.pc = "sent"]
           i == actor[a].i
           v == actor[a].v
<1>1. TypeOK /\ actor[a] \in Working
  BY BusyType, Zenon DEF Inv
<1>2. /\ n \in Working /\ n.i = i /\ n.v = v
      /\ n.prior = actor[a].prior /\ n.pc = "sent"
  BY <1>1, Zenon DEF Working, Steps
<1>3. actor' = [actor EXCEPT ![a] = n] /\ i \in Intents /\ v \in Variants
  BY <1>1, Zenon DEF Goto, Working
<1>4. /\ wire' \in [Intents -> SUBSET Variants]
      /\ out \in [Intents -> SUBSET Variants]
  BY <1>1, Zenon DEF TypeOK
<1>5. out' \in [Intents -> SUBSET Variants]
  BY <1>3, <1>4, SMTT(30)
<1>6. \A j \in Intents :
        /\ out[j] \subseteq out'[j] /\ out'[j] \subseteq out[j] \cup {v}
        /\ j # i => out'[j] = out[j]
  BY <1>3, <1>4, Zenon
<1>7. v \in out'[i]
  BY <1>3, <1>4, Zenon
<1> HIDE DEF n
<1>8. n.pc \in {"failed", "sent"} /\ n.pc # "failed"
  BY <1>2, Zenon
<1>9. \A j \in Intents :
        /\ out[j] \subseteq out'[j]
        /\ wire'[j] \cup out'[j] \subseteq wire[j] \cup out[j] \cup {n.v}
        /\ j # n.i => wire'[j] = wire[j] /\ out'[j] = out[j]
  BY <1>2, <1>6, Zenon
<1> QED BY <1>2, <1>3, <1>4, <1>5, <1>7, <1>8, <1>9, AttemptStep, Zenon

-----------------------------------------------------------------------------
(* Claims and rollbacks *)

\* Nobody is attempting an intent that is ready, and nothing of it is out.
LEMMA ReadyIsUntouched ==
  ASSUME Inv, NEW i \in Intents, row[i].state = "ready"
  PROVE  /\ \A b \in Actors : ~Attempting(b, i)
         /\ wire[i] = {} /\ out[i] = {}
<1>1. TypeOK /\ row[i].raw = NoRaw
  BY Zenon DEF Inv, RowsOK, RowOK
<1>2. ASSUME NEW b \in Actors, Attempting(b, i) PROVE FALSE
  <2>1. actor[b].pc # "idle" /\ row[i].raw = actor[b].v
    BY <1>2, Zenon DEF Attempting, Inv, InHand
  <2>2. actor[b] \in Working
    BY <1>1, <2>1, BusyType, Zenon
  <2>3. actor[b].v \in Variants
    BY <2>2, Zenon DEF Working
  <2> QED BY <1>1, <2>1, <2>3, IntentRowAssumption, Zenon
<1>3. wire[i] \cup out[i] \subseteq {NoRaw}
  BY <1>1, Zenon DEF Inv, OneArtifact
<1>4. wire[i] \subseteq Variants /\ out[i] \subseteq Variants
  BY <1>1, Zenon DEF TypeOK
<1> QED BY <1>2, <1>3, <1>4, IntentRowAssumption, Zenon

\* A claim finds the intent untouched or takes over the same bytes.
LEMMA ClaimStep ==
  ASSUME Inv, NEW a \in Actors, Claim(a)
  PROVE  Inv'
<1> DEFINE i == actor[a].i
           v == actor[a].v
           r == Claimed(row[i], v, actor[a].resv, a)
           n == [actor[a] EXCEPT !.pc = "claimed", !.prior = PriorState(row[i])]
<1>1. /\ actor[a].pc = "claiming" /\ CanClaim(row[i], v, actor[a].mode)
      /\ row' = [row EXCEPT ![i] = r]
      /\ actor' = [actor EXCEPT ![a] = n]
      /\ UNCHANGED <<usage, wire, out, saved>>
  BY Zenon DEF Claim, At, SetRow
<1>2. TypeOK /\ RowsOK
  BY Zenon DEF Inv
<1>3. actor[a] \in Working
  BY <1>1, <1>2, BusyType, Zenon
<1>4. i \in Intents /\ v \in Variants /\ actor[a].resv \in SUBSET Windows
  BY <1>3, Zenon DEF Working
<1>5. row[i] \in Row /\ RowOK(row[i])
  BY <1>2, <1>4, Zenon DEF TypeOK, RowsOK
<1>6. /\ r \in Row /\ r.state = "claimed" /\ r.raw = v /\ r.owner = a
      /\ r.link = row[i].link /\ r.count > 0
  BY <1>4, <1>5, ClaimedRow, SMTT(30)
<1>7. /\ PriorState(row[i]) \in {"ready", "resumed", "stalled"}
      /\ PriorState(row[i]) = "ready" => row[i].state = "ready"
  BY Zenon DEF PriorState
<1>8. n \in Working /\ n.pc = "claimed" /\ n.prior = PriorState(row[i])
      /\ n.i = i /\ n.v = v
  BY <1>3, <1>7, ZenonT(30) DEF Working, Steps
<1>9. row[i].link = "current" /\ (row[i].state = "ready" \/ row[i].raw = v)
  BY <1>1, ZenonT(30) DEF CanClaim
<1> HIDE DEF r, n
<1>10. \A j \in Intents : row'[j] = IF j = i THEN r ELSE row[j]
  BY <1>1, <1>2, Zenon DEF TypeOK
<1>11. \A b \in Actors : actor'[b] = IF b = a THEN n ELSE actor[b]
  BY <1>1, <1>2, Zenon DEF TypeOK
<1>12. TypeOK'
  BY <1>1, <1>2, <1>6, <1>8, Zenon DEF TypeOK
<1>13. ASSUME NEW b \in Actors, NEW j \in Intents, Attempting(b, j)', b # a
       PROVE  /\ Attempting(b, j) /\ actor'[b] = actor[b] /\ row'[j].raw = row[j].raw
              /\ row[i].state = "ready" => j # i
  <2>1. Attempting(b, j) /\ actor'[b] = actor[b]
    BY <1>11, <1>13, Zenon DEF Attempting
  <2>2. row[i].state = "ready" => j # i
    BY <1>4, <2>1, ReadyIsUntouched, Zenon
  <2>3. CASE j = i
    BY <2>3, <2>1, <2>2, <1>4, <1>6, <1>9, <1>10, Zenon
  <2>4. CASE j # i
    BY <2>4, <2>1, <2>2, <1>10, Zenon
  <2> QED BY <2>1, <2>2, <2>3, <2>4, Zenon
<1>14. \A j \in Intents : Attempting(a, j)' => j = i
  BY <1>8, <1>11, Zenon DEF Attempting
<1>15. RowsOK'
  <2>1. RowOK(r)
    BY <1>4, <1>6, <1>9, IntentRowAssumption, Zenon DEF RowOK
  <2> QED BY <1>2, <1>10, <2>1, Zenon DEF RowsOK
<1>16. InHand'
  <2> SUFFICES ASSUME NEW b \in Actors, NEW j \in Intents, Attempting(b, j)'
               PROVE  /\ row'[j].raw = actor'[b].v
                      /\ actor'[b].pc = "sent" => actor'[b].v \in out'[j]
    BY Zenon DEF InHand
  <2>1. CASE b = a
    <3>1. j = i
      BY <2>1, <1>14, Zenon
    <3> QED BY <2>1, <3>1, <1>6, <1>8, <1>10, <1>11, Zenon
  <2>2. CASE b # a
    <3>1. Attempting(b, j) /\ actor'[b] = actor[b] /\ row'[j].raw = row[j].raw
      BY <2>2, <1>13, Zenon
    <3>2. row[j].raw = actor[b].v /\ (actor[b].pc = "sent" => actor[b].v \in out[j])
      BY <3>1, Zenon DEF Inv, InHand
    <3> QED BY <1>1, <3>1, <3>2, Zenon
  <2> QED BY <2>1, <2>2
<1>17. DefiniteIsFirst'
  <2>1. n.pc # "failed"
    BY <1>8, Zenon
  <2> QED BY <2>1, <1>11, Zenon DEF Inv, DefiniteIsFirst, First
<1>18. Alone'
  <2> SUFFICES ASSUME NEW b \in Actors, NEW j \in Intents,
                      Attempting(b, j)', First(b)', OwnsClaim(row'[j], b)
               PROVE  /\ \A c \in Actors : Attempting(c, j)' => c = b
                      /\ Unsent(b)' => wire'[j] = {} /\ out'[j] = {}
    BY Zenon DEF Alone
  <2>1. CASE j = i
    <3>1. b = a
      BY <2>1, <1>6, <1>10, Zenon DEF OwnsClaim
    <3>2. row[i].state = "ready"
      BY <3>1, <1>7, <1>8, <1>11, Zenon DEF First
    <3> QED BY <2>1, <3>1, <3>2, <1>1, <1>4, <1>13, ReadyIsUntouched, Zenon
  <2>2. CASE j # i
    <3>1. b # a /\ row'[j] = row[j]
      BY <2>2, <1>10, <1>14, Zenon
    <3>2. Attempting(b, j) /\ actor'[b] = actor[b]
      BY <3>1, <1>13, Zenon
    <3>3. /\ \A c \in Actors : Attempting(c, j) => c = b
          /\ Unsent(b) => wire[j] = {} /\ out[j] = {}
      BY <3>1, <3>2, Zenon DEF Inv, Alone, First
    <3>4. \A c \in Actors : Attempting(c, j)' => Attempting(c, j)
      BY <2>2, <1>13, <1>14, Zenon
    <3> QED BY <1>1, <3>2, <3>3, <3>4, Zenon DEF Unsent
  <2> QED BY <2>1, <2>2
<1>19. Saving'
  <2>1. n.pc # "persisting" /\ n.pc # "completing"
    BY <1>8, Zenon
  <2> SUFFICES ASSUME NEW b \in Actors
               PROVE  /\ actor'[b].pc = "persisting" => out[actor'[b].i] # {}
                      /\ actor'[b].pc = "completing" => actor'[b].i \in saved
    BY <1>1, Zenon DEF Saving
  <2>2. CASE b = a
    BY <2>1, <2>2, <1>11, Zenon
  <2>3. CASE b # a
    BY <2>3, <1>11, Zenon DEF Inv, Saving
  <2> QED BY <2>2, <2>3
<1>20. OneArtifact'
  <2> SUFFICES ASSUME NEW j \in Intents
               PROVE  wire[j] \cup out[j] \subseteq {row'[j].raw}
    BY <1>1, Zenon DEF OneArtifact
  <2>1. wire[j] \cup out[j] \subseteq {row[j].raw}
    BY Zenon DEF Inv, OneArtifact
  <2>2. CASE j = i
    <3>1. row[i].state = "ready" => wire[i] = {} /\ out[i] = {}
      BY <1>4, ReadyIsUntouched, Zenon
    <3> QED BY <2>1, <2>2, <3>1, <1>4, <1>6, <1>9, <1>10, Zenon
  <2>3. CASE j # i
    BY <2>1, <2>3, <1>10, Zenon
  <2> QED BY <2>2, <2>3
<1>21. SettledIsReal'
  <2>1. ~Consumed(r) /\ r.state # "complete"
    BY <1>6, Zenon DEF Consumed
  <2> QED BY <2>1, <1>1, <1>10, Zenon DEF Inv, SettledIsReal
<1>22. OneCurrent'
  <2>1. \A p \in Pairs : p[1] \in Intents /\ p[2] \in Intents
    BY BroadcastAssumption
  <2>2. \A j \in Intents : row'[j].link = row[j].link
    BY <1>6, <1>10, Zenon
  <2> QED BY <2>1, <2>2, ZenonT(30) DEF Inv, OneCurrent
<1> QED BY <1>12, <1>15, <1>16, <1>17, <1>18, <1>19, <1>20, <1>21, <1>22,
           Zenon DEF Inv

\* A definite rejection is recorded by an attempt that is alone with the
\* intent and left nothing on the network.
LEMMA RejectStep ==
  ASSUME Inv, NEW a \in Actors, RecordFailure(a), Holds(a),
         actor[a].why = "definite"
  PROVE  Inv'
<1> DEFINE i == actor[a].i
           r == Rejected(row[i])
           n == actor'[a]
<1>1. /\ actor[a].pc = "failed" /\ OwnsClaim(row[i], a)
      /\ row' = [row EXCEPT ![i] = AfterFailure(a, row[i])]
      /\ Goto(a, "releasing") \/ Finish(a)
      /\ UNCHANGED <<usage, wire, out, saved>>
  BY Zenon DEF RecordFailure, At, SetRow, Holds
<1>2. TypeOK /\ RowsOK /\ First(a)
  BY <1>1, Zenon DEF Inv, DefiniteIsFirst
<1>3. actor[a] \in Working
  BY <1>1, <1>2, BusyType, Zenon
<1>4. i \in Intents
  BY <1>3, Zenon DEF Working
<1>5. AfterFailure(a, row[i]) = r
  <2>1. actor[a].prior # "stalled"
    BY <1>2, Zenon DEF First
  <2> QED BY <2>1, Zenon DEF AfterFailure
<1>6. row[i] \in Row
  BY <1>2, <1>4, Zenon DEF TypeOK
<1>7. /\ r \in Row /\ r.state = "ready" /\ r.raw = NoRaw
      /\ r.link = row[i].link
  BY <1>6, RejectedRow, Zenon
<1>8. Attempting(a, i) /\ Unsent(a)
  BY <1>1, Zenon DEF Attempting, Unsent
<1>9. /\ \A b \in Actors : Attempting(b, i) => b = a
      /\ wire[i] = {} /\ out[i] = {}
  BY <1>1, <1>2, <1>4, <1>8, Zenon DEF Inv, Alone
<1> HIDE DEF r
<1>10. \A j \in Intents : row'[j] = IF j = i THEN r ELSE row[j]
  BY <1>1, <1>2, <1>5, Zenon DEF TypeOK
<1>11. /\ n \in Working \cup {Idle} /\ n.pc \in {"idle", "releasing"}
       /\ actor' = [actor EXCEPT ![a] = n]
  <2>1. CASE Goto(a, "releasing")
    <3>1. actor' = [actor EXCEPT ![a] = [actor[a] EXCEPT !.pc = "releasing"]]
      BY <2>1, Zenon DEF Goto
    <3>2. n = [actor[a] EXCEPT !.pc = "releasing"]
      BY <3>1, <1>2, Zenon DEF TypeOK
    <3>3. n \in Working /\ n.pc = "releasing"
      BY <3>2, <1>3, Zenon DEF Working, Steps
    <3> QED BY <3>1, <3>2, <3>3, Zenon
  <2>2. CASE Finish(a)
    <3>1. n = Idle
      BY <2>2, <1>2, Zenon DEF Finish, TypeOK
    <3>2. Idle.pc = "idle"
      BY Zenon DEF Idle
    <3> QED BY <2>2, <3>1, <3>2, Zenon DEF Finish
  <2> QED BY <1>1, <2>1, <2>2
<1>12. \A b \in Actors : b # a => actor'[b] = actor[b]
  BY <1>11, <1>2, Zenon DEF TypeOK
<1>13. TypeOK'
  <2>1. row' \in [Intents -> Row]
    BY <1>1, <1>2, <1>5, <1>7, Zenon DEF TypeOK
  <2>2. actor' \in [Actors -> Working \cup {Idle}]
    BY <1>2, <1>11, Zenon DEF TypeOK
  <2> QED BY <1>1, <1>2, <2>1, <2>2, Zenon DEF TypeOK
<1>14. ASSUME NEW b \in Actors, NEW j \in Intents, Attempting(b, j)'
       PROVE  /\ b # a /\ j # i /\ Attempting(b, j)
              /\ actor'[b] = actor[b] /\ row'[j] = row[j]
  <2>1. b # a
    BY <1>11, <1>14, Zenon DEF Attempting
  <2>2. actor'[b] = actor[b]
    BY <2>1, <1>12, Zenon
  <2>3. Attempting(b, j)
    BY <2>2, <1>14, Zenon DEF Attempting
  <2>4. j # i
    BY <2>1, <2>3, <1>9, Zenon
  <2> QED BY <2>1, <2>2, <2>3, <2>4, <1>10, Zenon
<1>15. RowsOK'
  <2>1. RowOK(r)
    BY <1>7, Zenon DEF RowOK
  <2> QED BY <1>2, <1>10, <2>1, Zenon DEF RowsOK
<1>16. InHand'
  <2> SUFFICES ASSUME NEW b \in Actors, NEW j \in Intents, Attempting(b, j)'
               PROVE  /\ row'[j].raw = actor'[b].v
                      /\ actor'[b].pc = "sent" => actor'[b].v \in out[j]
    BY <1>1, Zenon DEF InHand
  <2>1. Attempting(b, j) /\ actor'[b] = actor[b] /\ row'[j] = row[j]
    BY <1>14, Zenon
  <2> QED BY <2>1, Zenon DEF Inv, InHand
<1>17. DefiniteIsFirst'
  <2>1. n.pc # "failed"
    BY <1>11, Zenon
  <2> QED BY <2>1, <1>12, Zenon DEF Inv, DefiniteIsFirst, First
<1>18. Alone'
  <2> SUFFICES ASSUME NEW b \in Actors, NEW j \in Intents,
                      Attempting(b, j)', First(b)', OwnsClaim(row'[j], b)
               PROVE  /\ \A c \in Actors : Attempting(c, j)' => c = b
                      /\ Unsent(b)' => wire'[j] = {} /\ out'[j] = {}
    BY Zenon DEF Alone
  <2>1. Attempting(b, j) /\ actor'[b] = actor[b] /\ row'[j] = row[j]
    BY <1>14, Zenon
  <2>2. /\ \A c \in Actors : Attempting(c, j) => c = b
        /\ Unsent(b) => wire[j] = {} /\ out[j] = {}
    BY <2>1, Zenon DEF Inv, Alone, First
  <2>3. \A c \in Actors : Attempting(c, j)' => Attempting(c, j)
    BY <1>14, Zenon
  <2> QED BY <1>1, <2>1, <2>2, <2>3, Zenon DEF Unsent
<1>19. Saving'
  <2>1. n.pc # "persisting" /\ n.pc # "completing"
    BY <1>11, Zenon
  <2> SUFFICES ASSUME NEW b \in Actors
               PROVE  /\ actor'[b].pc = "persisting" => out[actor'[b].i] # {}
                      /\ actor'[b].pc = "completing" => actor'[b].i \in saved
    BY <1>1, Zenon DEF Saving
  <2>2. CASE b = a
    BY <2>1, <2>2, Zenon
  <2>3. CASE b # a
    BY <2>3, <1>12, Zenon DEF Inv, Saving
  <2> QED BY <2>2, <2>3
<1>20. OneArtifact'
  <2> SUFFICES ASSUME NEW j \in Intents
               PROVE  wire[j] \cup out[j] \subseteq {row'[j].raw}
    BY <1>1, Zenon DEF OneArtifact
  <2>1. CASE j = i
    BY <2>1, <1>9, Zenon
  <2>2. CASE j # i
    BY <2>2, <1>10, Zenon DEF Inv, OneArtifact
  <2> QED BY <2>1, <2>2
<1>21. SettledIsReal'
  <2>1. ~Consumed(r) /\ r.state # "complete"
    BY <1>7, Zenon DEF Consumed
  <2> QED BY <2>1, <1>1, <1>10, Zenon DEF Inv, SettledIsReal
<1>22. OneCurrent'
  <2>1. \A p \in Pairs : p[1] \in Intents /\ p[2] \in Intents
    BY BroadcastAssumption
  <2>2. \A j \in Intents : row'[j].link = row[j].link
    BY <1>7, <1>10, Zenon
  <2> QED BY <2>1, <2>2, ZenonT(30) DEF Inv, OneCurrent
<1> QED BY <1>13, <1>15, <1>16, <1>17, <1>18, <1>19, <1>20, <1>21, <1>22,
           Zenon DEF Inv

-----------------------------------------------------------------------------
(* Payjoin *)

\* Moving the links of rows that are ready touches no attempt.
LEMMA LinkStep ==
  ASSUME Inv, UNCHANGED <<usage, actor, wire, out, saved>>,
         row' \in [Intents -> Row], OneCurrent',
         \A i \in Intents :
           \/ row'[i] = row[i]
           \/ /\ row[i].state = "ready" /\ row'[i].state = "ready"
              /\ row'[i].raw = row[i].raw
  PROVE  Inv'
<1>1. TypeOK'
  BY Zenon DEF Inv, TypeOK
<1>2. \A i \in Intents : /\ row'[i].raw = row[i].raw
                          /\ row'[i].state = row[i].state
  BY Zenon
<1>3. \A i \in Intents, a \in Actors : OwnsClaim(row'[i], a) => OwnsClaim(row[i], a)
  <2>1. \A i \in Intents : row'[i].state = "claimed" => row'[i] = row[i]
    BY Zenon
  <2> QED BY <2>1, Zenon DEF OwnsClaim
<1>4. RowsOK'
  <2> SUFFICES ASSUME NEW i \in Intents PROVE RowOK(row'[i])
    BY Zenon DEF RowsOK
  <2>1. RowOK(row[i])
    BY Zenon DEF Inv, RowsOK
  <2> QED BY <2>1, Zenon DEF RowOK
<1>5. InHand' /\ DefiniteIsFirst' /\ Saving'
  BY <1>2, Zenon DEF Inv, InHand, DefiniteIsFirst, Saving, Attempting, First
<1>6. Alone'
  <2>1. \A a \in Actors : /\ First(a)' = First(a) /\ Unsent(a)' = Unsent(a)
                         /\ \A i \in Intents : Attempting(a, i)' = Attempting(a, i)
    BY Zenon DEF Attempting, First, Unsent
  <2> QED BY <1>3, <2>1, ZenonT(30) DEF Inv, Alone
<1>7. OneArtifact' /\ SettledIsReal'
  BY <1>2, Zenon DEF Inv, OneArtifact, SettledIsReal, Consumed
<1> QED BY <1>1, <1>4, <1>5, <1>6, <1>7, Zenon DEF Inv

\* The two intents of a pair are different, and no proposal is an original.
LEMMA PairTypes ==
  ASSUME NEW p \in Pairs
  PROVE  /\ p[1] \in Intents /\ p[2] \in Intents
         /\ \A q \in Pairs : /\ p[1] # q[2] /\ (p[2] = q[2] => p = q)
BY BroadcastAssumption

\* A proposal replaces an original nobody has claimed.
LEMMA ProposeStep ==
  ASSUME Inv, NEW p \in Pairs, Propose(p[1], p[2])
  PROVE  Inv'
<1> DEFINE o == p[1]
           w == [row[o] EXCEPT !.link = "superseded"]
<1>1. /\ row[o].link = "current" /\ row[o].state = "ready"
      /\ row[p[2]].link = "absent"
      /\ row' = [row EXCEPT ![o] = w, ![p[2]] = InitRow("current")]
      /\ UNCHANGED <<usage, actor, wire, out, saved>>
  BY Zenon DEF Propose, CanPropose
<1>2. /\ row \in [Intents -> Row] /\ RowsOK /\ o \in Intents /\ p[2] \in Intents
      /\ o # p[2]
  BY PairTypes, Zenon DEF Inv, TypeOK
<1>3. row[o] \in Row /\ RowOK(row[p[2]])
  BY <1>2, Zenon DEF RowsOK
<1>4. /\ w \in Row /\ w.state = row[o].state /\ w.raw = row[o].raw
      /\ w.link = "superseded"
  BY <1>3, Zenon DEF Row
<1>5. /\ InitRow("current") \in Row /\ InitRow("current").state = "ready"
      /\ InitRow("current").raw = NoRaw /\ InitRow("current").link = "current"
  BY InitRowType, Zenon
<1>6. row[p[2]].state = "ready" /\ row[p[2]].raw = NoRaw
  BY <1>1, <1>3, Zenon DEF RowOK
<1> HIDE DEF w
<1>7. row' \in [Intents -> Row]
  BY <1>1, <1>2, <1>4, <1>5, Zenon
<1>8. /\ row'[o] = w /\ row'[p[2]] = InitRow("current")
      /\ \A i \in Intents : i # o /\ i # p[2] => row'[i] = row[i]
  BY <1>1, <1>2, Zenon
<1>9. OneCurrent'
  <2> SUFFICES ASSUME NEW q \in Pairs, row'[q[2]].link = "current"
               PROVE  /\ row'[q[1]].link # "current"
                      /\ \A s \in Pairs :
                           s[1] = q[1] /\ row'[s[2]].link = "current" => s = q
    BY Zenon DEF OneCurrent
  <2>1. ASSUME NEW s \in Pairs, s # p, row'[s[2]].link = "current"
        PROVE  /\ row[s[2]].link = "current" /\ s[1] # o
               /\ row'[s[1]] = row[s[1]] /\ row[s[1]].link # "current"
    <3>1. /\ s[1] \in Intents /\ s[2] \in Intents /\ s[2] # p[2] /\ s[2] # o
          /\ s[1] # p[2]
      BY <2>1, PairTypes, Zenon
    <3>2. row[s[2]].link = "current"
      BY <2>1, <3>1, <1>8, Zenon
    <3>3. row[s[1]].link # "current"
      BY <3>2, Zenon DEF Inv, OneCurrent
    <3> QED BY <3>1, <3>2, <3>3, <1>1, <1>8, Zenon
  <2>2. CASE q = p
    <3>1. row'[q[1]].link # "current"
      BY <2>2, <1>4, <1>8, Zenon
    <3> QED BY <2>1, <2>2, <3>1, Zenon
  <2>3. CASE q # p
    BY <2>1, <2>3, Zenon DEF Inv, OneCurrent
  <2> QED BY <2>2, <2>3
<1> QED BY <1>1, <1>4, <1>5, <1>6, <1>7, <1>8, <1>9, LinkStep, Zenon

\* The original comes back when its proposal was never claimed.
LEMMA RestoreStep ==
  ASSUME Inv, NEW p \in Pairs, Restore(p[1], p[2])
  PROVE  Inv'
<1> DEFINE o == p[1]
           w == [row[o] EXCEPT !.link = "current"]
           z == [row[p[2]] EXCEPT !.link = "superseded"]
<1>1. /\ row[o].link = "superseded" /\ row[p[2]].link = "current"
      /\ row[p[2]].state = "ready"
      /\ UNCHANGED <<usage, actor, wire, out, saved>>
  BY Zenon DEF Restore, CanRestore
<1>2. /\ row \in [Intents -> Row] /\ RowsOK /\ o \in Intents /\ p[2] \in Intents
      /\ o # p[2]
  BY PairTypes, Zenon DEF Inv, TypeOK
<1>3. row' = [row EXCEPT ![o] = w, ![p[2]] = z]
  <2> DEFINE f == [row EXCEPT ![o] = w]
  <2>1. row' = [f EXCEPT ![p[2]] = [f[p[2]] EXCEPT !.link = "superseded"]]
    BY Zenon DEF Restore
  <2>2. f[p[2]] = row[p[2]]
    BY <1>2, Zenon
  <2> QED BY <2>1, <2>2, Zenon
<1>4. row[o] \in Row /\ RowOK(row[o]) /\ row[p[2]] \in Row
  BY <1>2, Zenon DEF RowsOK
<1>5. /\ w \in Row /\ w.state = row[o].state /\ w.raw = row[o].raw
      /\ z \in Row /\ z.state = row[p[2]].state /\ z.raw = row[p[2]].raw
      /\ z.link = "superseded"
  BY <1>4, Zenon DEF Row
<1>6. row[o].state = "ready"
  BY <1>1, <1>4, Zenon DEF RowOK
<1> HIDE DEF w, z
<1>7. row' \in [Intents -> Row]
  BY <1>2, <1>3, <1>5, Zenon
<1>8. /\ row'[o] = w /\ row'[p[2]] = z
      /\ \A i \in Intents : i # o /\ i # p[2] => row'[i] = row[i]
  BY <1>2, <1>3, Zenon
<1>9. OneCurrent'
  <2>1. ASSUME NEW s \in Pairs, row'[s[2]].link = "current"
        PROVE  /\ row[s[2]].link = "current"
               /\ row'[s[1]] = row[s[1]] /\ row[s[1]].link # "current"
    <3>1. /\ s[1] \in Intents /\ s[2] \in Intents /\ s[2] # o /\ s[1] # p[2]
          /\ s[2] = p[2] => s = p
      BY PairTypes, Zenon
    <3>2. s # p
      BY <2>1, <1>5, <1>8, Zenon
    <3>3. row[s[2]].link = "current"
      BY <2>1, <3>1, <3>2, <1>8, Zenon
    <3>4. row[s[1]].link # "current" /\ s[1] # o
      BY <1>1, <3>2, <3>3, Zenon DEF Inv, OneCurrent
    <3> QED BY <3>1, <3>3, <3>4, <1>8, Zenon
  <2> QED BY <2>1, Zenon DEF Inv, OneCurrent
<1> QED BY <1>1, <1>5, <1>6, <1>7, <1>8, <1>9, LinkStep, Zenon

-----------------------------------------------------------------------------
(* Moves outside the attempts *)

\* An actor moves and no row does.
LEMMA MoveOnly ==
  ASSUME Inv, NEW a \in Actors, NEW n \in Working \cup {Idle},
         actor' = [actor EXCEPT ![a] = n],
         n.pc \notin {"claimed", "failed", "sent", "completing"},
         n.pc = "persisting" => out[n.i] # {},
         usage' \in [Windows -> Nat], UNCHANGED <<row, wire, out, saved>>
  PROVE  Inv'
<1>1. TypeOK
  BY Zenon DEF Inv
<1>2. actor' \in [Actors -> Working \cup {Idle}] /\ QuietActors
  <2>1. n.pc \notin {"claimed", "failed", "sent"} /\ n.pc # "completing"
    BY Zenon
  <2> QED BY <1>1, <2>1, ActorMove, Zenon
<1>3. TypeOK'
  BY <1>1, <1>2, Zenon DEF TypeOK
<1> QED BY <1>2, <1>3, NetSame, RowsSame, QuietStep, Zenon

\* An actor goes idle and no row changes.
LEMMA IdleOnly ==
  ASSUME Inv, NEW a \in Actors, Finish(a), UNCHANGED <<row, usage, wire, out, saved>>
  PROVE  Inv'
<1>1. TypeOK
  BY Zenon DEF Inv
<1>2. actor' \in [Actors -> Working \cup {Idle}] /\ QuietActors
  BY <1>1, FinishMove, Zenon
<1>3. TypeOK'
  BY <1>1, <1>2, Zenon DEF TypeOK
<1> QED BY <1>2, <1>3, NetSame, RowsSame, QuietStep, Zenon

\* A busy actor changes its program counter only.
LEMMA GotoOnly ==
  ASSUME Inv, NEW a \in Actors, actor[a].pc # "idle",
         NEW pc \in {"reserving", "claiming", "looking", "persisting", "releasing"},
         pc = "persisting" => out[actor[a].i] # {},
         Goto(a, pc), UNCHANGED <<row, usage, wire, out, saved>>
  PROVE  Inv'
<1> DEFINE n == [actor[a] EXCEPT !.pc = pc]
<1>1. TypeOK /\ actor[a] \in Working
  BY BusyType, Zenon DEF Inv
<1>2. n \in Working /\ n.pc = pc /\ n.i = actor[a].i
  BY <1>1, Zenon DEF Working, Steps
<1>3. actor' = [actor EXCEPT ![a] = n] /\ usage' \in [Windows -> Nat]
  BY <1>1, Zenon DEF Goto, TypeOK
<1> HIDE DEF n
<1>4. /\ n.pc \notin {"claimed", "failed", "sent", "completing"}
      /\ n.pc = "persisting" => out[n.i] # {}
  BY <1>2, Zenon
<1> QED BY <1>2, <1>3, <1>4, MoveOnly, Zenon

\* The reservations in hand change.
LEMMA ReservationsOnly ==
  ASSUME Inv, NEW a \in Actors, actor[a].pc \in {"reserving", "releasing"},
         NEW s \in SUBSET Windows, actor' = [actor EXCEPT ![a].resv = s],
         usage' \in [Windows -> Nat], UNCHANGED <<row, wire, out, saved>>
  PROVE  Inv'
<1> DEFINE n == [actor[a] EXCEPT !.resv = s]
<1>1. TypeOK /\ actor[a].pc # "idle"
  BY Zenon DEF Inv
<1>2. actor[a] \in Working
  BY <1>1, BusyType, Zenon
<1>3. n \in Working /\ n.pc = actor[a].pc
  BY <1>2, Zenon DEF Working
<1>4. actor' = [actor EXCEPT ![a] = n]
  BY Zenon
<1> HIDE DEF n
<1>5. n.pc \notin {"claimed", "failed", "sent", "completing"} /\ n.pc # "persisting"
  BY <1>3, Zenon
<1> QED BY <1>3, <1>4, <1>5, MoveOnly, Zenon

\* An actor settles or gives up a row and moves on.
LEMMA SettleAndMove ==
  ASSUME Inv, NEW a \in Actors, NEW n \in Working \cup {Idle},
         NEW i \in Intents, NEW r \in Row, row' = [row EXCEPT ![i] = r],
         \/ r = row[i]
         \/ /\ row[i].state # "ready" /\ r.raw = row[i].raw /\ r.link = row[i].link
            /\ r.state \in {"unknown", "accepted", "complete"}
            /\ r.state \in {"accepted", "complete"} => row[i].raw \in out[i]
            /\ r.state = "complete" => i \in saved,
         actor' = [actor EXCEPT ![a] = n],
         \/ n = Idle
         \/ n.pc = "releasing"
         \/ n.pc = "persisting" /\ out[n.i] # {},
         UNCHANGED <<usage, wire, out, saved>>
  PROVE  Inv'
<1>1. TypeOK
  BY Zenon DEF Inv
<1>2. row' \in [Intents -> Row] /\ QuietRows
  BY <1>1, RowWrite, Zenon
<1>3. Idle.pc = "idle"
  BY Zenon DEF Idle
<1>4. /\ n.pc \notin {"claimed", "failed", "sent"} /\ n.pc # "completing"
      /\ n.pc = "persisting" => out[n.i] # {}
  BY <1>3, Zenon
<1>5. actor' \in [Actors -> Working \cup {Idle}] /\ QuietActors
  BY <1>1, <1>4, ActorMove, Zenon
<1>6. TypeOK'
  BY <1>1, <1>2, <1>5, Zenon DEF TypeOK
<1> QED BY <1>2, <1>5, <1>6, NetSame, QuietStep, Zenon

\* A transaction of an intent on the network is the one in its row.
LEMMA OutIsRaw ==
  ASSUME Inv, NEW i \in Intents, out[i] # {}
  PROVE  row[i].raw \in out[i]
BY Zenon DEF Inv, OneArtifact

\* The type facts of a busy actor that its steps use.
LEMMA Busy ==
  ASSUME Inv, NEW a \in Actors, actor[a].pc # "idle"
  PROVE  /\ TypeOK /\ actor[a] \in Working /\ actor[a].i \in Intents
         /\ actor[a].v \in Variants /\ actor[a].resv \in SUBSET Windows
         /\ row[actor[a].i] \in Row /\ RowOK(row[actor[a].i])
<1>1. TypeOK /\ actor[a] \in Working
  BY BusyType, Zenon DEF Inv
<1>2. /\ actor[a].i \in Intents /\ actor[a].v \in Variants
      /\ actor[a].resv \in SUBSET Windows
  BY <1>1, Zenon DEF Working
<1> QED BY <1>1, <1>2, Zenon DEF Inv, RowsOK, TypeOK

-----------------------------------------------------------------------------
(* The actions, group by group *)

\* What only requests do.
LEMMA RequestStep ==
  ASSUME Inv, NEW a \in Actors, RequestSteps(a)
  PROVE  Inv'
<1>1. ASSUME NEW i \in Intents, NEW v \in Variants, Begin(a, i, v)
      PROVE  Inv'
  <2> DEFINE h == Start("claiming", i, v, "held", row[i].resv)
             f == Start("reserving", i, v, "fresh", {})
             n == IF i \in External /\ HoldsFor(row[i], v) THEN h ELSE f
  <2>1. row[i].resv \in SUBSET Windows /\ {} \in SUBSET Windows
    BY Zenon DEF Inv, TypeOK, Row
  <2>2. h \in Working /\ f \in Working
    BY <2>1, Zenon DEF Start, Working, Steps
  <2>3. h.pc = "claiming" /\ f.pc = "reserving"
    BY Zenon DEF Start
  <2>4. /\ actor' = [actor EXCEPT ![a] = n] /\ usage' \in [Windows -> Nat]
        /\ UNCHANGED <<row, wire, out, saved>>
    BY <1>1, Zenon DEF Begin, Inv, TypeOK
  <2> HIDE DEF h, f
  <2>5. n \in Working
    BY <2>2, Zenon
  <2>6. n.pc = "claiming" \/ n.pc = "reserving"
    BY <2>3, Zenon
  <2> HIDE DEF n
  <2>7. n.pc \notin {"claimed", "failed", "sent", "completing"} /\ n.pc # "persisting"
    BY <2>6, Zenon
  <2> QED BY <2>4, <2>5, <2>7, MoveOnly, Zenon
<1>2. ASSUME NEW w \in Windows, Reserve(a, w)
      PROVE  Inv'
  <2>1. /\ actor[a].pc = "reserving"
        /\ usage' = [usage EXCEPT ![w] = usage[w] + Cost[actor[a].i][w]]
        /\ actor' = [actor EXCEPT ![a].resv = actor[a].resv \cup {w}]
        /\ UNCHANGED <<row, wire, out, saved>>
    BY <1>2, Zenon DEF Reserve, At
  <2>2. TypeOK /\ actor[a].i \in Intents /\ actor[a].resv \in SUBSET Windows
    BY <2>1, Busy, Zenon
  <2>3. usage[w] + Cost[actor[a].i][w] \in Nat
    BY <2>2, BroadcastAssumption, SMTT(30) DEF TypeOK
  <2>4. usage' \in [Windows -> Nat]
    BY <2>1, <2>2, <2>3, Zenon DEF TypeOK
  <2>5. actor[a].resv \cup {w} \in SUBSET Windows
    BY <2>2, Zenon
  <2> QED BY <2>1, <2>4, <2>5, ReservationsOnly, Zenon
<1>3. ASSUME NEW w \in Windows, ReserveLost(a, w)
      PROVE  Inv'
  BY <1>3, GotoOnly, Zenon DEF ReserveLost, At
<1>4. ASSUME NEW w \in Windows, Release(a, w)
      PROVE  Inv'
  <2> DEFINE u == IF usage[w] >= Cost[actor[a].i][w]
                    THEN usage[w] - Cost[actor[a].i][w] ELSE usage[w]
  <2>1. /\ actor[a].pc = "releasing"
        /\ usage' = [usage EXCEPT ![w] = u]
        /\ actor' = [actor EXCEPT ![a].resv = actor[a].resv \ {w}]
        /\ UNCHANGED <<row, wire, out, saved>>
    BY <1>4, Zenon DEF Release, At
  <2>2. TypeOK /\ actor[a].i \in Intents /\ actor[a].resv \in SUBSET Windows
    BY <2>1, Busy, Zenon
  <2>3. u \in Nat
    BY <2>2, BroadcastAssumption, SMTT(30) DEF TypeOK
  <2> HIDE DEF u
  <2>4. usage' \in [Windows -> Nat]
    BY <2>1, <2>2, <2>3, Zenon DEF TypeOK
  <2>5. actor[a].resv \ {w} \in SUBSET Windows
    BY <2>2, Zenon
  <2> QED BY <2>1, <2>4, <2>5, ReservationsOnly, Zenon
<1>5. ASSUME Reserved(a)
      PROVE  Inv'
  BY <1>5, GotoOnly, Zenon DEF Reserved, At
<1>6. ASSUME Released(a)
      PROVE  Inv'
  BY <1>6, IdleOnly, Zenon DEF Released
<1>7. ASSUME CheckFails(a)
      PROVE  Inv'
  <2> DEFINE y == IF actor[a].prior = "ready" THEN "definite" ELSE "unanswered"
  <2>1. /\ a \in Requests /\ actor[a].pc = "claimed" /\ Fail(a, y)
        /\ UNCHANGED <<row, usage, wire, out, saved>>
    BY <1>7, Zenon DEF CheckFails, At
  <2>2. y = "definite" => First(a)
    BY <2>1, Zenon DEF First
  <2>3. y \in {"definite", "answered", "unanswered"}
    BY Zenon
  <2> HIDE DEF y
  <2> QED BY <2>1, <2>2, <2>3, FailStep, Zenon
<1>8. ASSUME ChildKnown(a)
      PROVE  Inv'
  <2>1. /\ actor[a].pc = "claimed" /\ KnownToNode(actor[a].i, actor[a].v)
        /\ Goto(a, "sent") /\ UNCHANGED <<row, usage, wire, out, saved>>
    BY <1>8, Zenon DEF ChildKnown, At
  <2>2. actor[a].i \in Intents /\ Attempting(a, actor[a].i)
    BY <2>1, Busy, Zenon DEF Attempting
  <2>3. row[actor[a].i].raw = actor[a].v
    BY <2>2, Zenon DEF Inv, InHand
  <2>4. actor[a].v \in out[actor[a].i]
    BY <2>1, <2>2, <2>3, OutIsRaw, Zenon DEF KnownToNode
  <2> QED BY <2>1, <2>4, SentStep, Zenon
<1> QED BY <1>1, <1>2, <1>3, <1>4, <1>5, <1>6, <1>7, <1>8, Zenon DEF RequestSteps

\* What an actor still in possession of its claim writes when the node has its
\* transaction, and where it goes.
LEMMA AcceptStep ==
  ASSUME Inv, NEW a \in Actors, actor[a].pc # "idle", out[actor[a].i] # {},
         row[actor[a].i].state # "ready",
         SetRow(actor[a].i, Accepted(row[actor[a].i])),
         NEW ok \in BOOLEAN,
         actor' = [actor EXCEPT ![a].pc = "persisting", ![a].ok = ok],
         UNCHANGED <<usage, wire, out, saved>>
  PROVE  Inv'
<1> DEFINE i == actor[a].i
           r == Accepted(row[i])
           n == [actor[a] EXCEPT !.pc = "persisting", !.ok = ok]
<1>1. /\ actor[a] \in Working /\ i \in Intents
      /\ row[i] \in Row /\ RowOK(row[i])
  BY Busy, Zenon
<1>2. n \in Working /\ n.pc = "persisting" /\ n.i = i
  BY <1>1, Zenon DEF Working, Steps
<1>3. r \in Row /\ r.raw = row[i].raw /\ r.link = row[i].link /\ r.state = "accepted"
  BY <1>1, ZenonT(30) DEF Row, States, Accepted
<1>4. row' = [row EXCEPT ![i] = r] /\ actor' = [actor EXCEPT ![a] = n]
  BY Zenon DEF SetRow
<1>5. row[i].raw \in out[i]
  BY <1>1, OutIsRaw, Zenon
<1> HIDE DEF r, n
<1>6. r.state \in {"unknown", "accepted", "complete"} /\ r.state # "complete"
  BY <1>3, Zenon
<1> QED BY <1>1, <1>2, <1>3, <1>4, <1>5, <1>6, SettleAndMove, Zenon

\* What an actor without its claim does: nothing to the row.
LEMMA KeepStep ==
  ASSUME Inv, NEW a \in Actors, actor[a].pc # "idle",
         SetRow(actor[a].i, row[actor[a].i])
  PROVE  UNCHANGED row
<1>1. TypeOK /\ actor[a].i \in Intents
  BY Busy, Zenon
<1> QED BY <1>1, Zenon DEF SetRow, TypeOK

\* A row left unsettled by an actor that goes idle.
LEMMA GiveUpStep ==
  ASSUME Inv, NEW a \in Actors, actor[a].pc # "idle",
         row[actor[a].i].state # "ready",
         NEW r \in Row, SetRow(actor[a].i, r), Finish(a),
         r.raw = row[actor[a].i].raw, r.link = row[actor[a].i].link,
         \/ r.state = "unknown"
         \/ /\ r.state = "complete" /\ actor[a].i \in saved
            /\ row[actor[a].i].raw \in out[actor[a].i],
         UNCHANGED <<usage, wire, out, saved>>
  PROVE  Inv'
<1>1. actor[a].i \in Intents
  BY Busy, Zenon
<1>2. /\ row' = [row EXCEPT ![actor[a].i] = r]
      /\ actor' = [actor EXCEPT ![a] = Idle] /\ Idle \in Working \cup {Idle}
  BY Zenon DEF SetRow, Finish
<1>3. /\ r.state \in {"unknown", "accepted", "complete"}
      /\ r.state \in {"accepted", "complete"} => row[actor[a].i].raw \in out[actor[a].i]
      /\ r.state = "complete" => actor[a].i \in saved
  BY Zenon
<1> HIDE DEF Idle
<1> QED BY <1>1, <1>2, <1>3, SettleAndMove, Zenon

\* What only reconcilers do.
LEMMA ReconcilerStep ==
  ASSUME Inv, NEW a \in Actors, ReconcilerSteps(a)
  PROVE  Inv'
<1>1. ASSUME NEW i \in Intents, List(a, i)
      PROVE  Inv'
  <2> DEFINE p == [Start("persisting", i, row[i].raw, "reconcile", {}) EXCEPT !.ok = TRUE]
             c == Start("claiming", i, row[i].raw, "reconcile", row[i].resv)
             n == IF row[i].state = "accepted" THEN p ELSE c
  <2>1. /\ row[i].resv \in SUBSET Windows /\ {} \in SUBSET Windows
        /\ row[i].raw \in Variants \cup {NoRaw}
    BY Zenon DEF Inv, TypeOK, Row
  <2>2. row[i].raw \in Variants
    BY <1>1, <2>1, Zenon DEF List, ForReconciliation
  <2>3. p \in Working /\ c \in Working
    BY <2>1, <2>2, Zenon DEF Start, Working, Steps
  <2>4. p.pc = "persisting" /\ p.i = i /\ c.pc = "claiming"
    BY Zenon DEF Start
  <2>5. /\ actor' = [actor EXCEPT ![a] = n] /\ usage' \in [Windows -> Nat]
        /\ UNCHANGED <<row, wire, out, saved>>
    BY <1>1, Zenon DEF List, Inv, TypeOK
  <2>6. row[i].state = "accepted" => out[i] # {}
    BY Zenon DEF Inv, SettledIsReal, Consumed
  <2> HIDE DEF p, c
  <2>7. n \in Working
    BY <2>3, Zenon
  <2>8. n.pc = "claiming" \/ (n.pc = "persisting" /\ out[n.i] # {})
    BY <2>4, <2>6, Zenon
  <2> HIDE DEF n
  <2>9. /\ n.pc \notin {"claimed", "failed", "sent", "completing"}
        /\ n.pc = "persisting" => out[n.i] # {}
    BY <2>8, Zenon
  <2> QED BY <2>5, <2>7, <2>9, MoveOnly, Zenon
<1>2. ASSUME NEW i \in Intents, ListStalled(a, i)
      PROVE  Inv'
  <2> DEFINE n == Start("looking", i, row[i].raw, "reconcile", {})
  <2>1. row[i] \in Row /\ RowOK(row[i]) /\ row[i].state # "ready"
    BY <1>2, Zenon DEF Inv, TypeOK, RowsOK, ListStalled, Stalled
  <2>2. row[i].raw \in Variants /\ {} \in SUBSET Windows
    BY <2>1, Zenon DEF Row, RowOK
  <2>3. n \in Working /\ n.pc = "looking"
    BY <2>2, Zenon DEF Start, Working, Steps
  <2>4. /\ actor' = [actor EXCEPT ![a] = n] /\ usage' \in [Windows -> Nat]
        /\ UNCHANGED <<row, wire, out, saved>>
    BY <1>2, Zenon DEF ListStalled, Inv, TypeOK
  <2> HIDE DEF n
  <2>5. n.pc \notin {"claimed", "failed", "sent", "completing"} /\ n.pc # "persisting"
    BY <2>3, Zenon
  <2> QED BY <2>3, <2>4, <2>5, MoveOnly, Zenon
<1>3. ASSUME LookupHit(a)
      PROVE  Inv'
  <2>1. /\ actor[a].pc = "claimed" /\ KnownToNode(actor[a].i, actor[a].v)
        /\ UNCHANGED <<usage, wire, out, saved>>
    BY <1>3, Zenon DEF LookupHit, At
  <2>2. actor[a].pc # "idle" /\ out[actor[a].i] # {}
    BY <2>1, Zenon DEF KnownToNode
  <2>3. CASE Holds(a)
    <3>1. row[actor[a].i].state # "ready"
      BY <2>3, Zenon DEF Holds, OwnsClaim
    <3>2. /\ SetRow(actor[a].i, Accepted(row[actor[a].i]))
          /\ actor' = [actor EXCEPT ![a].pc = "persisting", ![a].ok = TRUE]
      BY <1>3, <2>3, Zenon DEF LookupHit
    <3> QED BY <2>1, <2>2, <3>1, <3>2, AcceptStep, Zenon
  <2>4. CASE ~Holds(a)
    BY <1>3, <2>1, <2>4, IdleOnly, Zenon DEF LookupHit
  <2> QED BY <2>3, <2>4
<1>4. ASSUME Withhold(a)
      PROVE  Inv'
  <2>1. /\ actor[a].pc = "claimed" /\ Finish(a)
        /\ UNCHANGED <<usage, wire, out, saved>>
    BY <1>4, Zenon DEF Withhold, At
  <2>2. actor[a].pc # "idle"
    BY <2>1, Zenon
  <2>3. CASE Holds(a)
    <3> DEFINE i == actor[a].i
               r == Withheld(row[i])
    <3>1. row[i] \in Row /\ row[i].state # "ready" /\ RowOK(row[i])
      BY <2>2, <2>3, Busy, Zenon DEF Holds, OwnsClaim
    <3>2. MaxReconcile \in 0..CountCap
      BY IntentRowAssumption DEF CountCap
    <3>3. /\ r \in Row /\ r.raw = row[i].raw /\ r.link = row[i].link
          /\ r.state = "unknown"
      BY <3>1, <3>2, ZenonT(30) DEF Row, States, Withheld, ReleasedToUnknown
    <3>4. SetRow(i, r)
      BY <1>4, <2>3, Zenon DEF Withhold
    <3> HIDE DEF r
    <3> QED BY <2>1, <2>2, <3>1, <3>3, <3>4, GiveUpStep, ZenonT(30)
  <2>4. CASE ~Holds(a)
    <3>1. SetRow(actor[a].i, row[actor[a].i])
      BY <1>4, <2>4, Zenon DEF Withhold
    <3> QED BY <2>1, <2>2, <3>1, KeepStep, IdleOnly, Zenon
  <2> QED BY <2>3, <2>4
<1>5. ASSUME StalledFound(a)
      PROVE  Inv'
  <2>1. /\ actor[a].pc = "looking" /\ KnownToNode(actor[a].i, actor[a].v)
        /\ UNCHANGED <<usage, wire, out, saved>>
    BY <1>5, Zenon DEF StalledFound, At
  <2>2. actor[a].pc # "idle" /\ out[actor[a].i] # {}
    BY <2>1, Zenon DEF KnownToNode
  <2>3. CASE Stalled(row[actor[a].i]) /\ SameTxid(row[actor[a].i].raw, actor[a].v)
    <3>1. row[actor[a].i].state # "ready"
      BY <2>3, Zenon DEF Stalled
    <3>2. /\ SetRow(actor[a].i, Accepted(row[actor[a].i]))
          /\ actor' = [actor EXCEPT ![a].pc = "persisting", ![a].ok = TRUE]
      BY <1>5, <2>3, Zenon DEF StalledFound
    <3> QED BY <2>1, <2>2, <3>1, <3>2, AcceptStep, Zenon
  <2>4. CASE ~(Stalled(row[actor[a].i]) /\ SameTxid(row[actor[a].i].raw, actor[a].v))
    BY <1>5, <2>1, <2>4, IdleOnly, Zenon DEF StalledFound
  <2> QED BY <2>3, <2>4
<1>6. ASSUME StalledMissed(a)
      PROVE  Inv'
  BY <1>6, IdleOnly, Zenon DEF StalledMissed
<1> QED BY <1>1, <1>2, <1>3, <1>4, <1>5, <1>6, Zenon DEF ReconcilerSteps

\* A failure is recorded.
LEMMA RecordFailureStep ==
  ASSUME Inv, NEW a \in Actors, RecordFailure(a)
  PROVE  Inv'
<1> DEFINE i == actor[a].i
<1>1. /\ actor[a].pc = "failed"
      /\ SetRow(i, IF Holds(a) THEN AfterFailure(a, row[i]) ELSE row[i])
      /\ (Holds(a) /\ actor[a].why = "definite") \/ Finish(a)
      /\ UNCHANGED <<usage, wire, out, saved>>
  BY Zenon DEF RecordFailure, At
<1>2. actor[a].pc # "idle"
  BY <1>1, Zenon
<1>3. CASE Holds(a) /\ actor[a].why = "definite"
  BY <1>3, RejectStep, Zenon
<1>4. CASE Holds(a) /\ actor[a].why # "definite"
  <2> DEFINE r == AfterFailure(a, row[i])
  <2>1. /\ row[i] \in Row /\ row[i].state = "claimed" /\ row[i].state # "ready"
        /\ row[i].count > 0
    BY <1>2, <1>4, Busy, Zenon DEF Holds, OwnsClaim, RowOK
  <2>2. \/ r = ReleasedToUnknown(row[i])
        \/ r = MarkedUnknown(row[i], actor[a].why = "answered")
    BY <1>4, Zenon DEF AfterFailure
  <2>3. r \in Row /\ r.raw = row[i].raw /\ r.link = row[i].link /\ r.state = "unknown"
    <3> DEFINE Q(d) == [ReleasedToUnknown(row[i]) EXCEPT !.count = d]
    <3>1. row[i].count \in 0..CountCap /\ row[i].count - 1 \in 0..CountCap
      BY <2>1, IntentRowAssumption DEF Row, CountCap
    <3>2. ReleasedToUnknown(row[i]).count = row[i].count
      BY <2>1, Zenon DEF Row, ReleasedToUnknown
    <3>3. ASSUME NEW d \in 0..CountCap
          PROVE  /\ Q(d) \in Row /\ Q(d).raw = row[i].raw
                 /\ Q(d).link = row[i].link /\ Q(d).state = "unknown"
      BY <2>1, ZenonT(30) DEF Row, States, ReleasedToUnknown
    <3>4. MarkedUnknown(row[i], actor[a].why = "answered") =
            Q(IF actor[a].why = "answered" THEN row[i].count ELSE row[i].count - 1)
      BY <3>2, Zenon DEF MarkedUnknown
    <3>5. /\ ReleasedToUnknown(row[i]) \in Row
          /\ ReleasedToUnknown(row[i]).raw = row[i].raw
          /\ ReleasedToUnknown(row[i]).link = row[i].link
          /\ ReleasedToUnknown(row[i]).state = "unknown"
      BY <2>1, ZenonT(30) DEF Row, States, ReleasedToUnknown
    <3> HIDE DEF Q, r
    <3>6. CASE r = ReleasedToUnknown(row[i])
      BY <3>5, <3>6, Zenon
    <3>7. CASE r = MarkedUnknown(row[i], actor[a].why = "answered")
      <4>1. \E d \in 0..CountCap : r = Q(d)
        BY <3>1, <3>4, <3>7, Zenon
      <4> QED BY <3>3, <4>1, Zenon
    <3> QED BY <2>2, <3>6, <3>7
  <2>4. SetRow(i, r)
    BY <1>1, <1>4, Zenon
  <2> HIDE DEF r
  <2> QED BY <1>1, <1>2, <1>4, <2>1, <2>3, <2>4, GiveUpStep, Zenon
<1>5. CASE ~Holds(a)
  <2>1. SetRow(i, row[i])
    BY <1>1, <1>5, Zenon
  <2> QED BY <1>1, <1>2, <1>5, <2>1, KeepStep, IdleOnly, Zenon
<1> QED BY <1>3, <1>4, <1>5

\* The history gains a transaction the network has.
LEMMA PersistStep ==
  ASSUME Inv, NEW a \in Actors, Persist(a)
  PROVE  Inv'
<1>1. /\ actor[a].pc = "persisting" /\ saved' = saved \cup {actor[a].i}
      /\ Goto(a, "completing") \/ Finish(a)
      /\ UNCHANGED <<row, usage, wire, out>>
  BY Zenon DEF Persist, At
<1>2. actor[a].pc # "idle" /\ out[actor[a].i] # {}
  BY <1>1, Zenon DEF Inv, Saving
<1>3. TypeOK /\ actor[a] \in Working /\ actor[a].i \in Intents
  BY <1>2, Busy, Zenon
<1>4. QuietNet /\ QuietRows /\ saved' \in SUBSET Intents
  <2>1. saved \in SUBSET Intents
    BY <1>3, Zenon DEF TypeOK
  <2>2. /\ \A i \in Intents :
             /\ wire'[i] \cup out'[i] \subseteq wire[i] \cup out[i]
             /\ out[i] \subseteq out'[i]
        /\ saved \subseteq saved'
    BY <1>1, Zenon
  <2>3. \A i \in saved' : i \in saved \/ out[i] # {}
    BY <1>1, <1>2, Zenon
  <2> QED BY <1>1, <1>3, <2>1, <2>2, <2>3, RowsSame, Zenon DEF QuietNet
<1>5. actor' \in [Actors -> Working \cup {Idle}] /\ QuietActors
  <2>1. CASE Goto(a, "completing")
    <3> DEFINE n == [actor[a] EXCEPT !.pc = "completing"]
    <3>1. n \in Working /\ n.pc = "completing" /\ n.i = actor[a].i
      BY <1>3, Zenon DEF Working, Steps
    <3>2. actor' = [actor EXCEPT ![a] = n]
      BY <2>1, Zenon DEF Goto
    <3> HIDE DEF n
    <3>3. n.pc \notin {"claimed", "failed", "sent"} /\ n.pc # "persisting"
      BY <3>1, Zenon
    <3>4. n.i \in saved'
      BY <1>1, <3>1, Zenon
    <3> QED BY <1>3, <3>1, <3>2, <3>3, <3>4, ActorMove, Zenon
  <2>2. CASE Finish(a)
    BY <1>3, <2>2, FinishMove, Zenon
  <2> QED BY <1>1, <2>1, <2>2
<1>6. TypeOK'
  BY <1>1, <1>3, <1>4, <1>5, Zenon DEF TypeOK
<1> QED BY <1>4, <1>5, <1>6, QuietStep, Zenon

\* What requests and reconcilers both do.
LEMMA OwnStep ==
  ASSUME Inv, NEW a \in Actors, AttemptSteps(a)
  PROVE  Inv'
<1>1. ASSUME ClaimRefused(a)
      PROVE  Inv'
  <2>1. /\ actor[a].pc = "claiming" /\ actor' = [actor EXCEPT ![a] = AfterRefusal(a)]
        /\ UNCHANGED <<row, usage, wire, out, saved>>
    BY <1>1, Zenon DEF ClaimRefused, At
  <2>2. actor[a].pc # "idle"
    BY <2>1, Zenon
  <2>3. CASE actor[a].mode = "fresh"
    <3>1. Goto(a, "releasing")
      BY <2>1, <2>3, Zenon DEF AfterRefusal, Goto
    <3> QED BY <2>1, <2>2, <3>1, GotoOnly, Zenon
  <2>4. CASE actor[a].mode # "fresh"
    <3>1. Finish(a)
      BY <2>1, <2>4, Zenon DEF AfterRefusal, Finish
    <3> QED BY <2>1, <3>1, IdleOnly, Zenon
  <2> QED BY <2>3, <2>4
<1>2. ASSUME AlreadyAccepted(a)
      PROVE  Inv'
  BY <1>2, IdleOnly, Zenon DEF AlreadyAccepted
<1>3. ASSUME NodeAccepts(a)
      PROVE  Inv'
  <2>1. /\ actor[a].pc = "claimed" /\ Goto(a, "sent")
        /\ out' = [out EXCEPT ![actor[a].i] = out[actor[a].i] \cup {actor[a].v}]
        /\ UNCHANGED <<row, usage, wire, saved>>
    BY <1>3, Zenon DEF NodeAccepts, At
  <2> QED BY <2>1, SentStep, Zenon
<1>4. ASSUME NodeRefuses(a)
      PROVE  Inv'
  <2>1. PICK why \in Refusals(a) : Fail(a, why)
    BY <1>4, Zenon DEF NodeRefuses
  <2>2. actor[a].pc = "claimed" /\ UNCHANGED <<row, usage, wire, out, saved>>
    BY <1>4, Zenon DEF NodeRefuses, At
  <2>3. /\ why \in {"definite", "answered", "unanswered"}
        /\ why = "definite" => First(a)
    BY <2>1, Zenon DEF Refusals, First
  <2> QED BY <2>1, <2>2, <2>3, FailStep, Zenon
<1>5. ASSUME MarkAccepted(a)
      PROVE  Inv'
  <2>1. /\ actor[a].pc = "sent" /\ UNCHANGED <<usage, wire, out, saved>>
        /\ SetRow(actor[a].i,
                  IF Holds(a) THEN Accepted(row[actor[a].i]) ELSE row[actor[a].i])
        /\ Finish(a) \/ actor' = [actor EXCEPT ![a].pc = "persisting",
                                               ![a].ok = Holds(a)]
        /\ Holds(a) => actor' = [actor EXCEPT ![a].pc = "persisting",
                                              ![a].ok = Holds(a)]
    BY <1>5, Zenon DEF MarkAccepted, At
  <2>2. actor[a].pc # "idle" /\ Attempting(a, actor[a].i)
    BY <2>1, Zenon DEF Attempting
  <2>3. actor[a].i \in Intents /\ actor[a] \in Working
    BY <2>2, Busy, Zenon
  <2>4. out[actor[a].i] # {}
    BY <2>1, <2>2, <2>3, Zenon DEF Inv, InHand
  <2>5. Holds(a) \in BOOLEAN
    BY Zenon DEF Holds, OwnsClaim
  <2>6. CASE Holds(a)
    <3>1. row[actor[a].i].state # "ready"
      BY <2>6, Zenon DEF Holds, OwnsClaim
    <3>2. SetRow(actor[a].i, Accepted(row[actor[a].i]))
      BY <2>1, <2>6, Zenon
    <3> QED BY <2>1, <2>2, <2>4, <2>5, <2>6, <3>1, <3>2, AcceptStep, Zenon
  <2>7. CASE ~Holds(a)
    <3>1. UNCHANGED row
      <4>1. SetRow(actor[a].i, row[actor[a].i])
        BY <2>1, <2>7, Zenon
      <4> QED BY <2>2, <4>1, KeepStep, Zenon
    <3>2. CASE Finish(a)
      BY <2>1, <3>1, <3>2, IdleOnly, Zenon
    <3>3. CASE actor' = [actor EXCEPT ![a].pc = "persisting", ![a].ok = Holds(a)]
      <4> DEFINE n == [actor[a] EXCEPT !.pc = "persisting", !.ok = Holds(a)]
      <4>1. n \in Working /\ n.pc = "persisting" /\ n.i = actor[a].i
        BY <2>3, <2>5, Zenon DEF Working, Steps
      <4>2. actor' = [actor EXCEPT ![a] = n] /\ usage' \in [Windows -> Nat]
        BY <2>1, <3>3, Zenon DEF Inv, TypeOK
      <4> HIDE DEF n
      <4>3. n.pc \notin {"claimed", "failed", "sent", "completing"}
        BY <4>1, Zenon
      <4> QED BY <2>1, <2>4, <3>1, <4>1, <4>2, <4>3, MoveOnly, Zenon
    <3> QED BY <2>1, <3>2, <3>3
  <2> QED BY <2>6, <2>7
<1>6. ASSUME Complete(a)
      PROVE  Inv'
  <2> DEFINE i == actor[a].i
  <2>1. /\ actor[a].pc = "completing" /\ Finish(a)
        /\ SetRow(i, IF CanComplete(row[i], actor[a].v)
                       THEN Completed(row[i]) ELSE row[i])
        /\ UNCHANGED <<usage, wire, out, saved>>
    BY <1>6, Zenon DEF Complete, At
  <2>2. actor[a].pc # "idle" /\ i \in saved
    BY <2>1, Zenon DEF Inv, Saving
  <2>3. i \in Intents /\ row[i] \in Row
    BY <2>2, Busy, Zenon
  <2>4. CASE CanComplete(row[i], actor[a].v)
    <3> DEFINE r == Completed(row[i])
    <3>1. row[i].state # "ready" /\ Consumed(row[i])
      BY <2>4, Zenon DEF CanComplete, Consumed
    <3>2. row[i].raw \in out[i]
      BY <2>3, <3>1, Zenon DEF Inv, SettledIsReal
    <3>3. /\ r \in Row /\ r.raw = row[i].raw /\ r.link = row[i].link
          /\ r.state = "complete"
      BY <2>3, ZenonT(30) DEF Row, States, Completed
    <3>4. SetRow(i, r)
      BY <2>1, <2>4, Zenon
    <3> HIDE DEF r
    <3> QED BY <2>1, <2>2, <3>1, <3>2, <3>3, <3>4, GiveUpStep, Zenon
  <2>5. CASE ~CanComplete(row[i], actor[a].v)
    <3>1. SetRow(i, row[i])
      BY <2>1, <2>5, Zenon
    <3> QED BY <2>1, <2>2, <3>1, KeepStep, IdleOnly, Zenon
  <2> QED BY <2>4, <2>5
<1> QED BY <1>1, <1>2, <1>3, <1>4, <1>5, <1>6, ClaimStep, RecordFailureStep,
           PersistStep, Zenon DEF AttemptSteps

\* Lost answers, failed statements and crashes.
LEMMA FaultStep ==
  ASSUME Inv, NEW a \in Actors, Faults(a)
  PROVE  Inv'
<1> DEFINE i == actor[a].i
           v == actor[a].v
           n == [actor[a] EXCEPT !.pc = "failed", !.why = "unanswered"]
<1>1. ASSUME actor[a].pc = "claimed", Fail(a, "unanswered"),
             \/ /\ out' = [out EXCEPT ![i] = out[i] \cup {v}] /\ UNCHANGED wire
             \/ /\ wire' = [wire EXCEPT ![i] = wire[i] \cup {v}] /\ UNCHANGED out,
             UNCHANGED <<row, usage, saved>>
      PROVE  Inv'
  <2>1. actor[a].pc # "idle"
    BY <1>1, Zenon
  <2>2. TypeOK /\ actor[a] \in Working /\ i \in Intents /\ v \in Variants
    BY <2>1, Busy, Zenon
  <2>3. /\ n \in Working /\ n.i = i /\ n.v = v
        /\ n.prior = actor[a].prior /\ n.pc = "failed" /\ n.why = "unanswered"
    BY <2>2, ZenonT(30) DEF Working, Steps
  <2>4. actor' = [actor EXCEPT ![a] = n]
    BY <1>1, ZenonT(30) DEF Fail
  <2>5. wire \in [Intents -> SUBSET Variants] /\ out \in [Intents -> SUBSET Variants]
    BY <2>2, Zenon DEF TypeOK
  <2>6. wire' \in [Intents -> SUBSET Variants] /\ out' \in [Intents -> SUBSET Variants]
    BY <1>1, <2>2, <2>5, SMTT(30)
  <2>7. \A j \in Intents :
          /\ out[j] \subseteq out'[j]
          /\ wire'[j] \cup out'[j] \subseteq wire[j] \cup out[j] \cup {v}
          /\ j # i => wire'[j] = wire[j] /\ out'[j] = out[j]
    BY <1>1, <2>2, <2>5, Zenon
  <2> HIDE DEF n
  <2>8. n.pc \in {"failed", "sent"} /\ n.pc # "sent" /\ n.why # "definite"
    BY <2>3, Zenon
  <2>9. \A j \in Intents :
          /\ out[j] \subseteq out'[j]
          /\ wire'[j] \cup out'[j] \subseteq wire[j] \cup out[j] \cup {n.v}
          /\ j # n.i => wire'[j] = wire[j] /\ out'[j] = out[j]
    BY <2>3, <2>7, Zenon
  <2> QED BY <1>1, <2>3, <2>4, <2>6, <2>8, <2>9, AttemptStep, ZenonT(30)
<1>2. ASSUME ReplyLost(a) \/ SubmissionDelayed(a)
      PROVE  Inv'
  BY <1>1, <1>2, Zenon DEF ReplyLost, SubmissionDelayed, At
<1>3. ASSUME ReserveFails(a)
      PROVE  Inv'
  BY <1>3, GotoOnly, Zenon DEF ReserveFails, At
<1>4. ASSUME NEW w \in Windows, ReleaseFails(a, w)
      PROVE  Inv'
  <2>1. /\ actor[a].pc = "releasing"
        /\ actor' = [actor EXCEPT ![a].resv = actor[a].resv \ {w}]
        /\ UNCHANGED <<row, usage, wire, out, saved>>
    BY <1>4, Zenon DEF ReleaseFails, At
  <2>2. TypeOK /\ actor[a].resv \in SUBSET Windows
    BY <2>1, Busy, Zenon
  <2>3. usage' \in [Windows -> Nat] /\ actor[a].resv \ {w} \in SUBSET Windows
    BY <2>1, <2>2, Zenon DEF TypeOK
  <2> QED BY <2>1, <2>3, ReservationsOnly, Zenon
<1>5. ASSUME MarkAcceptedFails(a)
      PROVE  Inv'
  <2>1. /\ actor[a].pc = "sent" /\ Goto(a, "persisting")
        /\ UNCHANGED <<row, usage, wire, out, saved>>
    BY <1>5, Zenon DEF MarkAcceptedFails, At
  <2>2. actor[a].pc # "idle" /\ Attempting(a, i)
    BY <2>1, Zenon DEF Attempting
  <2>3. i \in Intents
    BY <2>2, Busy, Zenon
  <2>4. out[i] # {}
    BY <2>1, <2>2, <2>3, Zenon DEF Inv, InHand
  <2> QED BY <2>1, <2>2, <2>4, GotoOnly, Zenon
<1>6. ASSUME Abandon(a)
      PROVE  Inv'
  BY <1>6, IdleOnly, Zenon DEF Abandon
<1> QED BY <1>2, <1>3, <1>4, <1>5, <1>6, Zenon DEF Faults

\* Time, the network and payjoin negotiation.
LEMMA EnvironmentStep ==
  ASSUME Inv, Environment
  PROVE  Inv'
<1>1. ASSUME NEW i \in Intents, LeaseExpires(i)
      PROVE  Inv'
  <2> DEFINE r == [row[i] EXCEPT !.expired = TRUE]
  <2>1. /\ row' = [row EXCEPT ![i] = r] /\ UNCHANGED <<usage, actor, wire, out, saved>>
    BY <1>1, Zenon DEF LeaseExpires, SetRow
  <2>2. TypeOK /\ row[i] \in Row
    BY Zenon DEF Inv, TypeOK
  <2>3. /\ r \in Row /\ r.raw = row[i].raw /\ r.link = row[i].link
        /\ r.state = row[i].state /\ r.owner = row[i].owner /\ r.count = row[i].count
    BY <2>2, ZenonT(30) DEF Row
  <2> HIDE DEF r
  <2>4. TypeOK'
    BY <2>1, <2>2, <2>3, Zenon DEF TypeOK
  <2>5. \A j \in Intents : row'[j] = IF j = i THEN r ELSE row[j]
    BY <2>1, <2>2, Zenon DEF TypeOK
  <2>6. QuietRows
    BY <2>3, <2>5, Zenon DEF QuietRows
  <2>7. QuietActors
    BY <2>1, Zenon DEF QuietActors
  <2> QED BY <2>1, <2>4, <2>6, <2>7, NetSame, QuietStep, Zenon
<1>2. ASSUME NEW i \in Intents, NEW v \in Variants,
             WireArrives(i, v) \/ WireDrops(i, v)
      PROVE  Inv'
  <2>1. /\ v \in wire[i] /\ wire' = [wire EXCEPT ![i] = wire[i] \ {v}]
        /\ out' = [out EXCEPT ![i] = out[i] \cup {v}] \/ out' = out
        /\ UNCHANGED <<row, usage, actor, saved>>
    BY <1>2, Zenon DEF WireArrives, WireDrops
  <2>2. /\ TypeOK /\ wire \in [Intents -> SUBSET Variants]
        /\ out \in [Intents -> SUBSET Variants]
    BY Zenon DEF Inv, TypeOK
  <2>3. wire' \in [Intents -> SUBSET Variants] /\ out' \in [Intents -> SUBSET Variants]
    BY <2>1, <2>2, Zenon
  <2>4. \A j \in Intents : /\ wire'[j] \cup out'[j] \subseteq wire[j] \cup out[j]
                            /\ out[j] \subseteq out'[j]
    BY <2>1, <2>2, Zenon
  <2>5. TypeOK'
    BY <2>1, <2>2, <2>3, Zenon DEF TypeOK
  <2>6. QuietNet /\ QuietActors
    BY <2>1, <2>4, Zenon DEF QuietNet, QuietActors
  <2> QED BY <2>1, <2>5, <2>6, RowsSame, QuietStep, Zenon
<1> QED BY <1>1, <1>2, ProposeStep, RestoreStep, Zenon DEF Environment

-----------------------------------------------------------------------------
(* The theorems *)

\* The invariant holds initially.
LEMMA InitInv == Init => Inv
<1> SUFFICES ASSUME Init PROVE Inv
  OBVIOUS
<1> DEFINE L(i) == IF i \in Originals THEN "current" ELSE "absent"
<1>1. \A i \in Intents : L(i) \in {"absent", "current", "superseded"}
  BY Zenon
<1>2. row = [i \in Intents |-> InitRow(L(i))]
  BY Zenon DEF Init
<1>3. \A i \in Intents :
        /\ row[i] \in Row /\ row[i].state = "ready" /\ row[i].raw = NoRaw
        /\ row[i].link = L(i)
  <2> HIDE DEF L
  <2> QED BY <1>1, <1>2, InitRowType, Zenon
<1>4. \A a \in Actors : actor[a].pc = "idle"
  <2>1. Idle.pc = "idle"
    BY Zenon DEF Idle
  <2> QED BY <2>1, Zenon DEF Init
<1>5. \A i \in Intents : wire[i] = {} /\ out[i] = {}
  BY Zenon DEF Init
<1>6. TypeOK
  <2>1. row \in [Intents -> Row]
    BY <1>2, <1>3, Zenon
  <2>2. usage \in [Windows -> Nat]
    BY Zenon DEF Init
  <2>3. actor \in [Actors -> Working \cup {Idle}]
    BY Zenon DEF Init
  <2>4. /\ wire \in [Intents -> SUBSET Variants] /\ out \in [Intents -> SUBSET Variants]
        /\ saved \in SUBSET Intents
    BY Zenon DEF Init
  <2> QED BY <2>1, <2>2, <2>3, <2>4, Zenon DEF TypeOK
<1>7. RowsOK
  <2>1. \A i \in Intents : row[i].state = "ready" => row[i].state # "claimed"
    BY Zenon
  <2> QED BY <1>3, <2>1, Zenon DEF RowsOK, RowOK
<1>8. ASSUME NEW a \in Actors
      PROVE  /\ actor[a].pc \notin {"claimed", "failed", "sent"}
             /\ actor[a].pc # "failed" /\ actor[a].pc # "persisting"
             /\ actor[a].pc # "completing"
  <2>1. actor[a].pc = "idle"
    BY <1>4, Zenon
  <2> QED BY <2>1, Zenon
<1>9. InHand /\ DefiniteIsFirst /\ Alone /\ Saving
  BY <1>8, Zenon DEF InHand, DefiniteIsFirst, Alone, Saving, Attempting
<1>10. OneArtifact
  BY <1>5, Zenon DEF OneArtifact
<1>11. SettledIsReal
  <2>1. saved = {}
    BY Zenon DEF Init
  <2> QED BY <1>3, <2>1, Zenon DEF SettledIsReal, Consumed
<1>12. OneCurrent
  <2>1. \A p \in Pairs : row[p[2]].link = "absent"
    <3>1. \A p \in Pairs : p[2] \in Intents /\ p[2] \notin Originals
      BY BroadcastAssumption
    <3> QED BY <1>3, <3>1, Zenon
  <2> QED BY <2>1, Zenon DEF OneCurrent
<1> QED BY <1>6, <1>7, <1>9, <1>10, <1>11, <1>12, Zenon DEF Inv

\* Every step preserves it.
LEMMA NextInv == Inv /\ [Next]_vars => Inv'
<1> SUFFICES ASSUME Inv, [Next]_vars PROVE Inv'
  OBVIOUS
<1>1. CASE Next
  BY <1>1, RequestStep, ReconcilerStep, OwnStep, FaultStep, EnvironmentStep,
     Zenon DEF Next
<1>2. CASE UNCHANGED vars
  <2>1. UNCHANGED <<row, usage, actor, wire, out, saved>>
    BY <1>2, Zenon DEF vars
  <2>2. TypeOK' /\ QuietActors
    BY <2>1, Zenon DEF Inv, TypeOK, QuietActors
  <2> QED BY <2>1, <2>2, NetSame, RowsSame, QuietStep, Zenon
<1> QED BY <1>1, <1>2

\* The invariant of the broadcast protocol.
THEOREM Invariance == Spec => []Inv
BY InitInv, NextInv, PTL DEF Spec

\* The tables and the actors' locals keep their types: the attempt count stays
\* within its range, and an intent in hand is one of the wallet's.
THEOREM TypeCorrect == Spec => []TypeOK
<1>1. Inv => TypeOK
  BY Zenon DEF Inv
<1> QED BY <1>1, Invariance, PTL

\* No intent ever has two signed transactions under way, for any number of
\* requests, retries, reconcilers, lost answers and crashes: the row names the
\* only bytes submitted (claimBroadcast and releaseRejectedBroadcast).
THEOREM NoSecondArtifact == Spec => []OneArtifact
<1>1. Inv => OneArtifact
  BY Zenon DEF Inv
<1> QED BY <1>1, Invariance, PTL

\* An intent marked accepted is on the network, one marked complete is in the
\* wallet's history, and the history has nothing the network does not
\* (markBroadcastAccepted, persistTransaction, markBroadcastComplete).
THEOREM SettledIsTrue == Spec => []SettledIsReal
<1>1. Inv => SettledIsReal
  BY Zenon DEF Inv
<1> QED BY <1>1, Invariance, PTL

\* A payjoin original and its proposal never both reach the network, whatever
\* is restored or proposed while attempts are under way
\* (restorePayjoinOriginal, create with supersedesIntentId).
THEOREM PayjoinExclusive == Spec => []NeverBoth
<1>1. Inv => NeverBoth
  <2> SUFFICES ASSUME Inv, NEW p \in Pairs, Gone(p[1]), Gone(p[2])
               PROVE  FALSE
    BY Zenon DEF NeverBoth
  <2>1. p[1] \in Intents /\ p[2] \in Intents
    BY PairTypes, Zenon
  <2>2. row[p[1]].state # "ready" /\ row[p[2]].state # "ready"
    BY <2>1, ReadyIsUntouched, Zenon DEF Gone
  <2>3. row[p[1]].link = "current" /\ row[p[2]].link = "current"
    BY <2>1, <2>2, Zenon DEF Inv, RowsOK, RowOK
  <2> QED BY <2>3, Zenon DEF Inv, OneCurrent
<1> QED BY <1>1, Invariance, PTL

-----------------------------------------------------------------------------
(* Broadcast implements SpendIntent: each action changes one of the abstract
   variables for one intent, or none; the invariant above supplies the
   abstract guards. *)

\* The abstract value of one row.
RawSet(r) == {r.raw} \ {NoRaw}

\* A row that keeps its bytes and is settled as far as before.
SameShow(r, s) ==
  /\ r.raw = s.raw
  /\ Consumed(r) <=> Consumed(s)
  /\ r.state = "complete" <=> s.state = "complete"

\* The rivals, as a function.
RivalMap == [i \in Intents |-> RivalsOf(i)]

-----------------------------------------------------------------------------
(* What a step does to the abstract variables *)

\* Rows that show the same leave the abstract state alone.
LEMMA ShowSame ==
  ASSUME \A i \in Intents : SameShow(row'[i], row[i])
  PROVE  UNCHANGED <<Bytes, Settled, Closed>>
BY Zenon DEF SameShow, Bytes, Settled, Closed

\* A write of one row changes what that row shows.
LEMMA ShowWrite ==
  ASSUME TypeOK, NEW i \in Intents, NEW r, row' = [row EXCEPT ![i] = r]
  PROVE  /\ Bytes' = [Bytes EXCEPT ![i] = RawSet(r)]
         /\ SameShow(r, row[i]) => UNCHANGED <<Bytes, Settled, Closed>>
         /\ r.raw = row[i].raw => UNCHANGED Bytes
         /\ (Consumed(r) <=> Consumed(row[i])) => UNCHANGED Settled
         /\ Consumed(r) => Settled' = Settled \cup {i}
         /\ (r.state = "complete" <=> row[i].state = "complete") => UNCHANGED Closed
         /\ r.state = "complete" => Closed' = Closed \cup {i}
<1>1. \A j \in Intents : row'[j] = IF j = i THEN r ELSE row[j]
  BY Zenon DEF TypeOK
<1>2. row'[i] = r /\ \A j \in Intents \ {i} : row'[j] = row[j]
  BY <1>1, Zenon
<1>3. Bytes' = [j \in Intents |-> RawSet(row'[j])] /\ Bytes = [j \in Intents |-> RawSet(row[j])]
  BY Zenon DEF Bytes, RawSet
<1>4. Bytes' = [Bytes EXCEPT ![i] = RawSet(r)]
  <2> HIDE DEF RawSet
  <2> QED BY <1>2, <1>3, SMTT(30)
<1>5. r.raw = row[i].raw => UNCHANGED Bytes
  <2>1. r.raw = row[i].raw => \A j \in Intents : RawSet(row'[j]) = RawSet(row[j])
    BY <1>1, Zenon DEF RawSet
  <2> QED BY <2>1, <1>3, Zenon
<1>6. (Consumed(r) <=> Consumed(row[i])) => UNCHANGED Settled
  <2>1. (Consumed(r) <=> Consumed(row[i])) =>
           \A j \in Intents : Consumed(row'[j]) <=> Consumed(row[j])
    <3> HIDE DEF Consumed
    <3> QED BY <1>2, Zenon
  <2> QED BY <2>1, Zenon DEF Settled
<1>7. Consumed(r) => Settled' = Settled \cup {i}
  <2> HIDE DEF Consumed
  <2> QED BY <1>2, Zenon DEF Settled
<1>8. (r.state = "complete" <=> row[i].state = "complete") => UNCHANGED Closed
  BY <1>2, Zenon DEF Closed
<1>9. r.state = "complete" => Closed' = Closed \cup {i}
  BY <1>2, Zenon DEF Closed
<1>10. SameShow(r, row[i]) => UNCHANGED <<Bytes, Settled, Closed>>
  BY <1>5, <1>6, <1>8, Zenon DEF SameShow
<1> QED BY <1>4, <1>5, <1>6, <1>7, <1>8, <1>9, <1>10, Zenon

\* A step that shows nothing stutters.
LEMMA Stutter ==
  ASSUME UNCHANGED <<Bytes, Settled, Closed>>, UNCHANGED <<wire, out, saved>>
  PROVE  UNCHANGED Promise!pvars
BY Zenon DEF Promise!pvars

\* Rows untouched show the same.
LEMMA RowStutter ==
  ASSUME UNCHANGED row
  PROVE  UNCHANGED <<Bytes, Settled, Closed>>
BY Zenon DEF Bytes, Settled, Closed

\* What is on the network, or under way, is what the row commits to.
LEMMA GoneIsBytes ==
  ASSUME Inv, NEW i \in Intents
  PROVE  /\ Bytes[i] = RawSet(row[i])
         /\ out[i] # {} => out[i] = Bytes[i]
         /\ \A v \in wire[i] : wire[i] = {v} /\ Bytes[i] = {v}
<1>1. wire[i] \cup out[i] \subseteq {row[i].raw}
  BY Zenon DEF Inv, OneArtifact
<1>2. NoRaw \notin wire[i] /\ NoRaw \notin out[i]
  BY IntentRowAssumption, Zenon DEF Inv, TypeOK
<1>3. Bytes[i] = RawSet(row[i])
  BY Zenon DEF Bytes, RawSet
<1> QED BY <1>1, <1>2, <1>3, Zenon DEF RawSet

-----------------------------------------------------------------------------
(* Rows are written in four ways that show *)

\* A row recorded as accepted is settled.
LEMMA AcceptShows ==
  ASSUME Inv, NEW i \in Intents, row[i].state # "complete",
         SetRow(i, Accepted(row[i])), row[i].raw \in out[i],
         UNCHANGED <<wire, out, saved>>
  PROVE  Promise!Settle(i)
<1> DEFINE r == Accepted(row[i])
<1>1. TypeOK /\ row[i] \in Row
  BY Zenon DEF Inv, TypeOK
<1>2. r.raw = row[i].raw /\ r.state = "accepted"
  BY <1>1, ZenonT(30) DEF Row, Accepted
<1>3. row' = [row EXCEPT ![i] = r]
  BY Zenon DEF SetRow
<1>4. Consumed(r) /\ r.state # "complete"
  BY <1>2, Zenon DEF Consumed
<1> HIDE DEF r
<1>5. UNCHANGED <<Bytes, Closed>> /\ Settled' = Settled \cup {i}
  BY <1>1, <1>2, <1>3, <1>4, ShowWrite, Zenon
<1>6. out[i] # {} /\ out[i] = Bytes[i]
  BY GoneIsBytes, Zenon
<1> QED BY <1>5, <1>6, Zenon DEF Promise!Settle

\* A write that shows nothing.
LEMMA QuietWrite ==
  ASSUME TypeOK, NEW i \in Intents, NEW r, SetRow(i, r), SameShow(r, row[i]),
         UNCHANGED <<wire, out, saved>>
  PROVE  UNCHANGED Promise!pvars
<1>1. row' = [row EXCEPT ![i] = r]
  BY Zenon DEF SetRow
<1>2. UNCHANGED <<Bytes, Settled, Closed>>
  BY <1>1, ShowWrite, Zenon
<1> QED BY <1>2, Stutter, Zenon

\* Two states of a row that are not settled, with the same bytes.
LEMMA Unsettled ==
  ASSUME NEW r, NEW s, r.raw = s.raw,
         r.state \in {"ready", "claimed", "unknown"},
         s.state \in {"ready", "claimed", "unknown"}
  PROVE  SameShow(r, s)
BY Zenon DEF SameShow, Consumed

\* A step of SpendIntent, or none.
Shows == Promise!PNext \/ UNCHANGED Promise!pvars

\* Most steps touch neither the rows nor the network.
LEMMA Invisible ==
  ASSUME UNCHANGED <<row, wire, out, saved>>
  PROVE  Shows
BY RowStutter, Stutter, Zenon DEF Shows

\* A row written back as it was.
LEMMA WriteBack ==
  ASSUME Inv, NEW a \in Actors, actor[a].pc # "idle",
         SetRow(actor[a].i, row[actor[a].i]), UNCHANGED <<wire, out, saved>>
  PROVE  Shows
BY KeepStep, Invisible, Zenon

-----------------------------------------------------------------------------
(* Claims and rollbacks *)

\* A rival of a current intent is not committed to anything.
LEMMA RivalsFree ==
  ASSUME Inv, NEW i \in Intents, row[i].link = "current", NEW j \in RivalMap[i]
  PROVE  j \in Intents /\ Bytes[j] = {}
<1>1. /\ j \in Intents /\ j # i
      /\ \E p \in Pairs : i \in {p[1], p[2]} /\ \E q \in Pairs : q[1] = p[1] /\ j \in {q[1], q[2]}
  BY Zenon DEF RivalMap, RivalsOf
<1>2. PICK p \in Pairs, q \in Pairs :
        i \in {p[1], p[2]} /\ q[1] = p[1] /\ j \in {q[1], q[2]}
  BY <1>1, Zenon
<1>3. row[j].link # "current"
  <2> SUFFICES ASSUME row[j].link = "current" PROVE FALSE
    OBVIOUS
  <2>1. /\ row[p[2]].link = "current" =>
             row[p[1]].link # "current"
             /\ (\A u \in Pairs : u[1] = p[1] /\ row[u[2]].link = "current" => u = p)
        /\ row[q[2]].link = "current" => row[q[1]].link # "current"
    BY Zenon DEF Inv, OneCurrent
  <2> QED BY <1>1, <1>2, <2>1, SMTT(30)
<1>4. row[j].raw = NoRaw
  BY <1>1, <1>3, Zenon DEF Inv, RowsOK, RowOK
<1>5. RawSet(row[j]) = {}
  BY <1>4, Zenon DEF RawSet
<1> QED BY <1>1, <1>5, GoneIsBytes, Zenon

\* A first claim commits the intent, a later one takes over its bytes.
LEMMA ClaimShows ==
  ASSUME Inv, NEW a \in Actors, Claim(a)
  PROVE  Shows
<1> DEFINE i == actor[a].i
           v == actor[a].v
           r == Claimed(row[i], v, actor[a].resv, a)
<1>1. /\ actor[a].pc = "claiming" /\ CanClaim(row[i], v, actor[a].mode)
      /\ SetRow(i, r) /\ row' = [row EXCEPT ![i] = r]
      /\ UNCHANGED <<usage, wire, out, saved>>
  BY Zenon DEF Claim, At, SetRow
<1>2. actor[a].pc # "idle"
  BY <1>1, Zenon
<1>3. /\ TypeOK /\ i \in Intents /\ v \in Variants /\ actor[a].resv \in SUBSET Windows
      /\ row[i] \in Row /\ RowOK(row[i])
  BY <1>2, Busy, Zenon
<1>4. r.state = "claimed" /\ r.raw = v
  BY <1>3, ClaimedRow, SMTT(30)
<1> HIDE DEF r
<1>5. CASE row[i].state = "ready"
  <2>1. ~Consumed(r) /\ ~Consumed(row[i]) /\ r.state # "complete" /\ row[i].state # "complete"
    BY <1>4, <1>5, Zenon DEF Consumed
  <2>2. Bytes' = [Bytes EXCEPT ![i] = RawSet(r)] /\ UNCHANGED <<Settled, Closed>>
    BY <1>1, <1>3, <2>1, ShowWrite, Zenon
  <2>3. RawSet(r) = {v}
    BY <1>3, <1>4, IntentRowAssumption, Zenon DEF RawSet
  <2>4. Bytes[i] = {}
    <3>1. row[i].raw = NoRaw
      BY <1>3, <1>5, Zenon DEF RowOK
    <3> QED BY <1>3, <3>1, GoneIsBytes, Zenon DEF RawSet
  <2>5. \A j \in RivalMap[i] : Bytes[j] = {}
    BY <1>1, <1>3, RivalsFree, Zenon DEF CanClaim
  <2>6. Promise!Commit(i, v)
    BY <1>1, <2>2, <2>3, <2>4, <2>5, Zenon DEF Promise!Commit, RivalMap
  <2> QED BY <1>3, <2>6, Zenon DEF Shows, Promise!PNext
<1>6. CASE row[i].state # "ready"
  <2>1. Resumable(row[i]) /\ row[i].raw = v
    BY <1>1, <1>6, Zenon DEF CanClaim
  <2>2. row[i].state \in {"ready", "claimed", "unknown"}
    BY <2>1, Zenon DEF Resumable
  <2>3. SameShow(r, row[i])
    BY <1>4, <2>1, <2>2, Unsettled, Zenon
  <2> QED BY <1>1, <1>3, <2>3, QuietWrite, Zenon DEF Shows
<1> QED BY <1>5, <1>6

\* A definite rejection takes back an intent of which nothing has left; other
\* failures leave its bytes.
LEMMA FailureShows ==
  ASSUME Inv, NEW a \in Actors, RecordFailure(a)
  PROVE  Shows
<1> DEFINE i == actor[a].i
<1>1. /\ actor[a].pc = "failed"
      /\ SetRow(i, IF Holds(a) THEN AfterFailure(a, row[i]) ELSE row[i])
      /\ UNCHANGED <<wire, out, saved>>
  BY Zenon DEF RecordFailure, At
<1>2. actor[a].pc # "idle"
  BY <1>1, Zenon
<1>3. TypeOK /\ i \in Intents /\ row[i] \in Row /\ RowOK(row[i])
  BY <1>2, Busy, Zenon
<1>4. CASE Holds(a) /\ actor[a].why = "definite"
  <2> DEFINE r == Rejected(row[i])
  <2>1. First(a)
    BY <1>1, <1>4, Zenon DEF Inv, DefiniteIsFirst
  <2>2. actor[a].prior # "stalled"
    BY <2>1, Zenon DEF First
  <2>3. SetRow(i, r)
    BY <1>1, <1>4, <2>2, Zenon DEF AfterFailure
  <2>4. Attempting(a, i) /\ Unsent(a) /\ OwnsClaim(row[i], a)
    BY <1>1, <1>4, Zenon DEF Attempting, Unsent, Holds
  <2>5. wire[i] = {} /\ out[i] = {}
    BY <1>3, <2>1, <2>4, Zenon DEF Inv, Alone
  <2>6. r.state = "ready" /\ r.raw = NoRaw
    BY <1>3, RejectedRow, Zenon
  <2>7. row' = [row EXCEPT ![i] = r]
    BY <2>3, Zenon DEF SetRow
  <2> HIDE DEF r
  <2>8. ~Consumed(r) /\ ~Consumed(row[i]) /\ r.state # "complete" /\ row[i].state # "complete"
    BY <2>4, <2>6, Zenon DEF Consumed, OwnsClaim
  <2>9. Bytes' = [Bytes EXCEPT ![i] = RawSet(r)] /\ UNCHANGED <<Settled, Closed>>
    BY <1>3, <2>7, <2>8, ShowWrite, Zenon
  <2>10. RawSet(r) = {}
    BY <2>6, Zenon DEF RawSet
  <2>11. Promise!TakeBack(i)
    BY <1>1, <2>5, <2>9, <2>10, Zenon DEF Promise!TakeBack
  <2> QED BY <1>3, <2>11, Zenon DEF Shows, Promise!PNext
<1>5. CASE Holds(a) /\ actor[a].why # "definite"
  <2> DEFINE r == AfterFailure(a, row[i])
             u == ReleasedToUnknown(row[i])
             m == MarkedUnknown(row[i], actor[a].why = "answered")
  <2>1. r = u \/ r = m
    BY <1>5, Zenon DEF AfterFailure
  <2>2. u.raw = row[i].raw /\ u.state = "unknown"
    BY <1>3, ZenonT(30) DEF Row, ReleasedToUnknown
  <2>3. m.raw = row[i].raw /\ m.state = "unknown"
    <3> DEFINE d == IF actor[a].why = "answered" THEN u.count ELSE u.count - 1
    <3>1. m = [u EXCEPT !.count = d]
      BY Zenon DEF MarkedUnknown
    <3>2. /\ [u EXCEPT !.count = d].raw = u.raw
          /\ [u EXCEPT !.count = d].state = u.state
      <4> HIDE DEF d
      <4> QED BY <1>3, ZenonT(30) DEF ReleasedToUnknown, Row
    <3> QED BY <2>2, <3>1, <3>2, Zenon
  <2>4. r.raw = row[i].raw /\ r.state = "unknown"
    BY <2>1, <2>2, <2>3, Zenon
  <2>5. row[i].state = "claimed"
    BY <1>5, Zenon DEF Holds, OwnsClaim
  <2>6. SetRow(i, r)
    BY <1>1, <1>5, Zenon
  <2> HIDE DEF r
  <2>7. r.state \in {"ready", "claimed", "unknown"} /\ row[i].state \in {"ready", "claimed", "unknown"}
    BY <2>4, <2>5, Zenon
  <2>8. SameShow(r, row[i])
    BY <2>4, <2>7, Unsettled, Zenon
  <2> QED BY <1>1, <1>3, <2>6, <2>8, QuietWrite, Zenon DEF Shows
<1>6. CASE ~Holds(a)
  <2>1. SetRow(i, row[i])
    BY <1>1, <1>6, Zenon
  <2> QED BY <1>1, <1>2, <2>1, WriteBack, Zenon
<1> QED BY <1>4, <1>5, <1>6, Zenon

-----------------------------------------------------------------------------
(* The network *)

\* A submission carries the bytes the row commits to.
LEMMA SubmitShows ==
  ASSUME Inv, NEW a \in Actors, actor[a].pc = "claimed",
         \/ /\ out' = [out EXCEPT ![actor[a].i] = out[actor[a].i] \cup {actor[a].v}]
            /\ UNCHANGED wire
         \/ /\ wire' = [wire EXCEPT ![actor[a].i] = wire[actor[a].i] \cup {actor[a].v}]
            /\ UNCHANGED out,
         UNCHANGED <<row, saved>>
  PROVE  Shows
<1> DEFINE i == actor[a].i
           v == actor[a].v
<1>1. i \in Intents /\ v \in Variants /\ Attempting(a, i)
  BY Busy, Zenon DEF Attempting
<1>2. row[i].raw = v
  BY <1>1, Zenon DEF Inv, InHand
<1>3. Bytes[i] = {v}
  BY <1>1, <1>2, GoneIsBytes, IntentRowAssumption, ZenonT(40) DEF RawSet
<1>4. out[i] \cup {v} = Bytes[i] /\ wire[i] \cup {v} = Bytes[i]
  BY <1>1, <1>3, GoneIsBytes, Zenon
<1>5. UNCHANGED <<Bytes, Settled, Closed>>
  BY RowStutter, Zenon
<1>6. Promise!Submit(i)
  BY <1>4, <1>5, Zenon DEF Promise!Submit
<1> QED BY <1>1, <1>6, Zenon DEF Shows, Promise!PNext

\* A late submission arrives or is lost.
LEMMA WireShows ==
  ASSUME Inv, NEW i \in Intents, NEW v \in Variants,
         WireArrives(i, v) \/ WireDrops(i, v)
  PROVE  Shows
<1>1. /\ v \in wire[i] /\ wire' = [wire EXCEPT ![i] = wire[i] \ {v}]
      /\ out' = [out EXCEPT ![i] = out[i] \cup {v}] \/ out' = out
      /\ UNCHANGED <<row, saved>>
  BY Zenon DEF WireArrives, WireDrops
<1>2. wire[i] = {v} /\ Bytes[i] = {v}
  BY <1>1, GoneIsBytes, Zenon
<1>3. out[i] \cup {v} = Bytes[i] /\ wire[i] \ {v} = {}
  BY <1>2, GoneIsBytes, Zenon
<1>4. UNCHANGED <<Bytes, Settled, Closed>>
  BY <1>1, RowStutter, Zenon
<1>5. Promise!Arrive(i)
  BY <1>1, <1>3, <1>4, Zenon DEF Promise!Arrive
<1> QED BY <1>5, Zenon DEF Shows, Promise!PNext

-----------------------------------------------------------------------------
(* Settling *)

\* The node has the transaction and the holder records it.
LEMMA LookupShows ==
  ASSUME Inv, NEW a \in Actors, LookupHit(a) \/ StalledFound(a)
  PROVE  Shows
<1> DEFINE i == actor[a].i
<1>1. /\ actor[a].pc \in {"claimed", "looking"} /\ KnownToNode(i, actor[a].v)
      /\ \/ SetRow(i, Accepted(row[i])) /\ row[i].state \in {"claimed", "unknown"}
         \/ UNCHANGED row
      /\ UNCHANGED <<wire, out, saved>>
  BY ZenonT(30) DEF LookupHit, StalledFound, At, Holds, OwnsClaim, Stalled
<1>2. actor[a].pc # "idle"
  BY <1>1, Zenon
<1>3. i \in Intents /\ out[i] # {}
  BY <1>1, <1>2, Busy, Zenon DEF KnownToNode
<1>4. row[i].raw \in out[i]
  BY <1>3, OutIsRaw, Zenon
<1>5. CASE SetRow(i, Accepted(row[i])) /\ row[i].state \in {"claimed", "unknown"}
  <2>1. row[i].state # "complete"
    BY <1>5, Zenon
  <2>2. Promise!Settle(i)
    BY <1>1, <1>3, <1>4, <1>5, <2>1, AcceptShows, Zenon
  <2> QED BY <1>3, <2>2, Zenon DEF Shows, Promise!PNext
<1>6. CASE UNCHANGED row
  BY <1>1, <1>6, Invisible, Zenon
<1> QED BY <1>1, <1>5, <1>6, Zenon

\* The answer of the node is recorded.
LEMMA MarkShows ==
  ASSUME Inv, NEW a \in Actors, MarkAccepted(a)
  PROVE  Shows
<1> DEFINE i == actor[a].i
<1>1. /\ actor[a].pc = "sent"
      /\ SetRow(i, IF Holds(a) THEN Accepted(row[i]) ELSE row[i])
      /\ UNCHANGED <<wire, out, saved>>
  BY Zenon DEF MarkAccepted, At
<1>2. actor[a].pc # "idle"
  BY <1>1, Zenon
<1>3. i \in Intents /\ Attempting(a, i)
  BY <1>1, <1>2, Busy, Zenon DEF Attempting
<1>4. row[i].raw \in out[i]
  BY <1>1, <1>3, Zenon DEF Inv, InHand
<1>5. CASE Holds(a)
  <2>1. row[i].state # "complete"
    BY <1>5, Zenon DEF Holds, OwnsClaim
  <2>2. SetRow(i, Accepted(row[i]))
    BY <1>1, <1>5, Zenon
  <2>3. Promise!Settle(i)
    BY <1>1, <1>3, <1>4, <2>1, <2>2, AcceptShows, Zenon
  <2> QED BY <1>3, <2>3, Zenon DEF Shows, Promise!PNext
<1>6. CASE ~Holds(a)
  <2>1. SetRow(i, row[i])
    BY <1>1, <1>6, Zenon
  <2> QED BY <1>1, <1>2, <2>1, WriteBack, Zenon
<1> QED BY <1>5, <1>6

\* The transaction is saved in the wallet's history.
LEMMA PersistShows ==
  ASSUME Inv, NEW a \in Actors, Persist(a)
  PROVE  Shows
<1> DEFINE i == actor[a].i
<1>1. /\ actor[a].pc = "persisting" /\ saved' = saved \cup {i}
      /\ UNCHANGED <<row, wire, out>>
  BY Zenon DEF Persist, At
<1>2. actor[a].pc # "idle"
  BY <1>1, Zenon
<1>3. i \in Intents /\ out[i] # {}
  BY <1>1, <1>2, Busy, Zenon DEF Inv, Saving
<1>4. UNCHANGED <<Bytes, Settled, Closed>>
  BY <1>1, RowStutter, Zenon
<1>5. Promise!Keep(i)
  BY <1>1, <1>3, <1>4, Zenon DEF Promise!Keep
<1> QED BY <1>3, <1>5, Zenon DEF Shows, Promise!PNext

\* An accepted intent whose transaction is saved is closed.
LEMMA CompleteShows ==
  ASSUME Inv, NEW a \in Actors, Complete(a)
  PROVE  Shows
<1> DEFINE i == actor[a].i
           r == Completed(row[i])
<1>1. /\ actor[a].pc = "completing"
      /\ SetRow(i, IF CanComplete(row[i], actor[a].v) THEN r ELSE row[i])
      /\ UNCHANGED <<wire, out, saved>>
  BY Zenon DEF Complete, At
<1>2. actor[a].pc # "idle"
  BY <1>1, Zenon
<1>3. TypeOK /\ i \in Intents /\ row[i] \in Row /\ i \in saved
  BY <1>1, <1>2, Busy, Zenon DEF Inv, Saving
<1>4. CASE CanComplete(row[i], actor[a].v)
  <2>1. row[i].state = "accepted"
    BY <1>4, Zenon DEF CanComplete
  <2>2. r.raw = row[i].raw /\ r.state = "complete"
    BY <1>3, ZenonT(30) DEF Row, Completed
  <2>3. row' = [row EXCEPT ![i] = r]
    BY <1>1, <1>4, Zenon DEF SetRow
  <2>4. i \in Settled
    BY <1>3, <2>1, Zenon DEF Settled, Consumed
  <2> HIDE DEF r
  <2>5. Consumed(r) /\ Consumed(row[i])
    BY <2>1, <2>2, Zenon DEF Consumed
  <2>6. UNCHANGED <<Bytes, Settled>> /\ Closed' = Closed \cup {i}
    BY <1>3, <2>2, <2>3, <2>5, ShowWrite, Zenon
  <2>7. Promise!Close(i)
    BY <1>1, <1>3, <2>4, <2>6, Zenon DEF Promise!Close
  <2> QED BY <1>3, <2>7, Zenon DEF Shows, Promise!PNext
<1>5. CASE ~CanComplete(row[i], actor[a].v)
  <2>1. SetRow(i, row[i])
    BY <1>1, <1>5, Zenon
  <2> QED BY <1>1, <1>2, <2>1, WriteBack, Zenon
<1> QED BY <1>4, <1>5

\* A withheld child waits as an unknown outcome.
LEMMA WithholdShows ==
  ASSUME Inv, NEW a \in Actors, Withhold(a)
  PROVE  Shows
<1> DEFINE i == actor[a].i
           r == Withheld(row[i])
<1>1. /\ actor[a].pc = "claimed"
      /\ SetRow(i, IF Holds(a) THEN r ELSE row[i])
      /\ UNCHANGED <<wire, out, saved>>
  BY Zenon DEF Withhold, At
<1>2. actor[a].pc # "idle"
  BY <1>1, Zenon
<1>3. TypeOK /\ i \in Intents /\ row[i] \in Row
  BY <1>2, Busy, Zenon
<1>4. CASE Holds(a)
  <2>1. r.raw = row[i].raw /\ r.state = "unknown"
    BY <1>3, ZenonT(30) DEF Row, Withheld, ReleasedToUnknown
  <2>2. row[i].state = "claimed"
    BY <1>4, Zenon DEF Holds, OwnsClaim
  <2> HIDE DEF r
  <2>3. SameShow(r, row[i])
    BY <2>1, <2>2, Zenon DEF SameShow, Consumed
  <2>4. SetRow(i, r)
    BY <1>1, <1>4, Zenon
  <2> QED BY <1>1, <1>3, <2>3, <2>4, QuietWrite, Zenon DEF Shows
<1>5. CASE ~Holds(a)
  <2>1. SetRow(i, row[i])
    BY <1>1, <1>5, Zenon
  <2> QED BY <1>1, <1>2, <2>1, WriteBack, Zenon
<1> QED BY <1>4, <1>5

-----------------------------------------------------------------------------
(* All steps *)

\* A lease that runs out shows nothing.
LEMMA ExpiryShows ==
  ASSUME Inv, NEW i \in Intents, LeaseExpires(i)
  PROVE  Shows
<1> DEFINE r == [row[i] EXCEPT !.expired = TRUE]
<1>1. SetRow(i, r) /\ UNCHANGED <<wire, out, saved>> /\ TypeOK /\ row[i] \in Row
  BY Zenon DEF LeaseExpires, Inv, TypeOK
<1>2. r.raw = row[i].raw /\ r.state = row[i].state
  BY <1>1, ZenonT(30) DEF Row
<1> HIDE DEF r
<1>3. SameShow(r, row[i])
  BY <1>2, Zenon DEF SameShow, Consumed
<1> QED BY <1>1, <1>3, QuietWrite, Zenon DEF Shows

\* Payjoin pairs change places only while neither is committed.
LEMMA PairShows ==
  ASSUME Inv, NEW p \in Pairs, Propose(p[1], p[2]) \/ Restore(p[1], p[2])
  PROVE  Shows
<1> DEFINE o == p[1]
           q == p[2]
<1>1. /\ o \in Intents /\ q \in Intents /\ o # q
  BY BroadcastAssumption, Zenon
<1>2. TypeOK /\ row[o] \in Row /\ row[q] \in Row /\ RowOK(row[q])
  BY <1>1, Zenon DEF Inv, TypeOK, RowsOK
<1>3. CASE Propose(o, q)
  <2> DEFINE s == [row[o] EXCEPT !.link = "superseded"]
             n == InitRow("current")
  <2>1. /\ row' = [row EXCEPT ![o].link = "superseded", ![q] = n]
        /\ row[q].link = "absent" /\ UNCHANGED <<wire, out, saved>>
    BY <1>3, Zenon DEF Propose, CanPropose
  <2>2. s.raw = row[o].raw /\ s.state = row[o].state
    BY <1>2, ZenonT(30) DEF Row
  <2>3. n.raw = NoRaw /\ n.state = "ready"
    BY InitRowType, Zenon
  <2>4. row[q].raw = NoRaw /\ row[q].state = "ready"
    BY <1>2, <2>1, Zenon DEF RowOK
  <2> HIDE DEF n
  <2>5. row'[o] = s /\ row'[q] = n /\ \A j \in Intents \ {o, q} : row'[j] = row[j]
    BY <1>1, <1>2, <2>1, Zenon DEF TypeOK
  <2> HIDE DEF s
  <2>6. \A j \in Intents : row'[j].raw = row[j].raw /\ row'[j].state = row[j].state
    BY <2>2, <2>3, <2>4, <2>5, Zenon
  <2>7. \A j \in Intents : SameShow(row'[j], row[j])
    BY <2>6, Zenon DEF SameShow, Consumed
  <2> QED BY <2>1, <2>7, ShowSame, Stutter, Zenon DEF Shows
<1>4. CASE Restore(o, q)
  <2> DEFINE s == [row[o] EXCEPT !.link = "current"]
             n == [row[q] EXCEPT !.link = "superseded"]
  <2>1. /\ row' = [row EXCEPT ![o].link = "current", ![q].link = "superseded"]
        /\ UNCHANGED <<wire, out, saved>>
    BY <1>4, Zenon DEF Restore
  <2>2. s.raw = row[o].raw /\ s.state = row[o].state /\ n.raw = row[q].raw /\ n.state = row[q].state
    BY <1>2, ZenonT(30) DEF Row
  <2>5. row'[o] = s /\ row'[q] = n /\ \A j \in Intents \ {o, q} : row'[j] = row[j]
    BY <1>1, <1>2, <2>1, Zenon DEF TypeOK
  <2> HIDE DEF s, n
  <2>6. \A j \in Intents : row'[j].raw = row[j].raw /\ row'[j].state = row[j].state
    BY <2>2, <2>5, Zenon
  <2>7. \A j \in Intents : SameShow(row'[j], row[j])
    BY <2>6, Zenon DEF SameShow, Consumed
  <2> QED BY <2>1, <2>7, ShowSame, Stutter, Zenon DEF Shows
<1> QED BY <1>3, <1>4

\* What only requests do stays inside the process.
LEMMA RequestShows ==
  ASSUME Inv, NEW a \in Actors, RequestSteps(a)
  PROVE  Shows
<1>1. UNCHANGED <<row, wire, out, saved>>
  BY ZenonT(30) DEF RequestSteps, Begin, Reserve, ReserveLost, Release, Reserved,
                    Released, CheckFails, ChildKnown
<1> QED BY <1>1, Invisible, Zenon

\* What only reconcilers do.
LEMMA ReconcilerShows ==
  ASSUME Inv, NEW a \in Actors, ReconcilerSteps(a)
  PROVE  Shows
<1>1. CASE StalledMissed(a) \/ \E i \in Intents : List(a, i) \/ ListStalled(a, i)
  <2>1. UNCHANGED <<row, wire, out, saved>>
    BY <1>1, Zenon DEF List, ListStalled, StalledMissed
  <2> QED BY <2>1, Invisible, Zenon
<1> QED BY <1>1, LookupShows, WithholdShows, Zenon DEF ReconcilerSteps

\* What both do with an attempt.
LEMMA AttemptShows ==
  ASSUME Inv, NEW a \in Actors, AttemptSteps(a)
  PROVE  Shows
<1>1. CASE ClaimRefused(a) \/ AlreadyAccepted(a) \/ NodeRefuses(a)
  <2>1. UNCHANGED <<row, wire, out, saved>>
    BY <1>1, Zenon DEF ClaimRefused, AlreadyAccepted, NodeRefuses
  <2> QED BY <2>1, Invisible, Zenon
<1>2. CASE NodeAccepts(a)
  BY <1>2, SubmitShows, Zenon DEF NodeAccepts, At
<1> QED BY <1>1, <1>2, ClaimShows, FailureShows, MarkShows, PersistShows,
           CompleteShows, Zenon DEF AttemptSteps

\* Faults.
LEMMA FaultShows ==
  ASSUME Inv, NEW a \in Actors, Faults(a)
  PROVE  Shows
<1>1. CASE \/ ReserveFails(a) \/ MarkAcceptedFails(a) \/ Abandon(a)
           \/ \E w \in Windows : ReleaseFails(a, w)
  <2>1. UNCHANGED <<row, wire, out, saved>>
    BY <1>1, Zenon DEF ReserveFails, ReleaseFails, MarkAcceptedFails, Abandon
  <2> QED BY <2>1, Invisible, Zenon
<1>2. CASE ReplyLost(a) \/ SubmissionDelayed(a)
  BY <1>2, SubmitShows, Zenon DEF ReplyLost, SubmissionDelayed, At
<1> QED BY <1>1, <1>2, Zenon DEF Faults

\* Every step is one of SpendIntent or stutters.
LEMMA NextShows == Inv /\ [Next]_vars => [Promise!PNext]_(Promise!pvars)
<1> SUFFICES ASSUME Inv, [Next]_vars PROVE Shows
  BY Zenon DEF Shows
<1>1. CASE Next
  <2>1. CASE Environment
    BY <2>1, ExpiryShows, WireShows, PairShows, Zenon DEF Environment
  <2> QED BY <1>1, <2>1, RequestShows, ReconcilerShows, AttemptShows, FaultShows,
             Zenon DEF Next
<1>2. CASE UNCHANGED vars
  BY <1>2, Invisible, Zenon DEF vars
<1> QED BY <1>1, <1>2

\* Nothing is committed, submitted or settled at the start.
LEMMA InitShows == Init => Promise!PInit
<1> SUFFICES ASSUME Init PROVE Promise!PInit
  OBVIOUS
<1>1. \A i \in Intents : row[i].raw = NoRaw /\ row[i].state = "ready"
  BY InitInv, InitRowType, Zenon DEF Init
<1>2. Bytes = [i \in Intents |-> {}]
  BY <1>1, Zenon DEF Bytes
<1>3. Settled = {} /\ Closed = {}
  BY <1>1, Zenon DEF Settled, Closed, Consumed
<1> QED BY <1>2, <1>3, Zenon DEF Init, Promise!PInit

(* Broadcast implements SpendIntent for any number of requests, reconcilers,
   intents and payjoin pairs: claims, takeovers, rollbacks, late submissions,
   stalls and crashes never let an intent's bytes change once they may be out,
   nor commit two intents to the same coins. *)
THEOREM SpendPromiseKept == Spec => KeepsSpendPromise
<1>1. Inv /\ [Next]_vars => [Promise!PNext]_(Promise!pvars)
  BY NextShows
<1> QED BY InitShows, Invariance, <1>1, PTL DEF Spec, KeepsSpendPromise, Promise!PSpec

-----------------------------------------------------------------------------
(* The limits.  A unit of a usage window belongs to an attempt: the row    *)
(* holds it from the claim on (RowHeld), before that a fresh request does  *)
(* (Purse).  The books balance as long as each unit in either place is     *)
(* still counted (Books).  A row's units are dropped when a first attempt  *)
(* is rejected, and its request then gives them back; an actor about to    *)
(* resume an earlier attempt brings no units of its own, so that attempt   *)
(* must be past being rejected (Begun).  This is what a lease that runs    *)
(* out under its attempt destroys.                                         *)

\* The windows a broadcast of i reserves in.
Needs(i) == {w \in Windows : Cost[i][w] > 0}

\* The attempt holding a row's claim is over when its lease is.
Timely ==
  \A a \in Actors : \A i \in Intents :
    OwnsClaim(row[i], a) /\ row[i].expired = TRUE => ~Attempting(a, i)

\* Broadcasting i has begun and nobody can return it to "ready".
Begun(i) ==
  /\ row[i].state # "ready"
  /\ \A a \in Actors : Attempting(a, i) /\ OwnsClaim(row[i], a) => ~First(a)

\* What an actor's locals say about its reservations.
LocalsOK(n) ==
  /\ n.pc \in {"reserving", "releasing"} =>
       n.mode = "fresh" /\ n.resv \subseteq Needs(n.i)
  /\ n.pc \in {"claiming", "claimed", "failed", "sent"} => n.resv = Needs(n.i)

\* The reservations an actor answers for itself.
Purse(n) ==
  IF n.pc \in {"reserving", "claiming", "releasing"} /\ n.mode = "fresh"
    THEN n.resv ELSE {}

RowHeld == \A i \in Intents : row[i].resv = IF row[i].state = "ready" THEN {} ELSE Needs(i)

ActorHeld == \A a \in Actors : LocalsOK(actor[a])

Resuming ==
  \A a \in Actors :
    actor[a].pc = "claiming" /\ actor[a].mode # "fresh" => Begun(actor[a].i)

Holders == Actors \cup {Nobody}

\* Who answers for units of window w, and for which intent: rows as Nobody.
Charges(w) ==
  {c \in Holders \X Intents :
     IF c[1] = Nobody
       THEN w \in row[c[2]].resv
       ELSE w \in Purse(actor[c[1]]) /\ actor[c[1]].i = c[2]}

Parts(S, w) == UNION {{c} \X (1..Cost[c[2]][w]) : c \in S}

Total(S, w) == Cardinality(Parts(S, w))

Books ==
  \A w \in Windows : Total(Charges(w), w) <= usage[w] /\ usage[w] <= Limit[w]

Ledger == Timely /\ RowHeld /\ ActorHeld /\ Resuming /\ Books

-----------------------------------------------------------------------------
(* Counting units *)

\* What one holder answers for.
LEMMA PartType ==
  ASSUME NEW c \in Holders \X Intents, NEW w \in Windows
  PROVE  /\ Cost[c[2]][w] \in Nat
         /\ IsFiniteSet({c} \X (1..Cost[c[2]][w]))
         /\ Cardinality({c} \X (1..Cost[c[2]][w])) = Cost[c[2]][w]
<1>1. c[2] \in Intents
  BY Zenon
<1>2. Cost[c[2]][w] \in Nat
  BY <1>1, BroadcastAssumption, Zenon
<1>3. PICK n \in Nat : n = Cost[c[2]][w]
  BY <1>2, Zenon
<1>4. IsFiniteSet(1..n) /\ Cardinality(1..n) = n
  <2>1. 1 \in Int /\ n \in Int
    BY SMTT(30)
  <2>2. IsFiniteSet(1..n) /\ Cardinality(1..n) = IF 1 > n THEN 0 ELSE n - 1 + 1
    BY <2>1, FS_Interval, Zenon
  <2> QED BY <2>2, SMTT(30)
<1>5. IsFiniteSet({c}) /\ Cardinality({c}) = 1
  BY FS_Singleton, Zenon
<1>6. IsFiniteSet({c} \X (1..n)) /\ Cardinality({c} \X (1..n)) = 1 * n
  <2>1. /\ IsFiniteSet({c} \X (1..n))
        /\ Cardinality({c} \X (1..n)) = Cardinality({c}) * Cardinality(1..n)
    BY <1>4, <1>5, FS_Product, Zenon
  <2> QED BY <1>4, <1>5, <2>1, Zenon
<1>7. 1 * n = n
  BY SMTT(30)
<1> QED BY <1>3, <1>6, <1>7, Zenon

\* There are finitely many units.
LEMMA PartsFinite ==
  ASSUME NEW S \in SUBSET (Holders \X Intents), NEW w \in Windows
  PROVE  IsFiniteSet(Parts(S, w)) /\ Total(S, w) \in Nat
<1> DEFINE P(c) == {c} \X (1..Cost[c[2]][w])
           T == {P(c) : c \in S}
           f == [c \in S |-> P(c)]
<1>1. IsFiniteSet(S)
  <2>1. IsFiniteSet(Holders)
    BY BroadcastAssumption, FS_AddElement, Zenon DEF Holders
  <2>2. IsFiniteSet(Holders \X Intents)
    BY <2>1, BroadcastAssumption, FS_Product, Zenon
  <2> QED BY <2>2, FS_Subset, Zenon
<1>2. \A X \in T : IsFiniteSet(X)
  BY PartType, Zenon
<1>3. IsFiniteSet(T)
  <2> HIDE DEF P
  <2>1. f \in Surjection(S, T)
    BY Zenon DEF Surjection
  <2> HIDE DEF f, T
  <2> QED BY <1>1, <2>1, FS_Surjection, Zenon
<1>4. IsFiniteSet(UNION T)
  <2> HIDE DEF T
  <2> QED BY <1>2, <1>3, FS_UNION, Zenon
<1>5. IsFiniteSet(Parts(S, w))
  BY <1>4, Zenon DEF Parts
<1> QED BY <1>5, FS_CardinalityType, Zenon DEF Total

\* Fewer holders answer for no more.
LEMMA TotalMono ==
  ASSUME NEW S \in SUBSET (Holders \X Intents), NEW R \in SUBSET S, NEW w \in Windows
  PROVE  Total(R, w) <= Total(S, w)
<1>1. Parts(R, w) \in SUBSET Parts(S, w)
  BY Zenon DEF Parts
<1> QED BY <1>1, PartsFinite, FS_Subset, Zenon DEF Total

\* One more answers for what its intent costs.
LEMMA TotalAdd ==
  ASSUME NEW S \in SUBSET (Holders \X Intents), NEW c \in Holders \X Intents,
         c \notin S, NEW w \in Windows
  PROVE  Total(S \cup {c}, w) = Total(S, w) + Cost[c[2]][w]
<1> DEFINE P == {c} \X (1..Cost[c[2]][w])
           Q == Parts(S, w)
<1>1. Parts(S \cup {c}, w) = Q \cup P
  BY Zenon DEF Parts
<1>2. Q \cap P = {}
  <2> SUFFICES ASSUME NEW u \in Q, u \in P PROVE FALSE
    BY Zenon
  <2>1. PICK d \in S : u \in {d} \X (1..Cost[d[2]][w])
    BY Zenon DEF Parts
  <2>2. u[1] = d /\ u[1] = c
    BY <2>1, Zenon
  <2> QED BY <2>2, Zenon
<1>3. /\ IsFiniteSet(Q) /\ Cardinality(Q) \in Nat
      /\ IsFiniteSet(P) /\ Cardinality(P) = Cost[c[2]][w] /\ Cost[c[2]][w] \in Nat
  <2>1. IsFiniteSet(Q) /\ Cardinality(Q) \in Nat
    BY PartsFinite, Zenon DEF Total
  <2> QED BY <2>1, PartType, Zenon
<1> HIDE DEF P, Q
<1>4. Cardinality(Q \cup P) = Cardinality(Q) + Cardinality(P) - Cardinality(Q \cap P)
  BY <1>3, FS_Union, Zenon
<1>5. Cardinality(Q \cap P) = 0
  BY <1>2, FS_EmptySet, Zenon
<1>6. Cardinality(Q \cup P) = Cardinality(Q) + Cost[c[2]][w]
  BY <1>3, <1>4, <1>5, SMTT(30)
<1> QED BY <1>1, <1>6, Zenon DEF Total, Q

\* A holder joins, or was there.
LEMMA TotalGrows ==
  ASSUME NEW S \in SUBSET (Holders \X Intents), NEW c \in Holders \X Intents,
         NEW R \in SUBSET (S \cup {c}), NEW w \in Windows
  PROVE  Total(R, w) <= Total(S, w) + Cost[c[2]][w]
<1>1. S \cup {c} \in SUBSET (Holders \X Intents) /\ R \in SUBSET (Holders \X Intents)
  BY Zenon
<1>2. Total(R, w) <= Total(S \cup {c}, w)
  BY <1>1, TotalMono, Zenon
<1>3. /\ Total(R, w) \in Nat /\ Total(S, w) \in Nat /\ Total(S \cup {c}, w) \in Nat
      /\ Cost[c[2]][w] \in Nat
  BY <1>1, PartsFinite, PartType, Zenon
<1>4. CASE c \in S
  <2>1. S \cup {c} = S
    BY <1>4, Zenon
  <2>2. Total(S \cup {c}, w) = Total(S, w)
    BY <2>1, Zenon
  <2> QED BY <1>2, <1>3, <2>2, SMTT(30)
<1>5. CASE c \notin S
  BY <1>2, <1>3, <1>5, TotalAdd, Zenon
<1> QED BY <1>4, <1>5

\* A holder leaves.
LEMMA TotalDrops ==
  ASSUME NEW S \in SUBSET (Holders \X Intents), NEW c \in S,
         NEW R \in SUBSET (S \ {c}), NEW w \in Windows
  PROVE  Total(R, w) + Cost[c[2]][w] <= Total(S, w)
<1>1. /\ S \ {c} \in SUBSET (Holders \X Intents) /\ R \in SUBSET (Holders \X Intents)
      /\ c \notin S \ {c} /\ (S \ {c}) \cup {c} = S /\ c \in Holders \X Intents
  BY Zenon
<1>2. Total(S, w) = Total(S \ {c}, w) + Cost[c[2]][w]
  <2>1. PICK Q : Q = S \ {c}
    BY Zenon
  <2>2. Total(Q \cup {c}, w) = Total(Q, w) + Cost[c[2]][w]
    BY <1>1, <2>1, TotalAdd, ZenonT(40)
  <2> QED BY <1>1, <2>1, <2>2, Zenon
<1>3. Total(R, w) <= Total(S \ {c}, w)
  BY <1>1, TotalMono, Zenon
<1>4. Total(R, w) \in Nat /\ Total(S \ {c}, w) \in Nat /\ Cost[c[2]][w] \in Nat
  BY <1>1, PartsFinite, PartType, Zenon
<1> QED BY <1>2, <1>3, <1>4, SMTT(30)

\* A holder hands its units for an intent to another.
LEMMA TotalHands ==
  ASSUME NEW S \in SUBSET (Holders \X Intents), NEW c \in S,
         NEW d \in Holders \X Intents, d[2] = c[2],
         NEW R \in SUBSET ((S \ {c}) \cup {d}), NEW w \in Windows
  PROVE  Total(R, w) <= Total(S, w)
<1>1. /\ S \ {c} \in SUBSET (Holders \X Intents) /\ S \ {c} \in SUBSET (S \ {c})
      /\ R \in SUBSET (Holders \X Intents) /\ c \in Holders \X Intents
  BY Zenon
<1>2. Total(R, w) <= Total(S \ {c}, w) + Cost[d[2]][w]
  BY <1>1, TotalGrows, Zenon
<1>3. Total(S \ {c}, w) + Cost[c[2]][w] <= Total(S, w)
  BY <1>1, TotalDrops, Zenon
<1>4. /\ Total(R, w) \in Nat /\ Total(S \ {c}, w) \in Nat /\ Total(S, w) \in Nat
      /\ Cost[c[2]][w] \in Nat
  BY <1>1, PartsFinite, PartType, Zenon
<1> QED BY <1>2, <1>3, <1>4, SMTT(30)

\* What is on the network is what rows answer for, or part of it.
LEMMA SpentIsCharged ==
  ASSUME Inv, RowHeld, NEW w \in Windows
  PROVE  /\ Spent(w) <= Total(Charges(w), w)
         /\ Spent(w) \in Nat /\ Total(Charges(w), w) \in Nat
<1> DEFINE G == {i \in Intents : Gone(i)}
           U == Units(G, w)
           V == Parts(Charges(w), w)
           f == [u \in U |-> <<<<Nobody, u[1]>>, u[2]>>]
<1>1. Charges(w) \in SUBSET (Holders \X Intents)
  BY Zenon DEF Charges
<1>2. IsFiniteSet(V) /\ Cardinality(V) \in Nat
  BY <1>1, PartsFinite, Zenon DEF Total
<1>3. ASSUME NEW u \in U
      PROVE  f[u] \in V /\ u = <<u[1], u[2]>>
  <2>1. PICK i \in G : u \in {i} \X (1..Cost[i][w])
    BY <1>3, Zenon DEF Units
  <2>2. PICK n \in 1..Cost[i][w] : u = <<i, n>>
    <3> HIDE DEF G
    <3> QED BY <2>1, SMTT(30)
  <2>3. i \in Intents /\ Gone(i) /\ Cost[i][w] \in Nat
    BY <2>1, BroadcastAssumption, Zenon
  <2>4. Cost[i][w] > 0
    BY <2>2, <2>3, SMTT(30)
  <2>5. row[i].state # "ready"
    BY <2>3, ReadyIsUntouched, Zenon DEF Gone
  <2>6. w \in row[i].resv
    BY <2>3, <2>4, <2>5, Zenon DEF RowHeld, Needs
  <2>7. <<Nobody, i>> \in Charges(w)
    <3>1. <<Nobody, i>> \in Holders \X Intents
      BY <2>3, Zenon DEF Holders
    <3> QED BY <2>6, <3>1, Zenon DEF Charges
  <2>8. <<<<Nobody, i>>, n>> \in V
    <3>1. <<Nobody, i>>[2] = i
      BY Zenon
    <3>2. <<<<Nobody, i>>, n>> \in {<<Nobody, i>>} \X (1..Cost[<<Nobody, i>>[2]][w])
      BY <2>2, <3>1, Zenon
    <3> QED BY <2>7, <3>2, Zenon DEF Parts
  <2>9. u[1] = i /\ u[2] = n
    BY <2>2, Zenon
  <2> HIDE DEF U, V
  <2> QED BY <1>3, <2>2, <2>8, <2>9, Zenon
<1>4. f \in Injection(U, V)
  <2> HIDE DEF U, V
  <2>1. f \in [U -> V]
    BY <1>3, Zenon
  <2>2. ASSUME NEW u \in U, NEW x \in U, f[u] = f[x]
        PROVE  u = x
    <3>1. u[1] = x[1] /\ u[2] = x[2]
      BY <2>2, Zenon
    <3> QED BY <1>3, <3>1, Zenon
  <2> HIDE DEF f
  <2> QED BY <2>1, <2>2, Zenon DEF Injection, IsInjective
<1>5. IsFiniteSet(U) /\ Cardinality(U) <= Cardinality(V)
  <2> HIDE DEF f, U, V
  <2> QED BY <1>2, <1>4, FS_Injection, Zenon
<1>6. Cardinality(U) \in Nat
  BY <1>5, FS_CardinalityType, Zenon
<1> QED BY <1>2, <1>5, <1>6, Zenon DEF Spent, Total

-----------------------------------------------------------------------------
(* Steps that open no account *)

\* A row that is not claimed anew: it keeps its reservations, and if it stays
\* claimed its holder is done.
CalmRow(i, r, s) ==
  /\ s.resv = r.resv
  /\ s.state = "ready" <=> r.state = "ready"
  /\ s.state = "claimed" =>
       /\ r.state = "claimed" /\ s.owner = r.owner
       /\ \A a \in Actors : s.owner = a => ~Attempting(a, i)

\* An actor that does not begin an attempt.
CalmActor(n, m) ==
  /\ LocalsOK(m)
  /\ m.pc \in {"claimed", "failed", "sent"} =>
       n.pc \in {"claimed", "failed", "sent"} /\ m.i = n.i /\ m.prior = n.prior
  /\ m.pc = "claiming" /\ m.mode # "fresh" => Begun(m.i)

CalmRows == \A i \in Intents : row'[i] = row[i] \/ CalmRow(i, row[i], row'[i])

CalmActors == \A a \in Actors : actor'[a] = actor[a] \/ CalmActor(actor[a], actor'[a])

\* No claim and no attempt is new.
LEMMA CalmAttempts ==
  ASSUME CalmRows, CalmActors, NEW a \in Actors, NEW i \in Intents
  PROVE  /\ Attempting(a, i)' => Attempting(a, i) /\ actor'[a].prior = actor[a].prior
         /\ OwnsClaim(row'[i], a) => OwnsClaim(row[i], a)
         /\ row'[i].state # "ready" <=> row[i].state # "ready"
<1>1. Attempting(a, i)' => Attempting(a, i) /\ actor'[a].prior = actor[a].prior
  <2>1. CASE actor'[a] = actor[a]
    BY <2>1, Zenon DEF Attempting
  <2>2. CASE CalmActor(actor[a], actor'[a])
    BY <2>2, Zenon DEF Attempting, CalmActor
  <2> QED BY <2>1, <2>2, Zenon DEF CalmActors
<1>2. /\ OwnsClaim(row'[i], a) => OwnsClaim(row[i], a)
      /\ row'[i].state # "ready" <=> row[i].state # "ready"
  <2>1. CASE row'[i] = row[i]
    BY <2>1, Zenon
  <2>2. CASE CalmRow(i, row[i], row'[i])
    BY <2>2, Zenon DEF OwnsClaim, CalmRow
  <2> QED BY <2>1, <2>2, Zenon DEF CalmRows
<1> QED BY <1>1, <1>2, Zenon

\* An intent that has begun stays so.
LEMMA CalmBegun ==
  ASSUME CalmRows, CalmActors, NEW i \in Intents, Begun(i)
  PROVE  Begun(i)'
<1>1. row'[i].state # "ready"
  <2>1. CASE row'[i] = row[i]
    BY <2>1, Zenon DEF Begun
  <2>2. CASE CalmRow(i, row[i], row'[i])
    BY <2>2, Zenon DEF Begun, CalmRow
  <2> QED BY <2>1, <2>2, Zenon DEF CalmRows
<1>2. ASSUME NEW a \in Actors, Attempting(a, i)', OwnsClaim(row'[i], a)
      PROVE  ~First(a)'
  <2>1. /\ Attempting(a, i) /\ OwnsClaim(row[i], a)
        /\ actor'[a].prior = actor[a].prior
    BY <1>2, CalmAttempts, Zenon
  <2> QED BY <2>1, Zenon DEF Begun, First
<1> QED BY <1>1, <1>2, Zenon DEF Begun

\* All but the books.
LEMMA CalmAccounts ==
  ASSUME Inv, TypeOK', Timely, RowHeld, ActorHeld, Resuming, CalmRows, CalmActors
  PROVE  Timely' /\ RowHeld' /\ ActorHeld' /\ Resuming'
<1>1. Timely'
  <2> SUFFICES ASSUME NEW a \in Actors, NEW i \in Intents, OwnsClaim(row'[i], a),
                      row'[i].expired = TRUE, Attempting(a, i)'
               PROVE  FALSE
    BY Zenon DEF Timely
  <2>1. Attempting(a, i)
    BY CalmAttempts, Zenon
  <2>2. CASE row'[i] = row[i]
    BY <2>1, <2>2, Zenon DEF Timely
  <2>3. CASE CalmRow(i, row[i], row'[i])
    BY <2>1, <2>3, Zenon DEF CalmRow, OwnsClaim
  <2> QED BY <2>2, <2>3, Zenon DEF CalmRows
<1>2. RowHeld'
  <2> SUFFICES ASSUME NEW i \in Intents
               PROVE  row'[i].resv = IF row'[i].state = "ready" THEN {} ELSE Needs(i)
    BY Zenon DEF RowHeld, Needs
  <2>1. row[i].resv = IF row[i].state = "ready" THEN {} ELSE Needs(i)
    BY Zenon DEF RowHeld
  <2>2. CASE row'[i] = row[i]
    BY <2>1, <2>2, Zenon
  <2>3. CASE CalmRow(i, row[i], row'[i])
    BY <2>1, <2>3, Zenon DEF CalmRow
  <2> QED BY <2>2, <2>3, Zenon DEF CalmRows
<1>3. ActorHeld'
  <2> SUFFICES ASSUME NEW a \in Actors PROVE LocalsOK(actor'[a])
    BY Zenon DEF ActorHeld, LocalsOK, Needs
  <2>1. CASE actor'[a] = actor[a]
    BY <2>1, Zenon DEF ActorHeld
  <2>2. CASE CalmActor(actor[a], actor'[a])
    BY <2>2, Zenon DEF CalmActor
  <2> QED BY <2>1, <2>2, Zenon DEF CalmActors
<1>4. Resuming'
  <2> SUFFICES ASSUME NEW a \in Actors, actor'[a].pc = "claiming",
                      actor'[a].mode # "fresh"
               PROVE  Begun(actor[a].i)'
    BY Zenon DEF Resuming
  <2>1. actor'[a].pc # "idle"
    BY Zenon
  <2>2. PICK j \in Intents : j = actor'[a].i
    <3>1. actor'[a] \in Working
      <4>1. actor'[a] \in Working \cup {Idle}
        BY Zenon DEF TypeOK
      <4>2. actor'[a] # Idle
        BY <2>1, SMTT(30) DEF Idle
      <4> QED BY <4>1, <4>2, Zenon
    <3> QED BY <3>1, Zenon DEF Working
  <2>3. Begun(j)
    <3>1. CASE actor'[a] = actor[a]
      BY <2>2, <3>1, Zenon DEF Resuming
    <3>2. CASE CalmActor(actor[a], actor'[a])
      BY <2>2, <3>2, Zenon DEF CalmActor
    <3> QED BY <3>1, <3>2, Zenon DEF CalmActors
  <2>4. Begun(j)'
    BY <2>3, CalmBegun, Zenon
  <2> QED BY <2>2, <2>4, Zenon DEF Begun, Attempting, OwnsClaim
<1> QED BY <1>1, <1>2, <1>3, <1>4, Zenon

\* An actor that takes nothing on itself.
Lightened(n, m) == \A w \in Purse(m) : w \in Purse(n) /\ m.i = n.i

\* Then nobody answers for anything new.
LEMMA CalmCharges ==
  ASSUME CalmRows,
         \A a \in Actors : actor'[a] = actor[a] \/ Lightened(actor[a], actor'[a]),
         NEW w \in Windows
  PROVE  Charges(w)' \subseteq Charges(w)
<1> SUFFICES ASSUME NEW c \in Charges(w)' PROVE c \in Charges(w)
  BY Zenon
<1>1. /\ c \in Holders \X Intents /\ c[1] \in Actors \cup {Nobody} /\ c[2] \in Intents
      /\ IF c[1] = Nobody
           THEN w \in row'[c[2]].resv
           ELSE w \in Purse(actor'[c[1]]) /\ actor'[c[1]].i = c[2]
  BY Zenon DEF Charges, Holders, Purse
<1>2. CASE c[1] = Nobody
  <2>1. row'[c[2]].resv = row[c[2]].resv
    BY <1>1, Zenon DEF CalmRows, CalmRow
  <2> QED BY <1>1, <1>2, <2>1, Zenon DEF Charges
<1>3. CASE c[1] # Nobody
  <2>1. w \in Purse(actor[c[1]]) /\ actor[c[1]].i = c[2]
    BY <1>1, <1>3, Zenon DEF Lightened
  <2> QED BY <1>1, <1>3, <2>1, Zenon DEF Charges
<1> QED BY <1>2, <1>3

\* And the books stay balanced.
LEMMA CalmStep ==
  ASSUME Inv, TypeOK', Ledger, CalmRows, UNCHANGED usage,
         \A a \in Actors :
           \/ actor'[a] = actor[a]
           \/ CalmActor(actor[a], actor'[a]) /\ Lightened(actor[a], actor'[a])
  PROVE  Ledger'
<1>1. CalmActors
  BY Zenon DEF CalmActors
<1>2. Timely' /\ RowHeld' /\ ActorHeld' /\ Resuming'
  BY <1>1, CalmAccounts, Zenon DEF Ledger
<1>3. Books'
  <2> SUFFICES ASSUME NEW w \in Windows
               PROVE  Total(Charges(w)', w) <= usage[w] /\ usage[w] <= Limit[w]
    BY Zenon DEF Books, Total, Parts
  <2>1. Charges(w)' \in SUBSET Charges(w) /\ Charges(w) \in SUBSET (Holders \X Intents)
    <3>1. Charges(w)' \subseteq Charges(w)
      BY CalmCharges, Zenon
    <3> QED BY <3>1, Zenon DEF Charges
  <2>2. PICK R : R = Charges(w)'
    BY Zenon
  <2>3. R \in SUBSET Charges(w) /\ R \in SUBSET (Holders \X Intents)
    BY <2>1, <2>2, Zenon
  <2>4. /\ Total(R, w) <= Total(Charges(w), w)
        /\ Total(R, w) \in Nat /\ Total(Charges(w), w) \in Nat
    BY <2>1, <2>3, TotalMono, PartsFinite, Zenon
  <2>5. Total(Charges(w), w) <= usage[w] /\ usage[w] <= Limit[w] /\ usage[w] \in Nat
    BY Zenon DEF Ledger, Books, Inv, TypeOK
  <2>6. Total(R, w) <= usage[w]
    BY <2>4, <2>5, SMTT(30)
  <2> QED BY <2>2, <2>5, <2>6, Zenon
<1> QED BY <1>2, <1>3, Zenon DEF Ledger

\* One actor moves.
LEMMA CalmMove ==
  ASSUME Inv, TypeOK', Ledger, UNCHANGED <<row, usage>>,
         NEW a \in Actors, NEW n, actor' = [actor EXCEPT ![a] = n],
         CalmActor(actor[a], n), Lightened(actor[a], n)
  PROVE  Ledger'
<1>1. actor \in [Actors -> Working \cup {Idle}]
  BY Zenon DEF Inv, TypeOK
<1>2. \A b \in Actors : actor'[b] = IF b = a THEN n ELSE actor[b]
  BY <1>1, Zenon
<1>3. CalmRows
  BY Zenon DEF CalmRows
<1>4. \A b \in Actors :
        \/ actor'[b] = actor[b]
        \/ CalmActor(actor[b], actor'[b]) /\ Lightened(actor[b], actor'[b])
  BY <1>2, Zenon
<1> QED BY <1>3, <1>4, CalmStep, Zenon

\* One actor moves and writes a row.
LEMMA CalmWrite ==
  ASSUME Inv, TypeOK', Ledger, UNCHANGED usage,
         NEW a \in Actors, NEW n, actor' = [actor EXCEPT ![a] = n],
         CalmActor(actor[a], n), Lightened(actor[a], n),
         NEW i \in Intents, NEW r, row' = [row EXCEPT ![i] = r],
         r = row[i] \/ CalmRow(i, row[i], r)
  PROVE  Ledger'
<1>1. row \in [Intents -> Row] /\ actor \in [Actors -> Working \cup {Idle}]
  BY Zenon DEF Inv, TypeOK
<1>2. \A b \in Actors : actor'[b] = IF b = a THEN n ELSE actor[b]
  BY <1>1, Zenon
<1>3. \A j \in Intents : row'[j] = IF j = i THEN r ELSE row[j]
  BY <1>1, Zenon
<1>4. CalmRows
  BY <1>3, Zenon DEF CalmRows
<1>5. \A b \in Actors :
        \/ actor'[b] = actor[b]
        \/ CalmActor(actor[b], actor'[b]) /\ Lightened(actor[b], actor'[b])
  BY <1>2, Zenon
<1> QED BY <1>4, <1>5, CalmStep, Zenon

\* A row that is settled or left open keeps what it answers for.
LEMMA SettledRow ==
  ASSUME NEW i \in Intents, row[i].state # "ready", NEW s, s.resv = row[i].resv,
         s.state \in {"unknown", "accepted", "complete"}
  PROVE  CalmRow(i, row[i], s)
<1>1. s.state # "ready" /\ s.state # "claimed"
  BY Zenon
<1> QED BY <1>1, Zenon DEF CalmRow

\* What the statements on a row do to its reservations.
LEMMA RowResv ==
  ASSUME NEW r \in Row
  PROVE  /\ Accepted(r).resv = r.resv /\ Accepted(r).state = "accepted"
         /\ Completed(r).resv = r.resv /\ Completed(r).state = "complete"
         /\ ReleasedToUnknown(r).resv = r.resv /\ ReleasedToUnknown(r).state = "unknown"
         /\ Withheld(r).resv = r.resv /\ Withheld(r).state = "unknown"
         /\ \A c \in BOOLEAN :
              MarkedUnknown(r, c).resv = r.resv /\ MarkedUnknown(r, c).state = "unknown"
         /\ Rejected(r).resv = {} /\ Rejected(r).state = "ready"
<1>1. Accepted(r).resv = r.resv /\ Accepted(r).state = "accepted"
  BY ZenonT(30) DEF Row, Accepted
<1>2. Completed(r).resv = r.resv /\ Completed(r).state = "complete"
  BY ZenonT(30) DEF Row, Completed
<1>3. ReleasedToUnknown(r).resv = r.resv /\ ReleasedToUnknown(r).state = "unknown"
  BY ZenonT(30) DEF Row, ReleasedToUnknown
<1>4. Withheld(r).resv = r.resv /\ Withheld(r).state = "unknown"
  BY ZenonT(30) DEF Row, Withheld, ReleasedToUnknown
<1>5. ASSUME NEW c \in BOOLEAN
      PROVE  MarkedUnknown(r, c).resv = r.resv /\ MarkedUnknown(r, c).state = "unknown"
  BY ZenonT(30) DEF Row, MarkedUnknown, ReleasedToUnknown
<1>6. Rejected(r).resv = {} /\ Rejected(r).state = "ready"
  BY ZenonT(30) DEF Row, Rejected
<1> QED BY <1>1, <1>2, <1>3, <1>4, <1>5, <1>6, Zenon

-----------------------------------------------------------------------------
(* What actors keep in hand *)

\* An actor with no attempt and no reservations of its own.
LEMMA DoneActor ==
  ASSUME NEW m, NEW n, n.pc \in {"idle", "looking", "persisting", "completing"}
  PROVE  CalmActor(m, n) /\ Lightened(m, n)
<1>1. /\ n.pc \notin {"reserving", "releasing"} /\ n.pc # "claiming"
      /\ n.pc \notin {"claiming", "claimed", "failed", "sent"}
      /\ n.pc \notin {"claimed", "failed", "sent"}
      /\ n.pc \notin {"reserving", "claiming", "releasing"}
  BY Zenon
<1>2. Purse(n) = {}
  BY <1>1, Zenon DEF Purse
<1> QED BY <1>1, <1>2, Zenon DEF CalmActor, Lightened, LocalsOK

\* An attempt that goes on.
LEMMA AttemptActor ==
  ASSUME NEW m, LocalsOK(m), m.pc = "claimed", NEW n, n.pc \in {"failed", "sent"},
         n.i = m.i, n.prior = m.prior, n.resv = m.resv
  PROVE  CalmActor(m, n) /\ Lightened(m, n)
<1>1. /\ n.pc \notin {"reserving", "releasing"} /\ n.pc # "claiming"
      /\ n.pc \notin {"reserving", "claiming", "releasing"}
      /\ m.pc \in {"claiming", "claimed", "failed", "sent"}
      /\ m.pc \in {"claimed", "failed", "sent"}
  BY Zenon
<1>2. Purse(n) = {}
  BY <1>1, Zenon DEF Purse
<1> QED BY <1>1, <1>2, Zenon DEF CalmActor, Lightened, LocalsOK

\* A fresh request between its first reservation and its claim.
LEMMA PurseActor ==
  ASSUME NEW m, m.pc \in {"reserving", "claiming", "releasing"}, m.mode = "fresh",
         NEW n, n.i = m.i, n.mode = m.mode,
         \/ n.pc \in {"reserving", "releasing"} /\ n.resv \subseteq Needs(m.i)
         \/ n.pc = "claiming" /\ n.resv = Needs(m.i)
  PROVE  /\ CalmActor(m, n) /\ Purse(n) = n.resv /\ Purse(m) = m.resv
         /\ n.resv \subseteq m.resv => Lightened(m, n)
<1>1. /\ n.pc \notin {"claimed", "failed", "sent"}
      /\ n.pc \in {"reserving", "claiming", "releasing"}
      /\ n.pc = "claiming" => n.pc \notin {"reserving", "releasing"}
      /\ n.pc \in {"reserving", "releasing"} =>
           n.pc \notin {"claiming", "claimed", "failed", "sent"}
  BY Zenon
<1>2. Purse(n) = n.resv /\ Purse(m) = m.resv
  BY <1>1, Zenon DEF Purse
<1>3. CalmActor(m, n)
  BY <1>1, Zenon DEF CalmActor, LocalsOK
<1> QED BY <1>2, <1>3, Zenon DEF Lightened

\* A change of the program counter alone.
LEMMA GotoFields ==
  ASSUME Inv, NEW a \in Actors, actor[a].pc # "idle", NEW pc \in Steps \ {"idle"},
         Goto(a, pc)
  PROVE  \E n \in Working :
           /\ actor' = [actor EXCEPT ![a] = n] /\ n.pc = pc /\ n.i = actor[a].i
           /\ n.mode = actor[a].mode /\ n.resv = actor[a].resv
           /\ n.prior = actor[a].prior
<1> DEFINE n == [actor[a] EXCEPT !.pc = pc]
<1>1. actor[a] \in Working
  BY Busy, Zenon
<1>2. /\ n \in Working /\ n.pc = pc /\ n.i = actor[a].i /\ n.mode = actor[a].mode
      /\ n.resv = actor[a].resv /\ n.prior = actor[a].prior
  BY <1>1, ZenonT(30) DEF Working
<1>3. actor' = [actor EXCEPT ![a] = n]
  BY Zenon DEF Goto
<1> HIDE DEF n
<1> QED BY <1>2, <1>3, Zenon

\* A failed call.
LEMMA FailFields ==
  ASSUME Inv, NEW a \in Actors, actor[a].pc # "idle",
         NEW why \in {"definite", "answered", "unanswered"}, Fail(a, why)
  PROVE  \E n \in Working :
           /\ actor' = [actor EXCEPT ![a] = n] /\ n.pc = "failed" /\ n.i = actor[a].i
           /\ n.resv = actor[a].resv /\ n.prior = actor[a].prior
<1> DEFINE n == [actor[a] EXCEPT !.pc = "failed", !.why = why]
<1>1. actor[a] \in Working
  BY Busy, Zenon
<1>2. /\ n \in Working /\ n.pc = "failed" /\ n.i = actor[a].i
      /\ n.resv = actor[a].resv /\ n.prior = actor[a].prior
  BY <1>1, ZenonT(30) DEF Working, Steps
<1>3. actor' = [actor EXCEPT ![a] = n]
  BY ZenonT(30) DEF Fail
<1> HIDE DEF n
<1> QED BY <1>2, <1>3, Zenon

\* Transactions move on, an actor goes idle.
LEMMA IdleLedger ==
  ASSUME Inv, TypeOK', Ledger, NEW a \in Actors, Finish(a), UNCHANGED <<row, usage>>
  PROVE  Ledger'
<1>1. Idle.pc \in {"idle", "looking", "persisting", "completing"}
  BY Zenon DEF Idle
<1>2. actor' = [actor EXCEPT ![a] = Idle]
  BY Zenon DEF Finish
<1> HIDE DEF Idle
<1>3. CalmActor(actor[a], Idle) /\ Lightened(actor[a], Idle)
  BY <1>1, DoneActor, SMTT(30)
<1> QED BY <1>2, <1>3, CalmMove, Zenon

\* An actor goes to where it holds no reservations of its own.
LEMMA DoneLedger ==
  ASSUME Inv, TypeOK', Ledger, NEW a \in Actors, actor[a].pc # "idle",
         NEW pc \in {"persisting", "completing"}, Goto(a, pc), UNCHANGED <<row, usage>>
  PROVE  Ledger'
<1>1. pc \in Steps \ {"idle"} /\ pc \in {"idle", "looking", "persisting", "completing"}
  BY Zenon DEF Steps
<1>2. PICK n \in Working : actor' = [actor EXCEPT ![a] = n] /\ n.pc = pc
  BY <1>1, GotoFields, SMTT(30)
<1>3. CalmActor(actor[a], n) /\ Lightened(actor[a], n)
  BY <1>1, <1>2, DoneActor, SMTT(30)
<1> QED BY <1>2, <1>3, CalmMove, Zenon

\* The call to the node ends.
LEMMA CalledLedger ==
  ASSUME Inv, TypeOK', Ledger, NEW a \in Actors, actor[a].pc = "claimed",
         \/ Goto(a, "sent")
         \/ \E why \in {"definite", "answered", "unanswered"} : Fail(a, why),
         UNCHANGED <<row, usage>>
  PROVE  Ledger'
<1>1. actor[a].pc # "idle" /\ "sent" \in Steps \ {"idle"}
  BY Zenon DEF Steps
<1>2. \E n \in Working :
        /\ actor' = [actor EXCEPT ![a] = n] /\ n.pc \in {"failed", "sent"}
        /\ n.i = actor[a].i /\ n.resv = actor[a].resv /\ n.prior = actor[a].prior
  <2>1. CASE Goto(a, "sent")
    BY <1>1, <2>1, GotoFields, SMTT(30)
  <2>2. CASE \E why \in {"definite", "answered", "unanswered"} : Fail(a, why)
    BY <1>1, <2>2, FailFields, Zenon
  <2> QED BY <2>1, <2>2
<1>3. PICK n \in Working :
        /\ actor' = [actor EXCEPT ![a] = n] /\ n.pc \in {"failed", "sent"}
        /\ n.i = actor[a].i /\ n.resv = actor[a].resv /\ n.prior = actor[a].prior
  BY <1>2, Zenon
<1>4. LocalsOK(actor[a])
  BY Zenon DEF Ledger, ActorHeld
<1>5. CalmActor(actor[a], n) /\ Lightened(actor[a], n)
  BY <1>3, <1>4, AttemptActor, SMTT(30)
<1> QED BY <1>3, <1>5, CalmMove, Zenon

\* A request with reservations of its own moves on.
LEMMA PurseLedger ==
  ASSUME Inv, TypeOK', Ledger, NEW a \in Actors,
         actor[a].pc \in {"reserving", "claiming"}, actor[a].mode = "fresh",
         NEW pc \in {"claiming", "releasing"}, Goto(a, pc),
         pc = "claiming" => actor[a].resv = Needs(actor[a].i), UNCHANGED <<row, usage>>
  PROVE  Ledger'
<1>1. /\ actor[a].pc # "idle" /\ pc \in Steps \ {"idle"}
      /\ actor[a].pc \in {"reserving", "claiming", "releasing"}
  BY Zenon DEF Steps
<1>2. PICK n \in Working :
        /\ actor' = [actor EXCEPT ![a] = n] /\ n.pc = pc /\ n.i = actor[a].i
        /\ n.mode = actor[a].mode /\ n.resv = actor[a].resv
  BY <1>1, GotoFields, SMTT(30)
<1>3. actor[a].resv \subseteq Needs(actor[a].i)
  <2>1. actor[a].pc = "reserving" \/ actor[a].pc = "claiming"
    BY Zenon
  <2> QED BY <2>1, Zenon DEF Ledger, ActorHeld, LocalsOK
<1>4. \/ n.pc \in {"reserving", "releasing"} /\ n.resv \subseteq Needs(actor[a].i)
      \/ n.pc = "claiming" /\ n.resv = Needs(actor[a].i)
  BY <1>2, <1>3, Zenon
<1>5. CalmActor(actor[a], n) /\ Lightened(actor[a], n)
  BY <1>1, <1>2, <1>4, PurseActor, SMTT(30)
<1> QED BY <1>2, <1>5, CalmMove, Zenon

-----------------------------------------------------------------------------
(* Steps that move units *)

\* What a change of one actor and one row makes of the accounts.
LEMMA ChargesOf ==
  ASSUME Inv, NEW a \in Actors, NEW n, actor' = [actor EXCEPT ![a] = n],
         NEW w \in Windows, NEW c \in Charges(w)'
  PROVE  /\ c \in Holders \X Intents /\ c = <<c[1], c[2]>>
         /\ c[1] \in Actors \cup {Nobody} /\ c[2] \in Intents
         /\ c[1] = Nobody => w \in row'[c[2]].resv
         /\ c[1] = a => w \in Purse(n) /\ n.i = c[2]
         /\ c[1] # Nobody /\ c[1] # a => c \in Charges(w)
<1>1. \A b \in Actors : actor'[b] = IF b = a THEN n ELSE actor[b]
  BY Zenon DEF Inv, TypeOK
<1>2. /\ c \in Holders \X Intents
      /\ IF c[1] = Nobody
           THEN w \in row'[c[2]].resv
           ELSE w \in Purse(actor'[c[1]]) /\ actor'[c[1]].i = c[2]
  BY Zenon DEF Charges, Purse
<1>3. c = <<c[1], c[2]>> /\ c[1] \in Actors \cup {Nobody} /\ c[2] \in Intents
  BY <1>2, SMTT(30) DEF Holders
<1>4. a # Nobody
  BY IntentRowAssumption, Zenon
<1>5. ASSUME c[1] # Nobody, c[1] # a
      PROVE  c \in Charges(w)
  BY <1>1, <1>2, <1>3, <1>5, Zenon DEF Charges
<1>6. ASSUME c[1] = a
      PROVE  w \in Purse(n) /\ n.i = c[2]
  BY <1>1, <1>2, <1>4, <1>6, Zenon
<1> QED BY <1>2, <1>3, <1>5, <1>6, Zenon

\* The types of accounts.
LEMMA ChargesType ==
  ASSUME Inv, NEW w \in Windows
  PROVE  /\ Charges(w) \in SUBSET (Holders \X Intents)
         /\ \A i \in Intents : <<Nobody, i>> \in Charges(w) <=> w \in row[i].resv
         /\ \A a \in Actors : \A i \in Intents :
              <<a, i>> \in Charges(w) <=> w \in Purse(actor[a]) /\ actor[a].i = i
<1>1. Charges(w) \in SUBSET (Holders \X Intents)
  BY Zenon DEF Charges
<1>2. \A x \in Holders : \A i \in Intents :
        <<x, i>> \in Holders \X Intents /\ <<x, i>>[1] = x /\ <<x, i>>[2] = i
  BY Zenon
<1>3. Nobody \in Holders /\ (\A a \in Actors : a \in Holders /\ a # Nobody)
  BY IntentRowAssumption, Zenon DEF Holders
<1>4. ASSUME NEW i \in Intents
      PROVE  <<Nobody, i>> \in Charges(w) <=> w \in row[i].resv
  BY <1>2, <1>3, Zenon DEF Charges
<1>5. ASSUME NEW a \in Actors, NEW i \in Intents
      PROVE  <<a, i>> \in Charges(w) <=> w \in Purse(actor[a]) /\ actor[a].i = i
  BY <1>2, <1>3, Zenon DEF Charges
<1> QED BY <1>1, <1>4, <1>5, Zenon

\* Balanced books, window by window.
LEMMA BooksFrom ==
  ASSUME \A w \in Windows :
           Total(Charges(w)', w) <= usage'[w] /\ usage'[w] <= Limit[w]
  PROVE  Books'
BY Zenon DEF Books, Total, Parts

\* The books when no usage moves.
LEMMA BooksSame ==
  ASSUME Inv, Books, UNCHANGED usage,
         \A w \in Windows : Charges(w)' \in SUBSET (Holders \X Intents),
         \A w \in Windows : Total(Charges(w)', w) <= Total(Charges(w), w)
  PROVE  Books'
<1> SUFFICES ASSUME NEW w \in Windows
             PROVE  Total(Charges(w)', w) <= usage'[w] /\ usage'[w] <= Limit[w]
  BY BooksFrom, Zenon
<1>1. PICK R : R = Charges(w)'
  BY Zenon
<1>2. Total(R, w) \in Nat /\ Total(Charges(w), w) \in Nat
  BY <1>1, ChargesType, PartsFinite, Zenon
<1>3. /\ Total(R, w) <= Total(Charges(w), w)
      /\ Total(Charges(w), w) <= usage[w] /\ usage[w] <= Limit[w] /\ usage[w] \in Nat
  BY <1>1, Zenon DEF Books, Inv, TypeOK
<1>4. Total(R, w) <= usage[w]
  BY <1>2, <1>3, SMTT(30)
<1> QED BY <1>1, <1>3, <1>4, Zenon

\* An actor's locals with other reservations.
WithResv(m, s, n) == n.pc = m.pc /\ n.i = m.i /\ n.mode = m.mode /\ n.resv = s

\* A request's own reservations change.
LEMMA PurseMove ==
  ASSUME Inv, TypeOK', Ledger, NEW a \in Actors, actor[a].pc \in {"reserving", "releasing"},
         NEW s, s \subseteq Needs(actor[a].i), NEW n, WithResv(actor[a], s, n),
         actor' = [actor EXCEPT ![a] = n], UNCHANGED row
  PROVE  /\ Timely' /\ RowHeld' /\ ActorHeld' /\ Resuming'
         /\ actor[a].i \in Intents
         /\ \A w \in Windows : Charges(w)' \in SUBSET (Holders \X Intents)
         /\ \A w \in Windows :
              <<a, actor[a].i>> \in Charges(w) <=> w \in actor[a].resv
         /\ \A w \in Windows :
              Charges(w)' \subseteq
                IF w \in s THEN Charges(w) \cup {<<a, actor[a].i>>}
                           ELSE Charges(w) \ {<<a, actor[a].i>>}
<1> DEFINE k == <<a, actor[a].i>>
<1>1. /\ actor[a].pc # "idle" /\ actor[a].mode = "fresh"
      /\ actor[a].pc \in {"reserving", "claiming", "releasing"}
  <2>1. actor[a].mode = "fresh"
    BY Zenon DEF Ledger, ActorHeld, LocalsOK
  <2> QED BY <2>1, Zenon
<1>2. actor[a] \in Working /\ actor[a].i \in Intents
  BY <1>1, Busy, Zenon
<1>3. n.pc = actor[a].pc /\ n.i = actor[a].i /\ n.mode = actor[a].mode /\ n.resv = s
  BY Zenon DEF WithResv
<1>5. \/ n.pc \in {"reserving", "releasing"} /\ n.resv \subseteq Needs(actor[a].i)
      \/ n.pc = "claiming" /\ n.resv = Needs(actor[a].i)
  BY <1>3, Zenon
<1>6. CalmActor(actor[a], n) /\ Purse(n) = s /\ Purse(actor[a]) = actor[a].resv
  BY <1>1, <1>3, <1>5, PurseActor, SMTT(30)
<1>7. CalmRows /\ CalmActors
  <2>1. \A b \in Actors : actor'[b] = IF b = a THEN n ELSE actor[b]
    BY Zenon DEF Inv, TypeOK
  <2> QED BY <1>6, <2>1, Zenon DEF CalmRows, CalmActors
<1>8. Timely' /\ RowHeld' /\ ActorHeld' /\ Resuming'
  BY <1>7, CalmAccounts, Zenon DEF Ledger
<1>9. \A w \in Windows : k \in Charges(w) <=> w \in actor[a].resv
  BY <1>2, <1>6, ChargesType, SMTT(30)
<1>10. ASSUME NEW w \in Windows, NEW c \in Charges(w)'
       PROVE  /\ c \in Holders \X Intents
              /\ c # k => c \in Charges(w)
              /\ c = k => w \in s
  <2>1. /\ c \in Holders \X Intents /\ c = <<c[1], c[2]>> /\ c[2] \in Intents
        /\ c[1] = Nobody => w \in row[c[2]].resv
        /\ c[1] = a => w \in s /\ actor[a].i = c[2]
        /\ c[1] # Nobody /\ c[1] # a => c \in Charges(w)
    <3>1. /\ c \in Holders \X Intents /\ c = <<c[1], c[2]>> /\ c[2] \in Intents
          /\ c[1] = Nobody => w \in row'[c[2]].resv
          /\ c[1] = a => w \in Purse(n) /\ n.i = c[2]
          /\ c[1] # Nobody /\ c[1] # a => c \in Charges(w)
      BY <1>10, ChargesOf, ZenonT(40)
    <3> QED BY <1>3, <1>6, <3>1, Zenon
  <2>2. c[1] = Nobody => c \in Charges(w)
    BY <2>1, ChargesType, SMTT(30)
  <2>3. c = k => c[1] = a
    BY SMTT(30)
  <2> QED BY <2>1, <2>2, <2>3, Zenon
<1> HIDE DEF k
<1>11. ASSUME NEW w \in Windows
       PROVE  Charges(w)' \subseteq IF w \in s THEN Charges(w) \cup {k} ELSE Charges(w) \ {k}
  BY <1>10, Zenon
<1>12. \A w \in Windows : Charges(w)' \in SUBSET (Holders \X Intents)
  BY <1>10, Zenon
<1> QED BY <1>2, <1>8, <1>9, <1>11, <1>12, Zenon DEF k

\* One reservation joins or leaves them.
LEMMA ResvFields ==
  ASSUME Inv, NEW a \in Actors, actor[a].pc # "idle", NEW s,
         actor' = [actor EXCEPT ![a].resv = s]
  PROVE  \E n : actor' = [actor EXCEPT ![a] = n] /\ WithResv(actor[a], s, n)
<1>1. actor[a] \in Working
  BY Busy, Zenon
<1>2. PICK n : n = [actor[a] EXCEPT !.resv = s]
  BY Zenon
<1>3. WithResv(actor[a], s, n)
  BY <1>1, <1>2, ZenonT(30) DEF Working, WithResv
<1>4. actor' = [actor EXCEPT ![a] = n]
  BY <1>2, Zenon
<1> QED BY <1>3, <1>4, Zenon

\* reserveUsageWindow
LEMMA ReserveLedger ==
  ASSUME Inv, TypeOK', Ledger, NEW a \in Actors, NEW w \in Windows, Reserve(a, w)
  PROVE  Ledger'
<1> DEFINE s == actor[a].resv \cup {w}
           k == <<a, actor[a].i>>
           z == Cost[actor[a].i][w]
<1>1. /\ actor[a].pc = "reserving" /\ w \notin actor[a].resv /\ z > 0
      /\ usage[w] + z <= Limit[w] /\ usage' = [usage EXCEPT ![w] = usage[w] + z]
      /\ actor' = [actor EXCEPT ![a].resv = s] /\ UNCHANGED row
  BY Zenon DEF Reserve, At, Unreserved, Fits
<1>2. actor[a].pc \in {"reserving", "releasing"} /\ actor[a].resv \subseteq Needs(actor[a].i)
  BY <1>1, Zenon DEF Ledger, ActorHeld, LocalsOK
<1>3. s \subseteq Needs(actor[a].i)
  BY <1>1, <1>2, Zenon DEF Needs
<1> HIDE DEF s
<1>4. /\ Timely' /\ RowHeld' /\ ActorHeld' /\ Resuming'
      /\ actor[a].i \in Intents
      /\ \A x \in Windows : Charges(x)' \in SUBSET (Holders \X Intents)
      /\ \A x \in Windows : k \in Charges(x) <=> x \in actor[a].resv
      /\ \A x \in Windows :
           Charges(x)' \subseteq IF x \in s THEN Charges(x) \cup {k} ELSE Charges(x) \ {k}
  <2>1. actor[a].pc # "idle" /\ UNCHANGED row
    BY <1>1, Zenon
  <2>2. PICK n : actor' = [actor EXCEPT ![a] = n] /\ WithResv(actor[a], s, n)
    BY <1>1, <2>1, ResvFields, Zenon
  <2> QED BY <1>2, <1>3, <2>1, <2>2, PurseMove, Zenon
<1>5. k \in Holders \X Intents /\ k[2] = actor[a].i /\ actor[a].i \in Intents
  BY <1>4, Zenon DEF Holders
<1>6. usage \in [Windows -> Nat]
  BY Zenon DEF Inv, TypeOK
<1>7. ASSUME NEW x \in Windows
      PROVE  Total(Charges(x)', x) <= usage'[x] /\ usage'[x] <= Limit[x]
  <2>1. PICK R : R = Charges(x)'
    BY Zenon
  <2>2. /\ R \in SUBSET (Holders \X Intents)
        /\ Charges(x) \in SUBSET (Holders \X Intents)
        /\ Total(Charges(x), x) <= usage[x] /\ usage[x] <= Limit[x] /\ usage[x] \in Nat
    BY <1>4, <1>6, <2>1, ChargesType, Zenon DEF Ledger, Books
  <2>3. Total(R, x) \in Nat /\ Total(Charges(x), x) \in Nat
    BY <2>2, PartsFinite, Zenon
  <2>4. CASE x = w
    <3>1. R \in SUBSET (Charges(x) \cup {k})
      BY <1>4, <2>1, Zenon
    <3>2. Total(R, x) <= Total(Charges(x), x) + z
      BY <1>5, <2>2, <2>4, <3>1, TotalGrows, Zenon
    <3>3. usage'[x] = usage[x] + z /\ usage'[x] <= Limit[x]
      BY <1>1, <1>6, <2>4, Zenon
    <3>4. z \in Nat
      BY <1>5, BroadcastAssumption, ZenonT(40)
    <3> HIDE DEF z
    <3>5. Total(R, x) <= usage'[x]
      BY <2>2, <2>3, <3>2, <3>3, <3>4, SMTT(30)
    <3> QED BY <2>1, <3>3, <3>5, Zenon
  <2>5. CASE x # w
    <3>1. x \in s => k \in Charges(x)
      BY <1>4, <2>5, Zenon DEF s
    <3>2. R \in SUBSET Charges(x)
      BY <1>4, <2>1, <3>1, Zenon
    <3>3. Total(R, x) <= Total(Charges(x), x)
      BY <2>2, <3>2, TotalMono, Zenon
    <3>4. usage'[x] = usage[x]
      BY <1>1, <1>6, <2>5, Zenon
    <3>5. Total(R, x) <= usage[x]
      BY <2>2, <2>3, <3>3, SMTT(30)
    <3> QED BY <2>1, <2>2, <3>4, <3>5, Zenon
  <2> QED BY <2>4, <2>5
<1>8. Books'
  BY <1>7, BooksFrom, Zenon
<1> QED BY <1>4, <1>8, Zenon DEF Ledger

\* releaseUsageWindow: what is given back is still counted, so the floor at
\* zero is never what keeps the total.
LEMMA ReleaseLedger ==
  ASSUME Inv, TypeOK', Ledger, NEW a \in Actors, NEW w \in Windows, Release(a, w)
  PROVE  Ledger'
<1> DEFINE s == actor[a].resv \ {w}
           k == <<a, actor[a].i>>
           z == Cost[actor[a].i][w]
<1>1. /\ actor[a].pc = "releasing" /\ w \in actor[a].resv
      /\ usage' = [usage EXCEPT ![w] = IF usage[w] >= z THEN usage[w] - z ELSE usage[w]]
      /\ actor' = [actor EXCEPT ![a].resv = s] /\ UNCHANGED row
  BY Zenon DEF Release, At
<1>2. actor[a].pc \in {"reserving", "releasing"} /\ actor[a].resv \subseteq Needs(actor[a].i)
  BY <1>1, Zenon DEF Ledger, ActorHeld, LocalsOK
<1>3. s \subseteq Needs(actor[a].i)
  BY <1>2, ZenonT(40)
<1> HIDE DEF s
<1>4. /\ Timely' /\ RowHeld' /\ ActorHeld' /\ Resuming'
      /\ actor[a].i \in Intents
      /\ \A x \in Windows : Charges(x)' \in SUBSET (Holders \X Intents)
      /\ \A x \in Windows : k \in Charges(x) <=> x \in actor[a].resv
      /\ \A x \in Windows :
           Charges(x)' \subseteq IF x \in s THEN Charges(x) \cup {k} ELSE Charges(x) \ {k}
  <2>1. actor[a].pc # "idle" /\ UNCHANGED row
    BY <1>1, Zenon
  <2>2. PICK n : actor' = [actor EXCEPT ![a] = n] /\ WithResv(actor[a], s, n)
    BY <1>1, <2>1, ResvFields, ZenonT(40)
  <2> QED BY <1>2, <1>3, <2>1, <2>2, PurseMove, Zenon
<1>5. k \in Holders \X Intents /\ k[2] = actor[a].i /\ actor[a].i \in Intents
  BY <1>4, Zenon DEF Holders
<1>6. usage \in [Windows -> Nat]
  BY Zenon DEF Inv, TypeOK
<1>7. ASSUME NEW x \in Windows
      PROVE  Total(Charges(x)', x) <= usage'[x] /\ usage'[x] <= Limit[x]
  <2>1. PICK R : R = Charges(x)'
    BY Zenon
  <2>2. /\ R \in SUBSET (Holders \X Intents)
        /\ Charges(x) \in SUBSET (Holders \X Intents)
        /\ Total(Charges(x), x) <= usage[x] /\ usage[x] <= Limit[x] /\ usage[x] \in Nat
        /\ Limit[x] \in Nat
    BY <1>4, <1>6, <2>1, ChargesType, BroadcastAssumption, Zenon DEF Ledger, Books
  <2>3. Total(R, x) \in Nat /\ Total(Charges(x), x) \in Nat
    BY <2>2, PartsFinite, Zenon
  <2>4. CASE x = w
    <3>1. R \in SUBSET (Charges(x) \ {k}) /\ k \in Charges(x)
      BY <1>1, <1>4, <2>1, <2>4, Zenon DEF s
    <3>2. Total(R, x) + z <= Total(Charges(x), x)
      BY <1>5, <2>2, <2>4, <3>1, TotalDrops, Zenon
    <3>3. usage'[x] = (IF usage[x] >= z THEN usage[x] - z ELSE usage[x])
      BY <1>1, <1>6, <2>4, ZenonT(40)
    <3>4. z \in Nat
      BY <1>5, BroadcastAssumption, Zenon
    <3> HIDE DEF z
    <3>5. Total(R, x) <= usage'[x] /\ usage'[x] <= Limit[x]
      BY <2>2, <2>3, <3>2, <3>3, <3>4, SMTT(30)
    <3> QED BY <2>1, <3>5, Zenon
  <2>5. CASE x # w
    <3>1. x \in s => k \in Charges(x)
      BY <1>4, <2>5, ZenonT(40) DEF s
    <3>2. R \in SUBSET Charges(x)
      BY <1>4, <2>1, <3>1, Zenon
    <3>3. Total(R, x) <= Total(Charges(x), x)
      BY <2>2, <3>2, TotalMono, Zenon
    <3>4. usage'[x] = usage[x]
      BY <1>1, <1>6, <2>5, Zenon
    <3>5. Total(R, x) <= usage[x]
      BY <2>2, <2>3, <3>3, SMTT(30)
    <3> QED BY <2>1, <2>2, <3>4, <3>5, Zenon
  <2> QED BY <2>4, <2>5
<1>8. Books'
  BY <1>7, BooksFrom, Zenon
<1> QED BY <1>4, <1>8, Zenon DEF Ledger

\* The request hands its reservations to the row it claims, or finds there
\* what an earlier attempt left.
LEMMA ClaimLedger ==
  ASSUME Inv, TypeOK', Ledger, NEW a \in Actors, Claim(a)
  PROVE  Ledger'
<1> DEFINE i == actor[a].i
           r == Claimed(row[i], actor[a].v, actor[a].resv, a)
           n == [actor[a] EXCEPT !.pc = "claimed", !.prior = PriorState(row[i])]
<1>1. /\ actor[a].pc = "claiming" /\ row' = [row EXCEPT ![i] = r]
      /\ actor' = [actor EXCEPT ![a] = n] /\ UNCHANGED usage
  BY Zenon DEF Claim, At, SetRow
<1>2. actor[a].pc # "idle" /\ actor[a].pc \in {"claiming", "claimed", "failed", "sent"}
  BY <1>1, Zenon
<1>3. actor[a] \in Working /\ i \in Intents /\ row[i] \in Row
  BY <1>2, Busy, Zenon
<1>4. r.state = "claimed" /\ r.resv = actor[a].resv /\ r.owner = a /\ r.expired = FALSE
  BY <1>3, ZenonT(30) DEF Row, Claimed
<1>5. /\ PriorState(row[i]) \in {"ready", "resumed", "stalled"}
      /\ PriorState(row[i]) = "ready" => row[i].state = "ready"
  BY Zenon DEF PriorState
<1>6. /\ n.pc = "claimed" /\ n.prior = PriorState(row[i]) /\ n.i = i
      /\ n.resv = actor[a].resv
  BY <1>3, ZenonT(30) DEF Working
<1>7. actor[a].resv = Needs(i)
  BY <1>2, Zenon DEF Ledger, ActorHeld, LocalsOK
<1>8. row[i].state = "ready" => actor[a].mode = "fresh"
  BY <1>1, Zenon DEF Ledger, Resuming, Begun
<1> HIDE DEF r, n
<1>9. /\ \A j \in Intents : row'[j] = IF j = i THEN r ELSE row[j]
      /\ \A b \in Actors : actor'[b] = IF b = a THEN n ELSE actor[b]
  BY <1>1, Zenon DEF Inv, TypeOK
<1>10. r.state # "ready"
  BY <1>4, Zenon
<1>11. ASSUME NEW b \in Actors, NEW j \in Intents, Attempting(b, j)', j # i
       PROVE  b # a /\ Attempting(b, j)
  BY <1>6, <1>9, <1>11, Zenon DEF Attempting
<1>12. Timely'
  <2> SUFFICES ASSUME NEW b \in Actors, NEW j \in Intents, OwnsClaim(row'[j], b),
                      row'[j].expired = TRUE, Attempting(b, j)'
               PROVE  FALSE
    BY Zenon DEF Timely
  <2>1. j # i
    BY <1>4, <1>9, Zenon
  <2>2. row'[j] = row[j] /\ Attempting(b, j)
    BY <2>1, <1>9, <1>11, ZenonT(40)
  <2> QED BY <2>2, Zenon DEF Ledger, Timely
<1>13. RowHeld'
  <2> SUFFICES ASSUME NEW j \in Intents
               PROVE  row'[j].resv = IF row'[j].state = "ready" THEN {} ELSE Needs(j)
    BY Zenon DEF RowHeld, Needs
  <2>1. CASE j = i
    BY <2>1, <1>4, <1>7, <1>9, <1>10, ZenonT(40)
  <2>2. CASE j # i
    BY <2>2, <1>9, Zenon DEF Ledger, RowHeld
  <2> QED BY <2>1, <2>2
<1>14. ActorHeld'
  <2> SUFFICES ASSUME NEW b \in Actors PROVE LocalsOK(actor'[b])
    BY Zenon DEF ActorHeld, LocalsOK, Needs
  <2>1. LocalsOK(n)
    <3>1. n.pc \notin {"reserving", "releasing"}
      BY <1>6, Zenon
    <3> QED BY <1>6, <1>7, <3>1, Zenon DEF LocalsOK
  <2> QED BY <1>9, <2>1, Zenon DEF Ledger, ActorHeld
<1>15. Resuming'
  <2> SUFFICES ASSUME NEW b \in Actors, actor'[b].pc = "claiming",
                      actor'[b].mode # "fresh"
               PROVE  Begun(actor[b].i)'
    BY Zenon DEF Resuming
  <2>1. b # a
    BY <1>6, <1>9, Zenon
  <2>2. actor'[b] = actor[b] /\ actor[b].pc # "idle"
    BY <2>1, <1>9, Zenon
  <2>3. PICK j \in Intents : j = actor[b].i
    BY <2>2, Busy, Zenon
  <2>4. Begun(j)
    BY <2>2, <2>3, Zenon DEF Ledger, Resuming
  <2>5. Begun(j)'
    <3>1. CASE j = i
      <4>1. row'[j].state # "ready"
        BY <1>9, <1>10, <3>1, Zenon
      <4>2. n.prior # "ready"
        BY <1>5, <1>6, <2>4, <3>1, Zenon DEF Begun
      <4>3. ASSUME NEW c \in Actors, OwnsClaim(row'[j], c)
            PROVE  ~First(c)'
        <5>1. c = a
          BY <1>4, <1>9, <3>1, <4>3, ZenonT(40) DEF OwnsClaim
        <5> QED BY <1>9, <4>2, <5>1, Zenon DEF First
      <4> QED BY <4>1, <4>3, Zenon DEF Begun
    <3>2. CASE j # i
      <4>1. row'[j] = row[j]
        BY <1>9, <3>2, Zenon
      <4>2. ASSUME NEW c \in Actors, Attempting(c, j)', OwnsClaim(row'[j], c)
            PROVE  ~First(c)'
        <5>1. c # a /\ Attempting(c, j) /\ OwnsClaim(row[j], c)
          BY <1>11, <3>2, <4>1, <4>2, Zenon
        <5>2. ~First(c) /\ actor'[c] = actor[c]
          BY <1>9, <2>4, <5>1, Zenon DEF Begun
        <5> QED BY <5>2, Zenon DEF First
      <4> QED BY <2>4, <4>1, <4>2, Zenon DEF Begun
    <3> QED BY <3>1, <3>2
  <2>6. actor'[b].i = j
    BY <2>2, <2>3, Zenon
  <2> QED BY <2>5, <2>6, Zenon DEF Begun, Attempting
<1>16. Purse(n) = {}
  <2>1. n.pc \notin {"reserving", "claiming", "releasing"}
    BY <1>6, Zenon
  <2> QED BY <2>1, Zenon DEF Purse
<1>17. ASSUME NEW w \in Windows
       PROVE  /\ Charges(w)' \in SUBSET (Holders \X Intents)
              /\ Total(Charges(w)', w) <= Total(Charges(w), w)
  <2> DEFINE k == <<a, i>>
             d == <<Nobody, i>>
  <2>1. ASSUME NEW c \in Charges(w)'
        PROVE  /\ c \in Holders \X Intents /\ c # k
               /\ c # d => c \in Charges(w)
               /\ c = d => w \in Needs(i)
    <3>1. /\ c \in Holders \X Intents /\ c = <<c[1], c[2]>> /\ c[2] \in Intents
          /\ c[1] = Nobody => w \in row'[c[2]].resv
          /\ c[1] # a
          /\ c[1] # Nobody => c \in Charges(w)
      BY <1>1, <1>16, <2>1, ChargesOf, ZenonT(40)
    <3>2. c[1] = Nobody /\ c # d => c \in Charges(w)
      <4> SUFFICES ASSUME c[1] = Nobody, c # d PROVE c \in Charges(w)
        OBVIOUS
      <4>1. c[2] # i
        BY <3>1, Zenon
      <4>2. w \in row[c[2]].resv
        BY <1>9, <3>1, <4>1, Zenon
      <4> QED BY <3>1, <4>2, ChargesType, SMTT(30)
    <3>3. c = d => w \in Needs(i)
      <4> SUFFICES ASSUME c = d PROVE w \in Needs(i)
        OBVIOUS
      <4>1. c[1] = Nobody /\ c[2] = i
        BY Zenon
      <4> QED BY <1>3, <1>4, <1>7, <1>9, <3>1, <4>1, ZenonT(40)
    <3> QED BY <3>1, <3>2, <3>3, SMTT(30)
  <2>2. PICK R : R = Charges(w)'
    BY Zenon
  <2>3. /\ k \in Holders \X Intents /\ d \in Holders \X Intents /\ k[2] = i /\ d[2] = i
        /\ k # d
    BY <1>3, IntentRowAssumption, Zenon DEF Holders
  <2>4. Charges(w) \in SUBSET (Holders \X Intents)
    BY ChargesType, Zenon
  <2>5. CASE row[i].state = "ready" /\ w \in Needs(i)
    <3>1. Purse(actor[a]) = Needs(i)
      <4>1. actor[a].pc \in {"reserving", "claiming", "releasing"}
        BY <1>1, Zenon
      <4> QED BY <1>7, <1>8, <2>5, <4>1, Zenon DEF Purse
    <3>2. k \in Charges(w)
      BY <1>3, <2>5, <3>1, ChargesType, SMTT(30)
    <3> HIDE DEF k, d
    <3>3. R \in SUBSET ((Charges(w) \ {k}) \cup {d})
      BY <2>1, <2>2, Zenon
    <3>4. Total(R, w) <= Total(Charges(w), w)
      BY <2>3, <2>4, <3>2, <3>3, TotalHands, Zenon
    <3> QED BY <2>1, <2>2, <3>4, Zenon
  <2>6. CASE ~(row[i].state = "ready" /\ w \in Needs(i))
    <3>1. w \in Needs(i) => d \in Charges(w)
      BY <1>3, <2>6, ChargesType, SMTT(30) DEF Ledger, RowHeld
    <3> HIDE DEF k, d
    <3>2. R \in SUBSET Charges(w)
      BY <2>1, <2>2, <3>1, Zenon
    <3>3. Total(R, w) <= Total(Charges(w), w)
      BY <2>4, <3>2, TotalMono, Zenon
    <3> QED BY <2>1, <2>2, <3>3, Zenon
  <2> QED BY <2>5, <2>6
<1>18. Books'
  BY <1>1, <1>17, BooksSame, Zenon DEF Ledger
<1> QED BY <1>12, <1>13, <1>14, <1>15, <1>18, ZenonT(40) DEF Ledger

\* releaseRejectedBroadcast: the row's reservations go back to the request
\* that made them, and nobody was about to resume the attempt.
LEMMA RejectLedger ==
  ASSUME Inv, TypeOK', Ledger, NEW a \in Actors, RecordFailure(a), Holds(a),
         actor[a].why = "definite"
  PROVE  Ledger'
<1> DEFINE i == actor[a].i
           r == Rejected(row[i])
<1>1. /\ actor[a].pc = "failed" /\ OwnsClaim(row[i], a)
      /\ row' = [row EXCEPT ![i] = AfterFailure(a, row[i])]
      /\ IF actor[a].mode = "fresh" THEN Goto(a, "releasing") ELSE Finish(a)
      /\ UNCHANGED usage
  BY Zenon DEF RecordFailure, At, SetRow, Holds
<1>2. First(a) /\ actor[a].pc # "idle" /\ actor[a].prior # "stalled"
  <2>1. First(a)
    BY <1>1, Zenon DEF Inv, DefiniteIsFirst
  <2> QED BY <1>1, <2>1, Zenon DEF First
<1>3. actor[a] \in Working /\ i \in Intents /\ row[i] \in Row
  BY <1>2, Busy, Zenon
<1>4. AfterFailure(a, row[i]) = r /\ r.resv = {} /\ r.state = "ready"
  <2>1. AfterFailure(a, row[i]) = r
    BY <1>2, Zenon DEF AfterFailure
  <2> QED BY <1>3, <2>1, RowResv, Zenon
<1>5. actor[a].resv = Needs(i) /\ Attempting(a, i)
  <2>1. actor[a].pc \in {"claiming", "claimed", "failed", "sent"}
    BY <1>1, Zenon
  <2> QED BY <1>1, <2>1, Zenon DEF Ledger, ActorHeld, LocalsOK, Attempting
<1>6. \E n \in Working \cup {Idle} :
        /\ actor' = [actor EXCEPT ![a] = n]
        /\ \/ n.pc = "idle"
           \/ n.pc = "releasing" /\ n.i = i /\ n.mode = "fresh" /\ n.resv = Needs(i)
  <2>1. CASE actor[a].mode = "fresh"
    <3>1. Goto(a, "releasing") /\ "releasing" \in Steps \ {"idle"}
      BY <1>1, <2>1, Zenon DEF Steps
    <3> QED BY <1>2, <1>5, <2>1, <3>1, GotoFields, SMTT(30)
  <2>2. CASE actor[a].mode # "fresh"
    <3>1. Idle.pc = "idle"
      BY Zenon DEF Idle
    <3>2. actor' = [actor EXCEPT ![a] = Idle]
      BY <1>1, <2>2, Zenon DEF Finish
    <3> HIDE DEF Idle
    <3> QED BY <3>1, <3>2, Zenon
  <2> QED BY <2>1, <2>2
<1>7. PICK n \in Working \cup {Idle} :
        /\ actor' = [actor EXCEPT ![a] = n]
        /\ \/ n.pc = "idle"
           \/ n.pc = "releasing" /\ n.i = i /\ n.mode = "fresh" /\ n.resv = Needs(i)
  BY <1>6, Zenon
<1> HIDE DEF r
<1>8. /\ \A j \in Intents : row'[j] = IF j = i THEN r ELSE row[j]
      /\ \A b \in Actors : actor'[b] = IF b = a THEN n ELSE actor[b]
  BY <1>1, <1>4, <1>7, Zenon DEF Inv, TypeOK
<1>9. /\ r.state # "claimed" /\ n.pc # "claiming"
      /\ n.pc \notin {"claimed", "failed", "sent"}
      /\ n.pc \notin {"claiming", "claimed", "failed", "sent"}
      /\ n.pc \in {"reserving", "releasing"} => n.pc # "idle"
  BY <1>4, <1>7, Zenon
<1>10. ASSUME NEW b \in Actors, NEW j \in Intents, Attempting(b, j)'
       PROVE  b # a /\ Attempting(b, j) /\ actor'[b] = actor[b]
  BY <1>8, <1>9, <1>10, Zenon DEF Attempting
<1>11. Timely'
  <2> SUFFICES ASSUME NEW b \in Actors, NEW j \in Intents, OwnsClaim(row'[j], b),
                      row'[j].expired = TRUE, Attempting(b, j)'
               PROVE  FALSE
    BY Zenon DEF Timely
  <2>1. j # i
    BY <1>8, <1>9, Zenon DEF OwnsClaim
  <2> QED BY <2>1, <1>8, <1>10, Zenon DEF Ledger, Timely
<1>12. RowHeld'
  <2> SUFFICES ASSUME NEW j \in Intents
               PROVE  row'[j].resv = IF row'[j].state = "ready" THEN {} ELSE Needs(j)
    BY Zenon DEF RowHeld, Needs
  <2>1. CASE j = i
    BY <2>1, <1>4, <1>8, Zenon
  <2>2. CASE j # i
    BY <2>2, <1>8, Zenon DEF Ledger, RowHeld
  <2> QED BY <2>1, <2>2
<1>13. ActorHeld'
  <2> SUFFICES ASSUME NEW b \in Actors PROVE LocalsOK(actor'[b])
    BY Zenon DEF ActorHeld, LocalsOK, Needs
  <2>1. LocalsOK(n)
    BY <1>7, <1>9, Zenon DEF LocalsOK
  <2> QED BY <1>8, <2>1, Zenon DEF Ledger, ActorHeld
<1>14. Resuming'
  <2> SUFFICES ASSUME NEW b \in Actors, actor'[b].pc = "claiming",
                      actor'[b].mode # "fresh"
               PROVE  Begun(actor[b].i)'
    BY Zenon DEF Resuming
  <2>1. actor'[b] = actor[b] /\ actor[b].pc = "claiming" /\ actor[b].pc # "idle"
    BY <1>8, <1>9, Zenon
  <2>2. PICK j \in Intents : j = actor[b].i
    BY <2>1, Busy, Zenon
  <2>3. Begun(j)
    BY <2>1, <2>2, Zenon DEF Ledger, Resuming
  <2>4. j # i
    BY <1>1, <1>2, <1>5, <2>3, Zenon DEF Begun
  <2>5. row'[j] = row[j]
    BY <1>8, <2>4, Zenon
  <2>6. ASSUME NEW c \in Actors, Attempting(c, j)', OwnsClaim(row'[j], c)
        PROVE  ~First(c)'
    BY <1>10, <2>3, <2>5, <2>6, Zenon DEF Begun, First
  <2>7. Begun(j)'
    BY <2>3, <2>5, <2>6, Zenon DEF Begun
  <2>8. actor'[b].i = j
    BY <2>1, <2>2, Zenon
  <2> QED BY <2>7, <2>8, Zenon DEF Begun, Attempting
<1>15. ASSUME NEW w \in Windows
       PROVE  /\ Charges(w)' \in SUBSET (Holders \X Intents)
              /\ Total(Charges(w)', w) <= Total(Charges(w), w)
  <2> DEFINE k == <<a, i>>
             d == <<Nobody, i>>
  <2>1. ASSUME NEW c \in Charges(w)'
        PROVE  /\ c \in Holders \X Intents /\ c # d
               /\ c # k => c \in Charges(w)
               /\ c = k => w \in Needs(i)
    <3>1. /\ c \in Holders \X Intents /\ c = <<c[1], c[2]>> /\ c[2] \in Intents
          /\ c[1] = Nobody => w \in row'[c[2]].resv
          /\ c[1] = a => w \in Purse(n) /\ n.i = c[2]
          /\ c[1] # Nobody /\ c[1] # a => c \in Charges(w)
      BY <1>7, <2>1, ChargesOf, Zenon
    <3>2. c[1] = Nobody => c # d /\ c \in Charges(w)
      <4> SUFFICES ASSUME c[1] = Nobody PROVE c # d /\ c \in Charges(w)
        OBVIOUS
      <4>1. c[2] # i
        BY <1>4, <1>8, <3>1, Zenon
      <4>2. w \in row[c[2]].resv
        BY <1>8, <3>1, <4>1, Zenon
      <4>3. d[2] = i
        BY Zenon
      <4> QED BY <3>1, <4>1, <4>2, <4>3, ChargesType, SMTT(30)
    <3>3. c[1] = a => c = k /\ w \in Needs(i)
      <4> SUFFICES ASSUME c[1] = a PROVE c = k /\ w \in Needs(i)
        OBVIOUS
      <4>1. n.pc # "idle"
        <5>1. n.pc = "idle" => n.pc \notin {"reserving", "claiming", "releasing"}
          BY Zenon
        <5> QED BY <3>1, <5>1, Zenon DEF Purse
      <4>2. Purse(n) \subseteq Needs(i) /\ n.i = i
        BY <1>7, <4>1, Zenon DEF Purse
      <4> QED BY <3>1, <4>2, Zenon
    <3>4. c = d => c[1] = Nobody
      BY SMTT(30)
    <3>5. c = k => c[1] = a
      BY SMTT(30)
    <3> HIDE DEF k, d
    <3> QED BY <3>1, <3>2, <3>3, <3>4, <3>5, Zenon
  <2>2. PICK R : R = Charges(w)'
    BY Zenon
  <2>3. k \in Holders \X Intents /\ d \in Holders \X Intents /\ k[2] = i /\ d[2] = i
    BY <1>3, Zenon DEF Holders
  <2>4. Charges(w) \in SUBSET (Holders \X Intents)
    BY ChargesType, Zenon
  <2>5. CASE w \in Needs(i)
    <3>1. row[i].state # "ready"
      BY <1>1, Zenon DEF OwnsClaim
    <3>2. d \in Charges(w)
      BY <1>3, <2>5, <3>1, ChargesType, SMTT(30) DEF Ledger, RowHeld
    <3> HIDE DEF k, d
    <3>3. R \in SUBSET ((Charges(w) \ {d}) \cup {k})
      BY <2>1, <2>2, Zenon
    <3>4. Total(R, w) <= Total(Charges(w), w)
      BY <2>3, <2>4, <3>2, <3>3, TotalHands, Zenon
    <3> QED BY <2>1, <2>2, <3>4, Zenon
  <2>6. CASE w \notin Needs(i)
    <3> HIDE DEF k, d
    <3>1. R \in SUBSET Charges(w)
      BY <2>1, <2>2, <2>6, ZenonT(40)
    <3>2. Total(R, w) <= Total(Charges(w), w)
      BY <2>4, <3>1, TotalMono, ZenonT(40)
    <3> QED BY <2>1, <2>2, <3>2, Zenon
  <2> QED BY <2>5, <2>6
<1>16. Books'
  BY <1>1, <1>15, BooksSame, ZenonT(40) DEF Ledger
<1> QED BY <1>11, <1>12, <1>13, <1>14, <1>16, ZenonT(40) DEF Ledger

-----------------------------------------------------------------------------
(* The ledger, action by action *)

\* An attempt to be resumed left its reservations in the row, and as leases
\* run out in time nobody is still at it.
LEMMA ResumableIsBegun ==
  ASSUME Inv, Ledger, NEW i \in Intents, Resumable(row[i])
  PROVE  Begun(i) /\ row[i].resv = Needs(i)
<1>1. row[i].state # "ready"
  BY Zenon DEF Resumable
<1>2. ASSUME NEW a \in Actors, Attempting(a, i), OwnsClaim(row[i], a)
      PROVE  ~First(a)
  <2>1. row[i].state # "unknown"
    BY <1>2, Zenon DEF OwnsClaim
  <2>2. row[i].expired = TRUE
    <3>1. row[i] \in Row
      BY Zenon DEF Inv, TypeOK
    <3>2. row[i].expired \in BOOLEAN
      BY <3>1, Zenon DEF Row
    <3> QED BY <2>1, <3>2, Zenon DEF Resumable
  <2> QED BY <1>2, <2>2, Zenon DEF Ledger, Timely
<1> QED BY <1>1, <1>2, Zenon DEF Begun, Ledger, RowHeld

\* An actor that takes an intent up.
LEMMA StartLedger ==
  ASSUME Inv, TypeOK', Ledger, NEW a \in Actors, NEW i \in Intents, NEW v,
         NEW pc, NEW mode, NEW s,
         actor' = [actor EXCEPT ![a] = Start(pc, i, v, mode, s)],
         \/ pc = "reserving" /\ mode = "fresh" /\ s = {}
         \/ pc = "claiming" /\ mode # "fresh" /\ Begun(i) /\ s = Needs(i)
         \/ pc = "looking",
         UNCHANGED <<row, usage>>
  PROVE  Ledger'
<1> DEFINE n == Start(pc, i, v, mode, s)
<1>1. n.pc = pc /\ n.i = i /\ n.mode = mode /\ n.resv = s
  BY Zenon DEF Start
<1>2. actor' = [actor EXCEPT ![a] = n]
  BY Zenon
<1> HIDE DEF n
<1>3. CASE pc = "reserving" /\ mode = "fresh" /\ s = {}
  <2>1. /\ n.pc \notin {"claiming", "claimed", "failed", "sent"} /\ n.pc # "claiming"
        /\ n.pc \notin {"claimed", "failed", "sent"}
    BY <1>1, <1>3, Zenon
  <2>2. Purse(n) = {} /\ n.resv \subseteq Needs(n.i)
    BY <1>1, <1>3, Zenon DEF Purse
  <2>3. CalmActor(actor[a], n) /\ Lightened(actor[a], n)
    BY <1>1, <1>3, <2>1, <2>2, ZenonT(40) DEF CalmActor, Lightened, LocalsOK
  <2> QED BY <1>2, <2>3, CalmMove, Zenon
<1>4. CASE pc = "claiming" /\ mode # "fresh" /\ Begun(i) /\ s = Needs(i)
  <2>1. /\ n.pc \notin {"reserving", "releasing"}
        /\ n.pc \notin {"claimed", "failed", "sent"}
    BY <1>1, <1>4, Zenon
  <2>2. Purse(n) = {}
    BY <1>1, <1>4, Zenon DEF Purse
  <2>3. CalmActor(actor[a], n) /\ Lightened(actor[a], n)
    BY <1>1, <1>4, <2>1, <2>2, ZenonT(40) DEF CalmActor, Lightened, LocalsOK
  <2> QED BY <1>2, <2>3, CalmMove, Zenon
<1>5. CASE pc = "looking"
  <2>1. n.pc \in {"idle", "looking", "persisting", "completing"}
    BY <1>1, <1>5, Zenon
  <2>2. CalmActor(actor[a], n) /\ Lightened(actor[a], n)
    BY <2>1, DoneActor, SMTT(30)
  <2> QED BY <1>2, <2>2, CalmMove, Zenon
<1> QED BY <1>3, <1>4, <1>5

\* What only requests do.
LEMMA RequestLedger ==
  ASSUME Inv, TypeOK', Ledger, NEW a \in Actors, RequestSteps(a)
  PROVE  Ledger'
<1>1. ASSUME NEW i \in Intents, NEW v \in Variants, Begin(a, i, v)
      PROVE  Ledger'
  <2>1. UNCHANGED <<row, usage>>
    BY <1>1, Zenon DEF Begin
  <2>2. CASE i \in External /\ HoldsFor(row[i], v)
    <3>1. actor' = [actor EXCEPT ![a] = Start("claiming", i, v, "held", row[i].resv)]
      BY <1>1, <2>2, Zenon DEF Begin
    <3>2. Begun(i) /\ row[i].resv = Needs(i)
      BY <2>2, ResumableIsBegun, Zenon DEF HoldsFor
    <3>3. "held" # "fresh"
      BY Zenon
    <3> QED BY <2>1, <3>1, <3>2, <3>3, StartLedger, ZenonT(40)
  <2>3. CASE ~(i \in External /\ HoldsFor(row[i], v))
    <3>1. actor' = [actor EXCEPT ![a] = Start("reserving", i, v, "fresh", {})]
      BY <1>1, <2>3, Zenon DEF Begin
    <3> QED BY <2>1, <3>1, StartLedger, Zenon
  <2> QED BY <2>2, <2>3
<1>2. ASSUME actor[a].pc = "reserving", Goto(a, "releasing"), UNCHANGED <<row, usage>>
      PROVE  Ledger'
  <2>1. /\ actor[a].pc \in {"reserving", "claiming"} /\ actor[a].mode = "fresh"
        /\ "releasing" \in {"claiming", "releasing"} /\ "releasing" # "claiming"
    <3>1. actor[a].mode = "fresh"
      BY <1>2, Zenon DEF Ledger, ActorHeld, LocalsOK
    <3> QED BY <1>2, <3>1, Zenon
  <2> QED BY <1>2, <2>1, PurseLedger, Zenon
<1>3. ASSUME NEW w \in Windows, ReserveLost(a, w)
      PROVE  Ledger'
  BY <1>2, <1>3, Zenon DEF ReserveLost, At
<1>4. ASSUME Reserved(a)
      PROVE  Ledger'
  <2>1. /\ actor[a].pc = "reserving" /\ Unreserved(a) = {} /\ Goto(a, "claiming")
        /\ UNCHANGED <<row, usage>>
    BY <1>4, Zenon DEF Reserved, At
  <2>2. actor[a].mode = "fresh" /\ actor[a].resv \subseteq Needs(actor[a].i)
    BY <2>1, Zenon DEF Ledger, ActorHeld, LocalsOK
  <2>3. actor[a].resv = Needs(actor[a].i)
    BY <2>1, <2>2, Zenon DEF Unreserved, Needs
  <2>4. actor[a].pc \in {"reserving", "claiming"}
    BY <2>1, Zenon
  <2> QED BY <2>1, <2>2, <2>3, <2>4, PurseLedger, ZenonT(40)
<1>5. ASSUME Released(a)
      PROVE  Ledger'
  BY <1>5, IdleLedger, Zenon DEF Released
<1>6. ASSUME CheckFails(a)
      PROVE  Ledger'
  BY <1>6, CalledLedger, Zenon DEF CheckFails, At
<1>7. ASSUME ChildKnown(a)
      PROVE  Ledger'
  BY <1>7, CalledLedger, Zenon DEF ChildKnown, At
<1> QED BY <1>1, <1>3, <1>4, <1>5, <1>6, <1>7, ReserveLedger, ReleaseLedger,
           ZenonT(40) DEF RequestSteps

\* A row is settled and its transaction saved next.
LEMMA AcceptLedger ==
  ASSUME Inv, TypeOK', Ledger, NEW a \in Actors, actor[a].pc # "idle",
         row[actor[a].i].state # "ready",
         SetRow(actor[a].i, Accepted(row[actor[a].i])),
         NEW ok \in BOOLEAN,
         actor' = [actor EXCEPT ![a].pc = "persisting", ![a].ok = ok],
         UNCHANGED usage
  PROVE  Ledger'
<1> DEFINE i == actor[a].i
           r == Accepted(row[i])
           n == [actor[a] EXCEPT !.pc = "persisting", !.ok = ok]
<1>1. actor[a] \in Working /\ i \in Intents /\ row[i] \in Row
  BY Busy, Zenon
<1>2. n.pc = "persisting"
  BY <1>1, Zenon DEF Working
<1>3. r.resv = row[i].resv /\ r.state = "accepted"
  BY <1>1, RowResv, Zenon
<1>4. row' = [row EXCEPT ![i] = r] /\ actor' = [actor EXCEPT ![a] = n]
  BY Zenon DEF SetRow
<1> HIDE DEF r, n
<1>5. CalmActor(actor[a], n) /\ Lightened(actor[a], n)
  BY <1>2, DoneActor, SMTT(30)
<1>6. CalmRow(i, row[i], r)
  BY <1>1, <1>3, SettledRow, Zenon
<1> QED BY <1>1, <1>4, <1>5, <1>6, CalmWrite, ZenonT(40)

\* A row is left open, completed or as it is by an actor that goes idle.
LEMMA LeaveLedger ==
  ASSUME Inv, TypeOK', Ledger, NEW a \in Actors, actor[a].pc # "idle",
         NEW r, SetRow(actor[a].i, r), Finish(a), UNCHANGED usage,
         \/ r = row[actor[a].i]
         \/ /\ row[actor[a].i].state # "ready" /\ r.resv = row[actor[a].i].resv
            /\ r.state \in {"unknown", "complete"}
  PROVE  Ledger'
<1>1. actor[a].i \in Intents
  BY Busy, Zenon
<1>2. CalmActor(actor[a], Idle) /\ Lightened(actor[a], Idle)
  <2>1. Idle.pc = "idle"
    BY Zenon DEF Idle
  <2> HIDE DEF Idle
  <2> QED BY <2>1, DoneActor, SMTT(30)
<1>3. row' = [row EXCEPT ![actor[a].i] = r] /\ actor' = [actor EXCEPT ![a] = Idle]
  BY Zenon DEF SetRow, Finish
<1>4. r = row[actor[a].i] \/ CalmRow(actor[a].i, row[actor[a].i], r)
  <2>1. r.state \in {"unknown", "complete"} =>
          r.state \in {"unknown", "accepted", "complete"}
    BY Zenon
  <2> QED BY <1>1, <2>1, SettledRow, Zenon
<1> HIDE DEF Idle
<1> QED BY <1>1, <1>2, <1>3, <1>4, CalmWrite, ZenonT(40)

\* What only reconcilers do.
LEMMA ReconcilerLedger ==
  ASSUME Inv, TypeOK', Ledger, NEW a \in Actors, ReconcilerSteps(a)
  PROVE  Ledger'
<1>1. ASSUME NEW i \in Intents, List(a, i)
      PROVE  Ledger'
  <2>1. UNCHANGED <<row, usage>> /\ ForReconciliation(row[i])
    BY <1>1, Zenon DEF List
  <2>2. CASE row[i].state = "accepted"
    <3> DEFINE n == [Start("persisting", i, row[i].raw, "reconcile", {}) EXCEPT !.ok = TRUE]
    <3>1. actor' = [actor EXCEPT ![a] = n]
      BY <1>1, <2>2, Zenon DEF List
    <3>2. n.pc = "persisting"
      BY Zenon DEF Start
    <3> HIDE DEF n
    <3>3. CalmActor(actor[a], n) /\ Lightened(actor[a], n)
      BY <3>2, DoneActor, SMTT(30)
    <3> QED BY <2>1, <3>1, <3>3, CalmMove, Zenon
  <2>3. CASE row[i].state # "accepted"
    <3>1. actor' = [actor EXCEPT ![a] =
                      Start("claiming", i, row[i].raw, "reconcile", row[i].resv)]
      BY <1>1, <2>3, Zenon DEF List
    <3>2. Resumable(row[i])
      BY <2>1, <2>3, Zenon DEF ForReconciliation, Resumable
    <3>3. Begun(i) /\ row[i].resv = Needs(i)
      BY <3>2, ResumableIsBegun, Zenon
    <3>4. "reconcile" # "fresh"
      BY Zenon
    <3> QED BY <2>1, <3>1, <3>3, <3>4, StartLedger, ZenonT(40)
  <2> QED BY <2>2, <2>3
<1>2. ASSUME NEW i \in Intents, ListStalled(a, i)
      PROVE  Ledger'
  BY <1>2, StartLedger, Zenon DEF ListStalled
<1>3. ASSUME LookupHit(a)
      PROVE  Ledger'
  <2>1. actor[a].pc = "claimed" /\ UNCHANGED usage
    BY <1>3, Zenon DEF LookupHit, At
  <2>2. actor[a].pc # "idle"
    BY <2>1, Zenon
  <2>3. CASE Holds(a)
    <3>1. row[actor[a].i].state # "ready"
      BY <2>3, Zenon DEF Holds, OwnsClaim
    <3>2. /\ SetRow(actor[a].i, Accepted(row[actor[a].i]))
          /\ actor' = [actor EXCEPT ![a].pc = "persisting", ![a].ok = TRUE]
      BY <1>3, <2>3, Zenon DEF LookupHit
    <3> QED BY <2>1, <2>2, <3>1, <3>2, AcceptLedger, ZenonT(40)
  <2>4. CASE ~Holds(a)
    BY <1>3, <2>1, <2>4, IdleLedger, ZenonT(40) DEF LookupHit
  <2> QED BY <2>3, <2>4
<1>4. ASSUME Withhold(a)
      PROVE  Ledger'
  <2> DEFINE i == actor[a].i
             r == IF Holds(a) THEN Withheld(row[i]) ELSE row[i]
  <2>1. actor[a].pc = "claimed" /\ Finish(a) /\ SetRow(i, r) /\ UNCHANGED usage
    BY <1>4, Zenon DEF Withhold, At
  <2>2. actor[a].pc # "idle"
    BY <2>1, Zenon
  <2>3. row[i] \in Row
    BY <2>2, Busy, Zenon
  <2>4. \/ r = row[i]
        \/ /\ row[i].state # "ready" /\ r.resv = row[i].resv
           /\ r.state \in {"unknown", "complete"}
    <3>1. Holds(a) => row[i].state # "ready"
      BY Zenon DEF Holds, OwnsClaim
    <3>2. Withheld(row[i]).resv = row[i].resv /\ Withheld(row[i]).state = "unknown"
      BY <2>3, RowResv, Zenon
    <3> QED BY <3>1, <3>2, Zenon
  <2> HIDE DEF r
  <2> QED BY <2>1, <2>2, <2>4, LeaveLedger, ZenonT(40)
<1>5. ASSUME StalledFound(a)
      PROVE  Ledger'
  <2>1. actor[a].pc = "looking" /\ UNCHANGED usage
    BY <1>5, Zenon DEF StalledFound, At
  <2>2. actor[a].pc # "idle"
    BY <2>1, Zenon
  <2>3. CASE Stalled(row[actor[a].i]) /\ SameTxid(row[actor[a].i].raw, actor[a].v)
    <3>1. row[actor[a].i].state # "ready"
      BY <2>3, Zenon DEF Stalled
    <3>2. /\ SetRow(actor[a].i, Accepted(row[actor[a].i]))
          /\ actor' = [actor EXCEPT ![a].pc = "persisting", ![a].ok = TRUE]
      BY <1>5, <2>3, Zenon DEF StalledFound
    <3> QED BY <2>1, <2>2, <3>1, <3>2, AcceptLedger, ZenonT(40)
  <2>4. CASE ~(Stalled(row[actor[a].i]) /\ SameTxid(row[actor[a].i].raw, actor[a].v))
    BY <1>5, <2>1, <2>4, IdleLedger, Zenon DEF StalledFound
  <2> QED BY <2>3, <2>4
<1>6. ASSUME StalledMissed(a)
      PROVE  Ledger'
  BY <1>6, IdleLedger, Zenon DEF StalledMissed
<1> QED BY <1>1, <1>2, <1>3, <1>4, <1>5, <1>6, ZenonT(40) DEF ReconcilerSteps

\* A failure that leaves the row open, or comes too late to write it.
LEMMA FailureLedger ==
  ASSUME Inv, TypeOK', Ledger, NEW a \in Actors, RecordFailure(a)
  PROVE  Ledger'
<1> DEFINE i == actor[a].i
           r == IF Holds(a) THEN AfterFailure(a, row[i]) ELSE row[i]
<1>1. CASE Holds(a) /\ actor[a].why = "definite"
  BY <1>1, RejectLedger, Zenon
<1>2. CASE ~(Holds(a) /\ actor[a].why = "definite")
  <2>1. actor[a].pc = "failed" /\ Finish(a) /\ SetRow(i, r) /\ UNCHANGED usage
    BY <1>2, Zenon DEF RecordFailure, At
  <2>2. actor[a].pc # "idle"
    BY <2>1, Zenon
  <2>3. row[i] \in Row
    BY <2>2, Busy, Zenon
  <2>4. \/ r = row[i]
        \/ /\ row[i].state # "ready" /\ r.resv = row[i].resv
           /\ r.state \in {"unknown", "complete"}
    <3>1. Holds(a) => row[i].state # "ready"
      BY Zenon DEF Holds, OwnsClaim
    <3>2. Holds(a) => \/ r = ReleasedToUnknown(row[i])
                      \/ \E c \in BOOLEAN : r = MarkedUnknown(row[i], c)
      <4>1. (actor[a].why = "answered") \in BOOLEAN
        BY Zenon
      <4> QED BY <1>2, <4>1, Zenon DEF AfterFailure
    <3>3. ~Holds(a) => r = row[i]
      BY Zenon
    <3> HIDE DEF r
    <3> QED BY <2>3, <3>1, <3>2, <3>3, RowResv, SMTT(30)
  <2> HIDE DEF r
  <2> QED BY <2>1, <2>2, <2>4, LeaveLedger, ZenonT(40)
<1> QED BY <1>1, <1>2

\* What requests and reconcilers both do.
LEMMA OwnLedger ==
  ASSUME Inv, TypeOK', Ledger, NEW a \in Actors, AttemptSteps(a)
  PROVE  Ledger'
<1>1. ASSUME ClaimRefused(a)
      PROVE  Ledger'
  <2>1. /\ actor[a].pc = "claiming" /\ actor' = [actor EXCEPT ![a] = AfterRefusal(a)]
        /\ UNCHANGED <<row, usage>>
    BY <1>1, Zenon DEF ClaimRefused, At
  <2>2. CASE actor[a].mode = "fresh"
    <3>1. Goto(a, "releasing")
      BY <2>1, <2>2, Zenon DEF AfterRefusal, Goto
    <3>2. /\ actor[a].pc \in {"reserving", "claiming"}
          /\ "releasing" \in {"claiming", "releasing"} /\ "releasing" # "claiming"
      BY <2>1, Zenon
    <3> QED BY <2>1, <2>2, <3>1, <3>2, PurseLedger, ZenonT(40)
  <2>3. CASE actor[a].mode # "fresh"
    <3>1. Finish(a)
      BY <2>1, <2>3, Zenon DEF AfterRefusal, Finish
    <3> QED BY <2>1, <3>1, IdleLedger, Zenon
  <2> QED BY <2>2, <2>3
<1>2. ASSUME AlreadyAccepted(a)
      PROVE  Ledger'
  BY <1>2, IdleLedger, Zenon DEF AlreadyAccepted
<1>3. ASSUME NodeAccepts(a)
      PROVE  Ledger'
  BY <1>3, CalledLedger, Zenon DEF NodeAccepts, At
<1>4. ASSUME NodeRefuses(a)
      PROVE  Ledger'
  <2>1. PICK why \in Refusals(a) : Fail(a, why)
    BY <1>4, Zenon DEF NodeRefuses
  <2>2. why \in {"definite", "answered", "unanswered"}
    BY <2>1, Zenon DEF Refusals
  <2> QED BY <1>4, <2>1, <2>2, CalledLedger, ZenonT(40) DEF NodeRefuses, At
<1>5. ASSUME MarkAccepted(a)
      PROVE  Ledger'
  <2>1. /\ actor[a].pc = "sent" /\ UNCHANGED usage
        /\ SetRow(actor[a].i,
                  IF Holds(a) THEN Accepted(row[actor[a].i]) ELSE row[actor[a].i])
        /\ Finish(a) \/ actor' = [actor EXCEPT ![a].pc = "persisting",
                                               ![a].ok = Holds(a)]
        /\ Holds(a) => actor' = [actor EXCEPT ![a].pc = "persisting",
                                              ![a].ok = Holds(a)]
    BY <1>5, Zenon DEF MarkAccepted, At
  <2>2. actor[a].pc # "idle"
    BY <2>1, Zenon
  <2>3. actor[a].i \in Intents /\ actor[a] \in Working
    BY <2>2, Busy, Zenon
  <2>4. Holds(a) \in BOOLEAN
    BY Zenon DEF Holds, OwnsClaim
  <2>5. CASE Holds(a)
    <3>1. row[actor[a].i].state # "ready"
      BY <2>5, Zenon DEF Holds, OwnsClaim
    <3>2. SetRow(actor[a].i, Accepted(row[actor[a].i]))
      BY <2>1, <2>5, Zenon
    <3> QED BY <2>1, <2>2, <2>4, <2>5, <3>1, <3>2, AcceptLedger, ZenonT(40)
  <2>6. CASE ~Holds(a)
    <3>1. UNCHANGED row
      <4>1. SetRow(actor[a].i, row[actor[a].i])
        BY <2>1, <2>6, Zenon
      <4> QED BY <2>2, <4>1, KeepStep, Zenon
    <3>2. CASE Finish(a)
      BY <2>1, <3>1, <3>2, IdleLedger, Zenon
    <3>3. CASE actor' = [actor EXCEPT ![a].pc = "persisting", ![a].ok = Holds(a)]
      <4> DEFINE n == [actor[a] EXCEPT !.pc = "persisting", !.ok = Holds(a)]
      <4>1. n.pc = "persisting"
        BY <2>3, Zenon DEF Working
      <4>2. actor' = [actor EXCEPT ![a] = n]
        BY <3>3, Zenon
      <4> HIDE DEF n
      <4>3. CalmActor(actor[a], n) /\ Lightened(actor[a], n)
        BY <4>1, DoneActor, SMTT(30)
      <4> QED BY <2>1, <3>1, <4>2, <4>3, CalmMove, ZenonT(40)
    <3> QED BY <2>1, <3>2, <3>3
  <2> QED BY <2>5, <2>6
<1>6. ASSUME Persist(a)
      PROVE  Ledger'
  <2>1. /\ actor[a].pc = "persisting" /\ UNCHANGED <<row, usage>>
        /\ Goto(a, "completing") \/ Finish(a)
    BY <1>6, Zenon DEF Persist, At
  <2>2. actor[a].pc # "idle"
    BY <2>1, Zenon
  <2> QED BY <2>1, <2>2, DoneLedger, IdleLedger, Zenon
<1>7. ASSUME Complete(a)
      PROVE  Ledger'
  <2> DEFINE i == actor[a].i
             r == IF CanComplete(row[i], actor[a].v) THEN Completed(row[i]) ELSE row[i]
  <2>1. actor[a].pc = "completing" /\ Finish(a) /\ SetRow(i, r) /\ UNCHANGED usage
    BY <1>7, Zenon DEF Complete, At
  <2>2. actor[a].pc # "idle"
    BY <2>1, Zenon
  <2>3. row[i] \in Row
    BY <2>2, Busy, Zenon
  <2>4. \/ r = row[i]
        \/ /\ row[i].state # "ready" /\ r.resv = row[i].resv
           /\ r.state \in {"unknown", "complete"}
    <3>1. CanComplete(row[i], actor[a].v) => row[i].state # "ready"
      BY Zenon DEF CanComplete
    <3>2. Completed(row[i]).resv = row[i].resv /\ Completed(row[i]).state = "complete"
      BY <2>3, RowResv, Zenon
    <3> QED BY <3>1, <3>2, Zenon
  <2> HIDE DEF r
  <2> QED BY <2>1, <2>2, <2>4, LeaveLedger, Zenon
<1> QED BY <1>1, <1>2, <1>3, <1>4, <1>5, <1>6, <1>7, ClaimLedger, FailureLedger,
           Zenon DEF AttemptSteps

\* Lost answers, failed statements and crashes.
LEMMA FaultLedger ==
  ASSUME Inv, TypeOK', Ledger, NEW a \in Actors, Faults(a)
  PROVE  Ledger'
<1>1. ASSUME ReplyLost(a) \/ SubmissionDelayed(a)
      PROVE  Ledger'
  BY <1>1, CalledLedger, Zenon DEF ReplyLost, SubmissionDelayed, At
<1>2. ASSUME ReserveFails(a)
      PROVE  Ledger'
  <2>1. actor[a].pc = "reserving" /\ Goto(a, "releasing") /\ UNCHANGED <<row, usage>>
    BY <1>2, Zenon DEF ReserveFails, At
  <2>2. /\ actor[a].pc \in {"reserving", "claiming"} /\ actor[a].mode = "fresh"
        /\ "releasing" \in {"claiming", "releasing"} /\ "releasing" # "claiming"
    <3>1. actor[a].mode = "fresh"
      BY <2>1, Zenon DEF Ledger, ActorHeld, LocalsOK
    <3> QED BY <2>1, <3>1, Zenon
  <2> QED BY <2>1, <2>2, PurseLedger, Zenon
<1>3. ASSUME NEW w \in Windows, ReleaseFails(a, w)
      PROVE  Ledger'
  <2> DEFINE n == [actor[a] EXCEPT !.resv = actor[a].resv \ {w}]
  <2>1. /\ actor[a].pc = "releasing" /\ UNCHANGED <<row, usage>>
        /\ actor' = [actor EXCEPT ![a] = n]
    BY <1>3, Zenon DEF ReleaseFails, At
  <2>2. /\ actor[a].pc # "idle"
        /\ actor[a].pc \in {"reserving", "claiming", "releasing"}
    BY <2>1, Zenon
  <2>3. actor[a] \in Working
    BY <2>2, Busy, Zenon
  <2>4. /\ n.pc = actor[a].pc /\ n.i = actor[a].i /\ n.mode = actor[a].mode
        /\ n.resv = actor[a].resv \ {w}
    BY <2>3, ZenonT(30) DEF Working
  <2>5. actor[a].mode = "fresh" /\ actor[a].resv \subseteq Needs(actor[a].i)
    BY <2>1, Zenon DEF Ledger, ActorHeld, LocalsOK
  <2> HIDE DEF n
  <2>6. /\ n.pc \in {"reserving", "releasing"} /\ n.resv \subseteq Needs(actor[a].i)
        /\ n.resv \subseteq actor[a].resv
    BY <2>1, <2>4, <2>5, Zenon
  <2>7. CalmActor(actor[a], n) /\ Lightened(actor[a], n)
    BY <2>2, <2>4, <2>5, <2>6, PurseActor, SMTT(30)
  <2> QED BY <2>1, <2>7, CalmMove, Zenon
<1>4. ASSUME MarkAcceptedFails(a)
      PROVE  Ledger'
  <2>1. actor[a].pc = "sent" /\ Goto(a, "persisting") /\ UNCHANGED <<row, usage>>
    BY <1>4, Zenon DEF MarkAcceptedFails, At
  <2>2. actor[a].pc # "idle"
    BY <2>1, Zenon
  <2> QED BY <2>1, <2>2, DoneLedger, Zenon
<1>5. ASSUME Abandon(a)
      PROVE  Ledger'
  BY <1>5, IdleLedger, Zenon DEF Abandon
<1> QED BY <1>1, <1>2, <1>3, <1>4, <1>5, ZenonT(40) DEF Faults

\* Time, the network and payjoin negotiation, as long as no lease runs out
\* under its attempt.
LEMMA EnvironmentLedger ==
  ASSUME Inv, TypeOK', Ledger, Environment, \A i \in Intents : ~Overrun(i)
  PROVE  Ledger'
<1>1. ASSUME CalmRows, UNCHANGED <<usage, actor>>
      PROVE  Ledger'
  BY <1>1, CalmStep, Zenon
<1>2. ASSUME NEW i \in Intents, LeaseExpires(i)
      PROVE  Ledger'
  <2> DEFINE r == [row[i] EXCEPT !.expired = TRUE]
  <2>1. /\ row[i].state = "claimed" /\ row' = [row EXCEPT ![i] = r]
        /\ UNCHANGED <<usage, actor>>
    BY <1>2, Zenon DEF LeaseExpires, SetRow
  <2>2. ~Attempting(row[i].owner, i)
    BY <1>2, Zenon DEF Overrun
  <2>3. r.resv = row[i].resv /\ r.state = row[i].state /\ r.owner = row[i].owner
    <3>1. row[i] \in Row
      BY Zenon DEF Inv, TypeOK
    <3> QED BY <3>1, ZenonT(30) DEF Row
  <2> HIDE DEF r
  <2>4. CalmRow(i, row[i], r)
    BY <2>1, <2>2, <2>3, ZenonT(40) DEF CalmRow
  <2>5. \A j \in Intents : row'[j] = IF j = i THEN r ELSE row[j]
    BY <2>1, Zenon DEF Inv, TypeOK
  <2>6. CalmRows
    BY <2>4, <2>5, Zenon DEF CalmRows
  <2> QED BY <1>1, <2>1, <2>6, ZenonT(40)
<1>3. ASSUME NEW i \in Intents, NEW v \in Variants,
             WireArrives(i, v) \/ WireDrops(i, v)
      PROVE  Ledger'
  <2>1. UNCHANGED <<row, usage, actor>>
    BY <1>3, Zenon DEF WireArrives, WireDrops
  <2> QED BY <1>1, <2>1, Zenon DEF CalmRows
<1>4. ASSUME NEW i \in Intents, NEW r, r.resv = row[i].resv, r.state = "ready",
             row[i].state = "ready"
      PROVE  CalmRow(i, row[i], r)
  <2>1. r.state # "claimed"
    BY <1>4, Zenon
  <2> QED BY <1>4, <2>1, Zenon DEF CalmRow
<1>5. ASSUME NEW i \in Intents, row[i].link # "current"
      PROVE  row[i].state = "ready"
  BY <1>5, Zenon DEF Inv, RowsOK, RowOK
<1>6. ASSUME NEW p \in Pairs, Propose(p[1], p[2])
      PROVE  Ledger'
  <2>1. p[1] \in Intents /\ p[2] \in Intents
    BY PairTypes, Zenon
  <2> DEFINE o == p[1]
             q == p[2]
             r == [row[o] EXCEPT !.link = "superseded"]
             s == InitRow("current")
  <2>2. /\ row[o].state = "ready" /\ row[q].link = "absent"
        /\ row' = [row EXCEPT ![o].link = "superseded", ![q] = s]
        /\ UNCHANGED <<usage, actor>>
    BY <1>6, Zenon DEF Propose, CanPropose
  <2>3. row[q].state = "ready"
    <3>1. row[q].link # "current"
      BY <2>2, Zenon
    <3> QED BY <1>5, <2>1, <3>1, ZenonT(40)
  <2>4. row[q].resv = {}
    BY <2>1, <2>3, ZenonT(40) DEF Ledger, RowHeld
  <2>5. s.resv = {} /\ s.state = "ready"
    BY Zenon DEF InitRow
  <2>6. r.resv = row[o].resv /\ r.state = row[o].state
    <3>1. row[o] \in Row
      BY <2>1, Zenon DEF Inv, TypeOK
    <3> QED BY <3>1, ZenonT(30) DEF Row
  <2>7. CalmRow(o, row[o], r) /\ CalmRow(q, row[q], s)
    <3> HIDE DEF r, s
    <3> QED BY <1>4, <2>1, <2>2, <2>3, <2>4, <2>5, <2>6, ZenonT(40)
  <2>8. \A j \in Intents :
          row'[j] = IF j = q THEN s ELSE IF j = o THEN r ELSE row[j]
    <3>1. row \in [Intents -> Row]
      BY Zenon DEF Inv, TypeOK
    <3> HIDE DEF s
    <3> QED BY <2>1, <2>2, <3>1, ZenonT(30)
  <2> HIDE DEF r, s
  <2>9. CalmRows
    BY <2>7, <2>8, Zenon DEF CalmRows
  <2> QED BY <1>1, <2>2, <2>9, ZenonT(40)
<1>7. ASSUME NEW p \in Pairs, Restore(p[1], p[2])
      PROVE  Ledger'
  <2>1. p[1] \in Intents /\ p[2] \in Intents
    BY PairTypes, Zenon
  <2> DEFINE o == p[1]
             q == p[2]
             r == [row[o] EXCEPT !.link = "current"]
             s == [row[q] EXCEPT !.link = "superseded"]
  <2>2. /\ row[o].link = "superseded" /\ row[q].state = "ready"
        /\ row[q].link = "current"
        /\ row' = [row EXCEPT ![o].link = "current", ![q].link = "superseded"]
        /\ UNCHANGED <<usage, actor>>
    BY <1>7, Zenon DEF Restore, CanRestore
  <2>3. row[o].state = "ready" /\ o # q
    <3>1. row[o].link # "current"
      BY <2>2, Zenon
    <3> QED BY <1>5, <2>1, <2>2, <3>1, ZenonT(40)
  <2>4. /\ r.resv = row[o].resv /\ r.state = row[o].state
        /\ s.resv = row[q].resv /\ s.state = row[q].state
    <3>1. row[o] \in Row /\ row[q] \in Row
      BY <2>1, Zenon DEF Inv, TypeOK
    <3> QED BY <3>1, ZenonT(30) DEF Row
  <2>5. CalmRow(o, row[o], r) /\ CalmRow(q, row[q], s)
    <3> HIDE DEF r, s
    <3> QED BY <1>4, <2>1, <2>2, <2>3, <2>4, ZenonT(40)
  <2>6. \A j \in Intents :
          row'[j] = IF j = q THEN s ELSE IF j = o THEN r ELSE row[j]
    <3>1. row \in [Intents -> Row]
      BY Zenon DEF Inv, TypeOK
    <3> QED BY <2>1, <2>2, <2>3, <3>1, ZenonT(30)
  <2> HIDE DEF r, s
  <2>7. CalmRows
    BY <2>5, <2>6, Zenon DEF CalmRows
  <2> QED BY <1>1, <2>2, <2>7, ZenonT(40)
<1> QED BY <1>2, <1>3, <1>6, <1>7, ZenonT(40) DEF Environment

-----------------------------------------------------------------------------
(* The limits hold *)

\* The books open balanced.
LEMMA InitLedger == Init => Ledger
<1> SUFFICES ASSUME Init PROVE Ledger
  OBVIOUS
<1>1. Inv
  BY InitInv, Zenon
<1>2. \A i \in Intents : row[i].state = "ready" /\ row[i].resv = {}
  <2>1. \A i \in Intents : row[i] = InitRow(IF i \in Originals THEN "current" ELSE "absent")
    BY Zenon DEF Init
  <2>2. \A l : InitRow(l).state = "ready" /\ InitRow(l).resv = {}
    BY Zenon DEF InitRow
  <2> QED BY <2>1, <2>2, Zenon
<1>3. ASSUME NEW a \in Actors
      PROVE  /\ actor[a].pc = "idle"
             /\ actor[a].pc \notin {"reserving", "releasing"}
             /\ actor[a].pc \notin {"claiming", "claimed", "failed", "sent"}
             /\ actor[a].pc # "claiming" /\ actor[a].pc \notin {"claimed", "failed", "sent"}
             /\ actor[a].pc \notin {"reserving", "claiming", "releasing"}
  <2>1. Idle.pc = "idle"
    BY Zenon DEF Idle
  <2>2. actor[a] = Idle
    BY Zenon DEF Init
  <2>3. actor[a].pc = "idle"
    BY <2>1, <2>2, Zenon
  <2> QED BY <2>3, Zenon
<1>4. Timely /\ RowHeld /\ ActorHeld /\ Resuming
  BY <1>2, <1>3, Zenon DEF Timely, Attempting, RowHeld, ActorHeld, LocalsOK, Resuming
<1>5. Books
  <2> SUFFICES ASSUME NEW w \in Windows
               PROVE  Total(Charges(w), w) <= usage[w] /\ usage[w] <= Limit[w]
    BY Zenon DEF Books
  <2>1. \A a \in Actors : Purse(actor[a]) = {}
    BY <1>3, Zenon DEF Purse
  <2>2. Charges(w) = {}
    BY <1>2, <2>1, Zenon DEF Charges, Holders
  <2>3. Parts({}, w) = {}
    BY Zenon DEF Parts
  <2>4. Total(Charges(w), w) = 0
    BY <2>2, <2>3, FS_EmptySet, Zenon DEF Total
  <2>5. usage[w] = 0 /\ Limit[w] \in Nat
    BY BroadcastAssumption, Zenon DEF Init
  <2> QED BY <2>4, <2>5, SMTT(30)
<1> QED BY <1>4, <1>5, Zenon DEF Ledger

\* A step during which no lease runs out under its attempt keeps them so.
LEMMA NextLedger ==
  ASSUME Inv, Ledger, [Next]_vars, \A i \in Intents : ~Overrun(i)
  PROVE  Ledger'
<1>1. TypeOK'
  BY NextInv, Zenon DEF Inv
<1>2. CASE Next
  BY <1>1, <1>2, RequestLedger, ReconcilerLedger, OwnLedger, FaultLedger,
     EnvironmentLedger, ZenonT(40) DEF Next
<1>3. CASE UNCHANGED vars
  <2>1. UNCHANGED <<row, usage, actor>>
    BY <1>3, Zenon DEF vars
  <2>2. CalmRows
    BY <2>1, Zenon DEF CalmRows
  <2> QED BY <1>1, <2>1, <2>2, CalmStep, ZenonT(40)
<1> QED BY <1>2, <1>3

\* As long as no lease has run out under the attempt that held it, the usage
\* windows count everything that may be on the network, and that stays within
\* the limits, for any number of requests that reserve, release, retry and
\* crash concurrently (reservePolicyUsage, releaseReservationsOnFailure,
\* claimBroadcast, releaseRejectedBroadcast).
THEOREM LimitsHold == ISpec => []LimitsInTime
<1> DEFINE J == Inv /\ (late = TRUE \/ Ledger)
<1>1. IInit => J
  BY InitInv, InitLedger, Zenon DEF IInit
<1>2. J /\ [INext]_ivars => J'
  <2> SUFFICES ASSUME Inv, late = TRUE \/ Ledger, [INext]_ivars
               PROVE  Inv' /\ (late' = TRUE \/ Ledger')
    BY Zenon
  <2>1. [Next]_vars
    BY Zenon DEF INext, ivars, vars
  <2>2. Inv'
    BY <2>1, NextInv, Zenon
  <2>3. CASE late = TRUE \/ \E i \in Intents : Overrun(i)
    <3>1. CASE INext
      <4>1. late' = (late \/ \E i \in Intents : Overrun(i))
        BY <3>1, Zenon DEF INext
      <4>2. (late \/ \E i \in Intents : Overrun(i)) = TRUE
        BY <2>3, Zenon
      <4> QED BY <2>2, <4>1, <4>2, ZenonT(40)
    <3>2. CASE UNCHANGED ivars
      <4>1. late' = late /\ row' = row
        BY <3>2, Zenon DEF ivars, vars
      <4>2. ~(\E i \in Intents : Overrun(i))
        <5> SUFFICES ASSUME NEW i \in Intents, Overrun(i) PROVE FALSE
          BY Zenon
        <5>1. row[i].expired # TRUE /\ row' = [row EXCEPT ![i] = [row[i] EXCEPT !.expired = TRUE]]
          BY Zenon DEF Overrun, LeaseExpires, SetRow
        <5>2. row[i] \in Row /\ row \in [Intents -> Row]
          BY Zenon DEF Inv, TypeOK
        <5>3. row'[i] = [row[i] EXCEPT !.expired = TRUE]
          BY <5>1, <5>2, Zenon
        <5>4. row'[i].expired = TRUE
          BY <5>2, <5>3, Zenon DEF Row
        <5> QED BY <4>1, <5>1, <5>4, Zenon
      <4> QED BY <2>2, <2>3, <4>1, <4>2, Zenon
    <3> QED BY <2>2, <3>1, <3>2, Zenon
  <2>4. CASE ~(late = TRUE \/ \E i \in Intents : Overrun(i))
    BY <2>1, <2>2, <2>4, NextLedger, Zenon
  <2> QED BY <2>2, <2>3, <2>4, Zenon
<1>3. J => LimitsInTime
  <2> SUFFICES ASSUME Inv, Ledger, NEW w \in Windows
               PROVE  usage[w] >= Spent(w) /\ Spent(w) <= Limit[w]
    BY Zenon DEF LimitsInTime, SpendsCounted, LimitRespected
  <2>1. /\ Spent(w) <= Total(Charges(w), w)
        /\ Spent(w) \in Nat /\ Total(Charges(w), w) \in Nat
    BY SpentIsCharged, Zenon DEF Ledger
  <2>2. /\ Total(Charges(w), w) <= usage[w] /\ usage[w] <= Limit[w]
        /\ usage[w] \in Nat /\ Limit[w] \in Nat
    BY BroadcastAssumption, Zenon DEF Ledger, Books, Inv, TypeOK
  <2> QED BY <2>1, <2>2, SMTT(30)
<1> QED BY <1>1, <1>2, <1>3, PTL DEF ISpec
=============================================================================
