------------------------ MODULE SessionRefreshProofs ------------------------
(***************************************************************************)
(* The safety properties of SessionRefresh, for any number of tabs, logins *)
(* and rotations, with and without faults.                                 *)
(*                                                                         *)
(* What the properties rest on is that the Web Lock is held by one refresh *)
(* or by mutations only (Excluded), and that a session that has a stored   *)
(* credential at all has the one in the jar, or the one on its way there   *)
(* (Handed).  A session counts as stored while its rows are there, even if *)
(* its version is outdated: between the two statements of a logout-all the *)
(* server still rotates.                                                   *)
(***************************************************************************)
EXTENDS SessionRefresh, TLAPS

Calm == ~scene.faults

Stored(f) == f \notin tomb /\ \E n \in rows : family[n] = f

\* The types, in parts.
DbTypes ==
  /\ scene \in Scenes
  /\ issued \in Pairs /\ family \in [Pairs -> 0..MaxPairs]
  /\ rows \subseteq 1..issued /\ tomb \subseteq 1..issued
  /\ revoked \subseteq 1..issued /\ outdated \subseteq 1..issued
  /\ wiping \in {"no", "bumped", "done"}
ClockTypes == due \in 0..issued /\ past \in 0..due
TabTypes == tab \in [Tabs -> Tab]
RefTypes == ref \in [Tabs -> Refresh]
ReqTypes == req \in [Tabs -> Request]
PostTypes ==
  /\ post \in [Tabs -> Seq(Nat)]
  /\ \A t \in Tabs : \A i \in DOMAIN post[t] : post[t][i] \in 0..issued
AdriftTypes == adrift \subseteq [kind : {"refresh", "logout"}, pair : Pairs]

\* The database: a pair belongs to a family that began no later, a family has
\* one row, a row's access token is not revoked, and no session is outdated
\* before the logout-all.
Database ==
  /\ \A n \in 1..issued : family[n] \in 1..n
  /\ OneCredential
  /\ rows \cap revoked = {}
  /\ wiping = "no" => outdated = {}

\* The Web Lock
Excluded ==
  \A t, u \in Tabs : Refreshing(t) => ~Sharing(u) /\ (Refreshing(u) => u = t)

\* A refresh carries what is in the jar, and its answer stays right.
RefreshSound(t) ==
  LET r == ref[t] IN
  /\ r.answer # "none" <=> r.pc = "answered"
  /\ r.pair \in 0..issued /\ r.new \in 0..issued
  /\ r.pc \in {"idle", "queued"} => r.pair = 0
  /\ (r.pc = "sent" \/ r.answer \in {"rotated", "terminal"}) => r.pair # 0
  /\ Refreshing(t) /\ r.pair # 0 => jar = r.pair
  /\ r.answer = "terminal" => ~Alive(family[r.pair])
  /\ r.answer = "rotated" => r.new # 0 /\ family[r.new] = family[r.pair]
  /\ Calm /\ r.answer = "rotated" /\ Stored(family[r.new]) => r.new \in rows
  /\ Calm => r.answer # "superseded"

\* A mutation carries a token that is good while its session is.
RequestSound(t) ==
  LET q == req[t] IN
  /\ q.pair \in 0..issued
  /\ Calm /\ Sharing(t) /\ q.pair # 0 /\ Alive(family[q.pair]) => q.pair \notin revoked

\* The credential of a stored session is in the jar or on its way there.
Handed ==
  Calm /\ jar # 0 /\ Stored(family[jar]) =>
    jar \in rows \/ \E t \in Tabs : ref[t].answer = "rotated"

\* What was given up
GivenUp ==
  /\ \A a \in adrift : a.pair \in 1..issued
  /\ Calm => adrift = {}

\* The inductive invariant.
Inv ==
  /\ DbTypes /\ ClockTypes /\ jar \in 0..issued
  /\ TabTypes /\ RefTypes /\ ReqTypes /\ PostTypes /\ AdriftTypes
  /\ Database /\ Excluded /\ Handed /\ GivenUp
  /\ \A t \in Tabs : RefreshSound(t) /\ RequestSound(t)

-----------------------------------------------------------------------------
(* What a step does to the database *)

\* Pairs are only added, what ended stays ended, and no family comes back.
Ages ==
  /\ scene' = scene
  /\ issued <= issued'
  /\ \A n \in 1..issued : family'[n] = family[n]
  /\ tomb \subseteq tomb' /\ outdated \subseteq outdated'
  /\ \A f \in 1..issued : (\E n \in rows' : family'[n] = f) => \E n \in rows : family[n] = f

\* A row goes only with its session, and so does an access token: this is every
\* step but a rotation.
RowsKept == \A n \in rows : n \in rows' \/ ~Stored(family[n])'
TokensKept == \A n \in revoked' \ revoked : ~Alive(family[n])'

\* A rotation replaces the row of its session.
LEMMA RotateDb ==
  ASSUME DbTypes, Database, NEW n, Rotates(n), issued < MaxPairs, Rotate(n)
  PROVE  /\ DbTypes' /\ Database' /\ Ages
         /\ n \in 1..issued /\ issued' = issued + 1
         /\ family'[issued'] = family[n] /\ rows' = (rows \ {n}) \cup {issued'}
<1>1. n \in 1..issued /\ n \in rows /\ family[n] \in 1..n /\ family[n] # 0
  BY SMTT(30) DEF DbTypes, Database, Rotates, Pairs
<1>2. /\ issued' = issued + 1 /\ issued' \in Pairs /\ issued \in Pairs
      /\ family' = [family EXCEPT ![issued + 1] = family[n]]
      /\ rows' = (rows \ {n}) \cup {issued + 1} /\ scene' = scene
      /\ revoked' = revoked \cup {n} /\ tomb' = tomb /\ outdated' = outdated /\ wiping' = wiping
  BY <1>1, SessionAssumption, SMTT(30) DEF Rotate, Issue, DbTypes, Pairs
<1>3. /\ \A m \in 1..issued : family'[m] = family[m]
      /\ family'[issued + 1] = family[n]
  BY <1>2, SessionAssumption, SMTT(30) DEF DbTypes, Pairs
<1>4. DbTypes'
  BY <1>1, <1>2, SessionAssumption, SMTT(30) DEF DbTypes, Pairs
<1>5. Database'
  <2>1. \A m \in 1..issued' : family'[m] \in 1..m
    BY <1>1, <1>2, <1>3, SessionAssumption, SMTT(30) DEF Database, Pairs
  <2>2. OneCredential'
    BY <1>1, <1>2, <1>3, SMTT(30) DEF Database, OneCredential, DbTypes, Pairs
  <2>3. rows' \cap revoked' = {}
    BY <1>1, <1>2, SMTT(30) DEF Database, DbTypes, Pairs
  <2> QED BY <1>2, <2>1, <2>2, <2>3, Zenon DEF Database
<1>6. Ages
  BY <1>1, <1>2, <1>3, SMTT(30) DEF Ages, DbTypes, Pairs
<1> QED BY <1>1, <1>2, <1>3, <1>4, <1>5, <1>6, Zenon

\* A login begins a family of its own.
LEMMA LoginDb ==
  ASSUME DbTypes, Database, issued < MaxPairs, Issue(0, {}),
         UNCHANGED <<tomb, revoked, outdated, wiping>>
  PROVE  /\ DbTypes' /\ Database' /\ Ages /\ RowsKept /\ TokensKept
         /\ issued' = issued + 1 /\ issued' \in rows'
<1>2. /\ issued' = issued + 1 /\ issued' \in Pairs /\ issued \in Pairs
      /\ family' = [family EXCEPT ![issued + 1] = issued + 1]
      /\ rows' = rows \cup {issued + 1} /\ scene' = scene
  BY SessionAssumption, SMTT(30) DEF Issue, DbTypes, Pairs
<1>3. /\ \A m \in 1..issued : family'[m] = family[m]
      /\ family'[issued + 1] = issued + 1
  BY <1>2, SessionAssumption, SMTT(30) DEF DbTypes, Pairs
<1>4. DbTypes'
  BY <1>2, SessionAssumption, SMTT(30) DEF DbTypes, Pairs
<1>5. Database'
  <2>1. \A m \in 1..issued' : family'[m] \in 1..m
    BY <1>2, <1>3, SessionAssumption, SMTT(30) DEF Database, Pairs
  <2>2. \A m \in rows : family[m] # issued + 1 /\ m \in 1..issued
    BY <1>2, SMTT(30) DEF Database, DbTypes, Pairs
  <2>3. OneCredential'
    BY <1>2, <1>3, <2>2, SMTT(30) DEF Database, OneCredential, Pairs
  <2>4. rows' \cap revoked' = {}
    BY <1>2, SMTT(30) DEF Database, DbTypes, Pairs
  <2> QED BY <2>1, <2>3, <2>4, Zenon DEF Database
<1>6. Ages
  BY <1>2, <1>3, SMTT(30) DEF Ages, DbTypes, Pairs
<1> QED BY <1>2, <1>4, <1>5, <1>6, Zenon DEF RowsKept, TokensKept

\* The end of a session takes its rows.
LEMMA RevokeDb ==
  ASSUME DbTypes, Database, NEW n \in 1..issued, Revoke(family[n], {n})
  PROVE  DbTypes' /\ Database' /\ Ages /\ RowsKept /\ TokensKept /\ issued' = issued
<1>1. /\ family[n] \in 1..issued /\ issued \in Pairs
      /\ tomb' = tomb \cup {family[n]} /\ revoked' = revoked \cup {n}
      /\ rows' = {m \in rows : family[m] # family[n]}
      /\ scene' = scene /\ issued' = issued /\ family' = family
      /\ outdated' = outdated /\ wiping' = wiping
  BY SMTT(30) DEF Revoke, OfFamily, DbTypes, Database, Pairs
<1>2. DbTypes' BY <1>1, Zenon DEF DbTypes
<1>3. Database' BY <1>1, Zenon DEF Database, OneCredential
<1>4. Ages BY <1>1, SMTT(30) DEF Ages, DbTypes, Pairs
<1>5. RowsKept BY <1>1, Zenon DEF RowsKept, Stored
<1>6. TokensKept BY <1>1, Zenon DEF TokensKept, Alive
<1> QED BY <1>1, <1>2, <1>3, <1>4, <1>5, <1>6, Zenon

\* A step that leaves the database alone.
LEMMA SameDb ==
  ASSUME DbTypes, Database, UNCHANGED server
  PROVE  DbTypes' /\ Database' /\ Ages /\ RowsKept /\ TokensKept /\ issued' = issued
<1>1. /\ scene' = scene /\ issued' = issued /\ family' = family /\ rows' = rows
      /\ tomb' = tomb /\ revoked' = revoked /\ outdated' = outdated /\ wiping' = wiping
  BY Zenon DEF server
<1>2. DbTypes' BY <1>1, Zenon DEF DbTypes
<1>3. Database' BY <1>1, Zenon DEF Database, OneCredential
<1> QED BY <1>1, <1>2, <1>3, SMTT(30) DEF Ages, RowsKept, TokensKept, DbTypes, Pairs

-----------------------------------------------------------------------------
(* What a step leaves sound *)

\* A session that ended has ended for good.
LEMMA StaysOver ==
  ASSUME Ages, DbTypes, NEW f \in 1..issued
  PROVE  (Alive(f)' => Alive(f)) /\ (Stored(f)' => Stored(f))
BY Zenon DEF Ages, Alive, Stored

\* An issued pair belongs to an issued family.
LEMMA FamilyKnown ==
  ASSUME DbTypes, Database, NEW n \in 1..issued
  PROVE  family[n] \in 1..issued
BY SMTT(30) DEF DbTypes, Database, Pairs

\* Whether requests may fail does not change.
LEMMA CalmStays == ASSUME Ages PROVE Calm' <=> Calm
BY Zenon DEF Ages, Calm

\* The refresh of another tab: it holds the lock and the step keeps the rows and
\* the jar, or it does not hold the lock.
LEMMA RefreshKept ==
  ASSUME DbTypes, DbTypes', Database, Ages, NEW t \in Tabs, RefreshSound(t), ref'[t] = ref[t],
         (jar' = jar /\ (Calm => RowsKept)) \/ ~Refreshing(t), ref[t] \in Refresh
  PROVE  RefreshSound(t)'
<1> DEFINE r == ref[t]
<1>1. ref'[t] = r OBVIOUS
<1>2. CASE ~Refreshing(t)
  <2>1. r.pc \in {"idle", "queued"} /\ r.answer = "none" /\ r.pair = 0 /\ r.new \in 0..issued
    BY <1>2, Zenon DEF RefreshSound, Refreshing, Refresh
  <2>2. r.pair \in 0..issued' /\ r.new \in 0..issued'
    BY <2>1, SMTT(30) DEF Ages, DbTypes, Pairs
  <2> HIDE DEF r
  <2> QED BY <1>1, <2>1, <2>2, Zenon DEF RefreshSound, Refreshing
<1>3. CASE Refreshing(t)
  <2>1. jar' = jar /\ (Calm => RowsKept) BY <1>3, Zenon
  <2>2. PICK a \in 0..issued, m \in 0..issued : a = ref[t].pair /\ m = ref[t].new
    BY Zenon DEF RefreshSound
  <2>3. ref'[t].pair = a /\ ref'[t].new = m BY <2>2, Zenon
  <2>4. a \in 0..issued' /\ m \in 0..issued'
    BY <2>2, SMTT(30) DEF Ages, DbTypes, Pairs
  <2>5. r.answer = "terminal" => ~Alive(family[a])'
    <3> SUFFICES ASSUME r.answer = "terminal" PROVE ~Alive(family[a])' OBVIOUS
    <3>1. a \in 1..issued BY <2>2, SMTT(30) DEF RefreshSound, DbTypes, Pairs
    <3>2. PICK f \in 1..issued : f = family[a] BY <3>1, FamilyKnown, Zenon
    <3>3. ~Alive(f) BY <2>2, <3>2, Zenon DEF RefreshSound
    <3>4. ~Alive(f)' BY <3>3, StaysOver, Zenon
    <3>5. family'[a] = f BY <3>1, <3>2, Zenon DEF Ages
    <3> QED BY <3>4, <3>5, Zenon DEF Alive
  <2>6. r.answer = "rotated" =>
          /\ m # 0 /\ family'[m] = family'[a]
          /\ Calm /\ Stored(family[m])' => m \in rows'
    <3> SUFFICES ASSUME r.answer = "rotated"
                 PROVE  /\ m # 0 /\ family'[m] = family'[a]
                        /\ Calm /\ Stored(family[m])' => m \in rows'
      OBVIOUS
    <3>1. a \in 1..issued /\ m \in 1..issued BY <2>2, SMTT(30) DEF RefreshSound, DbTypes, Pairs
    <3>2. PICK f \in 1..issued : f = family[m] BY <3>1, FamilyKnown, Zenon
    <3>3. family[a] = f /\ family'[a] = f /\ family'[m] = f
      BY <2>2, <3>1, <3>2, Zenon DEF RefreshSound, Ages
    <3>4. Calm /\ Stored(f) => m \in rows BY <2>2, <3>2, Zenon DEF RefreshSound
    <3>5. Calm /\ Stored(f)' => m \in rows'
      BY <2>1, <3>2, <3>3, <3>4, StaysOver, Zenon DEF RowsKept, Stored
    <3> QED BY <3>1, <3>3, <3>5, SMTT(30) DEF Stored
  <2>7. /\ r.answer # "none" <=> r.pc = "answered"
        /\ r.pc \in {"idle", "queued"} => r.pair = 0
        /\ (r.pc = "sent" \/ r.answer \in {"rotated", "terminal"}) => r.pair # 0
        /\ Refreshing(t) /\ r.pair # 0 => jar = r.pair
        /\ Calm => r.answer # "superseded"
    BY Zenon DEF RefreshSound
  <2>8. (Calm' <=> Calm) /\ (Refreshing(t)' <=> Refreshing(t))
    BY CalmStays, Zenon DEF Refreshing
  <2> HIDE DEF r
  <2> QED BY <1>1, <2>1, <2>2, <2>3, <2>4, <2>5, <2>6, <2>7, <2>8, Zenon DEF RefreshSound
<1> QED BY <1>2, <1>3, Zenon

\* The request of another tab: the step keeps its token, or it is no mutation in
\* flight.
LEMMA RequestKept ==
  ASSUME DbTypes, DbTypes', Database, Ages, NEW t \in Tabs, RequestSound(t), req'[t] = req[t],
         (Calm => TokensKept) \/ ~Sharing(t)
  PROVE  RequestSound(t)'
<1>1. PICK a \in 0..issued : a = req[t].pair BY Zenon DEF RequestSound
<1>2. a \in 0..issued' /\ req'[t].pair = a BY <1>1, SMTT(30) DEF Ages, DbTypes, Pairs
<1>3. (Calm' <=> Calm) /\ (Sharing(t)' <=> Sharing(t)) BY CalmStays, Zenon DEF Sharing
<1>4. ASSUME Calm, Sharing(t), a # 0, Alive(family[a])'
      PROVE  a \notin revoked'
  <2>1. a \in 1..issued BY <1>1, <1>4, SMTT(30) DEF DbTypes, Pairs
  <2>2. PICK f \in 1..issued : f = family[a] BY <2>1, FamilyKnown, Zenon
  <2>3. family'[a] = f BY <2>1, <2>2, Zenon DEF Ages
  <2>4. Alive(f)' BY <1>4, <2>3, Zenon DEF Alive
  <2>5. Alive(f) BY <2>4, StaysOver, Zenon
  <2>6. a \notin revoked BY <1>1, <1>4, <2>2, <2>5, Zenon DEF RequestSound
  <2> QED BY <1>4, <2>6, Zenon DEF TokensKept
<1> QED BY <1>1, <1>2, <1>3, <1>4, Zenon DEF RequestSound

\* The jar keeps the credential of the session unless a rotation takes it.
LEMMA HandedKept ==
  ASSUME DbTypes, DbTypes', Database, Ages, Handed, jar \in 0..issued, jar' = jar, Calm => RowsKept,
         \A t \in Tabs : Calm /\ ref[t].answer = "rotated" => ref'[t].answer = "rotated"
  PROVE  Handed'
<1>1. Calm' <=> Calm BY CalmStays, Zenon
<1>2. PICK a \in 0..issued : a = jar OBVIOUS
<1>3. ASSUME Calm, a # 0, Stored(family[a])', ~\E t \in Tabs : ref'[t].answer = "rotated"
      PROVE  a \in rows'
  <2>1. a \in 1..issued BY <1>3, SMTT(30) DEF DbTypes, Pairs
  <2>2. PICK f \in 1..issued : f = family[a] BY <2>1, FamilyKnown, Zenon
  <2>3. family'[a] = f BY <2>1, <2>2, Zenon DEF Ages
  <2>4. Stored(f)' BY <1>3, <2>3, Zenon DEF Stored
  <2>5. Stored(f) BY <2>4, StaysOver, Zenon
  <2>6. a \in rows BY <1>2, <1>3, <2>2, <2>5, Zenon DEF Handed
  <2> QED BY <1>3, <2>6, Zenon DEF RowsKept
<1> QED BY <1>1, <1>2, <1>3, Zenon DEF Handed

\* Messages on their way stay typed.
LEMMA PostKept ==
  ASSUME PostTypes, issued \in Nat, issued' \in Nat, issued <= issued', NEW t \in Tabs, NEW m \in 0..issued',
         post' = post \/ post' = Tell(t, m)
  PROVE  PostTypes'
<1>1. CASE post' = post BY <1>1, SMTT(30) DEF PostTypes
<1>2. CASE post' = Tell(t, m)
  <2>1. \A u \in Tabs : post'[u] = IF u = t THEN post[u] ELSE Append(post[u], m)
    BY <1>2, Zenon DEF Tell
  <2>2. post' = [u \in Tabs |-> IF u = t THEN post[u] ELSE Append(post[u], m)]
    BY <1>2, Zenon DEF Tell
  <2>3. \A u \in Tabs : post[u] \in Seq(Nat) /\ post'[u] \in Seq(Nat)
    <3>1. m \in Nat OBVIOUS
    <3>2. \A u \in Tabs : post[u] \in Seq(Nat) BY Zenon DEF PostTypes
    <3>3. \A q \in Seq(Nat) : Append(q, m) \in Seq(Nat) BY <3>1, SMTT(30)
    <3>4. ASSUME NEW u \in Tabs PROVE post'[u] \in Seq(Nat)
      <4>1. CASE u = t BY <2>1, <3>2, <4>1, Zenon
      <4>2. CASE u # t
        <5>1. post'[u] = Append(post[u], m) BY <2>1, <4>2, Zenon
        <5> QED BY <3>2, <3>3, <5>1, Zenon
      <4> QED BY <4>1, <4>2, Zenon
    <3> QED BY <3>2, <3>4, Zenon
  <2>4. post' \in [Tabs -> Seq(Nat)] BY <2>2, <2>3, Zenon
  <2>5. ASSUME NEW u \in Tabs, NEW i \in DOMAIN post'[u] PROVE post'[u][i] \in 0..issued'
    <3>1. \A j \in DOMAIN post[u] : post[u][j] \in 0..issued' BY SMTT(30) DEF PostTypes
    <3>2. CASE u = t BY <2>1, <3>1, <3>2, Zenon
    <3>3. CASE u # t
      <4>1. post'[u] = Append(post[u], m) /\ post[u] \in Seq(Nat) BY <2>1, <2>3, <3>3, Zenon
      <4> QED BY <3>1, <4>1, SMTT(30)
    <3> QED BY <3>2, <3>3, Zenon
  <2> QED BY <2>4, <2>5, Zenon DEF PostTypes
<1> QED BY <1>1, <1>2, Zenon

\* What must be shown of a step that touches the tabs in S.
LEMMA Assemble ==
  ASSUME Inv, NEW S \in SUBSET Tabs,
         DbTypes', Database', Ages,
         ClockTypes', jar' \in 0..issued',
         TabTypes', RefTypes', ReqTypes', PostTypes', AdriftTypes',
         Excluded', Handed', GivenUp',
         \A u \in S : RefreshSound(u)' /\ RequestSound(u)',
         \A u \in Tabs \ S :
           /\ ref'[u] = ref[u] /\ req'[u] = req[u]
           /\ (jar' = jar /\ (Calm => RowsKept)) \/ ~Refreshing(u)
           /\ (Calm => TokensKept) \/ ~Sharing(u)
  PROVE  Inv'
<1>1. ASSUME NEW u \in Tabs \ S PROVE RefreshSound(u)' /\ RequestSound(u)'
  <2>1. ref[u] \in Refresh BY Zenon DEF Inv, RefTypes
  <2>2. DbTypes /\ Database /\ RefreshSound(u) /\ RequestSound(u) BY Zenon DEF Inv
  <2>3. RefreshSound(u)' BY <2>1, <2>2, RefreshKept, Zenon
  <2>4. RequestSound(u)' BY <2>2, RequestKept, Zenon
  <2> QED BY <2>3, <2>4, Zenon
<1>2. \A u \in Tabs : RefreshSound(u)' /\ RequestSound(u)' BY <1>1, Zenon
<1> QED BY <1>2, Zenon DEF Inv

\* The lock stays with whom it was.
LEMMA ExcludedKept ==
  ASSUME Excluded,
         \A u \in Tabs : (Refreshing(u)' => Refreshing(u)) /\ (Sharing(u)' => Sharing(u))
  PROVE  Excluded'
BY Zenon DEF Excluded

\* A step of tab t that leaves the database, the clock and the jar alone.
LEMMA ClientStep ==
  ASSUME Inv, NEW t \in Tabs, UNCHANGED <<server, clock, jar>>,
         TabTypes', RefTypes', ReqTypes', PostTypes', AdriftTypes',
         Excluded', GivenUp',
         Calm /\ ref[t].answer = "rotated" => ref'[t].answer = "rotated",
         RefreshSound(t)', RequestSound(t)',
         \A u \in Tabs \ {t} : ref'[u] = ref[u] /\ req'[u] = req[u]
  PROVE  Inv'
<1>1. UNCHANGED server /\ jar' = jar /\ due' = due /\ past' = past BY Zenon DEF clock
<1>2. DbTypes /\ Database /\ ClockTypes /\ jar \in 0..issued /\ Handed BY Zenon DEF Inv
<1>3. DbTypes' /\ Database' /\ Ages /\ RowsKept /\ TokensKept /\ issued' = issued
  BY <1>1, <1>2, SameDb, Zenon
<1>4. ClockTypes' /\ jar' \in 0..issued' BY <1>1, <1>2, <1>3, Zenon DEF ClockTypes
<1>5. \A u \in Tabs : Calm /\ ref[u].answer = "rotated" => ref'[u].answer = "rotated"
  OBVIOUS
<1>6. Handed' BY <1>1, <1>2, <1>3, <1>5, HandedKept, Zenon
<1>7. \A u \in Tabs \ {t} :
        /\ ref'[u] = ref[u] /\ req'[u] = req[u]
        /\ (jar' = jar /\ (Calm => RowsKept)) \/ ~Refreshing(u)
        /\ (Calm => TokensKept) \/ ~Sharing(u)
  BY <1>1, <1>3, Zenon
<1>8. {t} \in SUBSET Tabs /\ \A u \in {t} : RefreshSound(u)' /\ RequestSound(u)' BY Zenon
<1> QED BY <1>3, <1>4, <1>6, <1>7, <1>8, Assemble, Zenon

\* A step of the server or the clock that touches no tab and rotates nothing,
\* unless it is a rotation asked for by a request that was given up.
LEMMA ServerStep ==
  ASSUME Inv, DbTypes', Database', Ages, Calm => RowsKept, Calm => TokensKept, ClockTypes',
         UNCHANGED <<jar, tab, ref, req, post>>, AdriftTypes', GivenUp'
  PROVE  Inv'
<1>1. jar' = jar /\ tab' = tab /\ ref' = ref /\ req' = req /\ post' = post OBVIOUS
<1>2. issued <= issued' /\ issued \in Nat /\ issued' \in Nat BY SMTT(30)
                                                             DEF Inv, DbTypes, Ages, Pairs
<1>3. jar' \in 0..issued' BY <1>1, <1>2, SMTT(30) DEF Inv
<1>4. TabTypes' /\ RefTypes' /\ ReqTypes'
  BY <1>1, Zenon DEF Inv, TabTypes, RefTypes, ReqTypes
<1>5. PostTypes' BY <1>1, <1>2, SMTT(30) DEF Inv, PostTypes
<1>6. Excluded' BY <1>1, Zenon DEF Inv, Excluded, Refreshing, Sharing
<1>7. Handed' BY <1>1, HandedKept, Zenon DEF Inv
<1>8. {} \in SUBSET Tabs /\ (\A u \in {} : RefreshSound(u)' /\ RequestSound(u)')
  BY Zenon
<1>9. \A u \in Tabs \ {} :
        /\ ref'[u] = ref[u] /\ req'[u] = req[u]
        /\ (jar' = jar /\ (Calm => RowsKept)) \/ ~Refreshing(u)
        /\ (Calm => TokensKept) \/ ~Sharing(u)
  BY <1>1, Zenon
<1> QED BY <1>3, <1>4, <1>5, <1>6, <1>7, <1>8, <1>9, Assemble, Zenon

-----------------------------------------------------------------------------
(* What the helpers of the actions do to a tab *)

\* A tab without a refresh in flight, or with one that waits for the lock.
Resting(t) ==
  ref[t].pc \in {"idle", "queued"} /\ ref[t].answer = "none" /\ ref[t].pair = 0 /\ ref[t].new = 0

\* The request of t is left as it is, or is not in flight.
Aside(t) == req'[t] = req[t] \/ (req'[t].pc # "sent" /\ req'[t].pair \in {0, req[t].pair})

\* Only tab t changes.
OnlyOf(t) == \A u \in Tabs \ {t} : ref'[u] = ref[u] /\ req'[u] = req[u]

\* A resting refresh is sound.
LEMMA RestSound ==
  ASSUME NEW t, Resting(t)', DbTypes'
  PROVE  RefreshSound(t)'
BY SMTT(30) DEF Resting, RefreshSound, Refreshing, DbTypes, Pairs

\* A request that is left as it is, or is not in flight, is sound.
LEMMA AsideSound ==
  ASSUME Inv, NEW t \in Tabs, DbTypes', Ages, (Calm => TokensKept) \/ ~Sharing(t), Aside(t)
  PROVE  RequestSound(t)'
<1>1. DbTypes /\ Database /\ RequestSound(t) BY Zenon DEF Inv
<1>2. CASE req'[t] = req[t] BY <1>1, <1>2, RequestKept, Zenon
<1>3. CASE req'[t].pc # "sent" /\ req'[t].pair \in {0, req[t].pair}
  <2>1. req[t].pair \in 0..issued BY <1>1, Zenon DEF RequestSound
  <2>2. req'[t].pair \in 0..issued' BY <1>1, <1>3, <2>1, SMTT(30) DEF Ages, DbTypes, Pairs
  <2> QED BY <1>3, <2>2, Zenon DEF RequestSound, Sharing
<1> QED BY <1>2, <1>3, Zenon DEF Aside

\* A step after which t has no more of the lock than before.
LEMMA RestExcluded ==
  ASSUME Inv, NEW t \in Tabs, OnlyOf(t), Resting(t)' \/ ref'[t] = ref[t], Aside(t)
  PROVE  Excluded'
<1>1. \A u \in Tabs : (Refreshing(u)' => Refreshing(u)) /\ (Sharing(u)' => Sharing(u))
  BY Zenon DEF OnlyOf, Resting, Aside, Refreshing, Sharing
<1> QED BY <1>1, ExcludedKept, Zenon DEF Inv

\* The constants of the module are typed.
LEMMA ConstantsTyped ==
  /\ NoRefresh \in Refresh /\ NoRequest \in Request /\ SignedOut \in Tab
  /\ \A e \in Unasked..MaxPairs : Queued(e) \in Refresh
  /\ \A e \in 0..MaxPairs : Knows(e) \in Tab
  /\ \A q \in Request, e \in 0..MaxPairs : Again(q, e) \in Request
<1>1. MaxPairs \in Nat /\ 0 \in 0..MaxPairs /\ Unasked \in Unasked..MaxPairs
  BY SessionAssumption, SMTT(30) DEF Unasked
<1>2. NoRefresh \in Refresh BY <1>1, Zenon DEF NoRefresh, Refresh
<1>3. NoRequest \in Request BY <1>1, Zenon DEF NoRequest, Request
<1>4. SignedOut \in Tab BY <1>1, Zenon DEF SignedOut, Tab
<1>5. \A e \in Unasked..MaxPairs : Queued(e) \in Refresh
  BY <1>1, Zenon DEF Queued, NoRefresh, Refresh
<1>6. \A e \in 0..MaxPairs : Knows(e) \in Tab BY Zenon DEF Knows, Tab
<1>7. \A q \in Request, e \in 0..MaxPairs : Again(q, e) \in Request
  BY <1>1, ZenonT(30) DEF Again, Request
<1> QED BY <1>2, <1>3, <1>4, <1>5, <1>6, <1>7, Zenon

\* How a refresh ends well, for its tab.
LEMMA RenewedShape ==
  ASSUME RefTypes, ReqTypes, NEW t \in Tabs, NEW e \in 0..MaxPairs, Renewed(t, e)
  PROVE  RefTypes' /\ ReqTypes' /\ OnlyOf(t) /\ Resting(t)' /\ Aside(t)
<1> USE DEF RefTypes, ReqTypes
<1>1. /\ req[t] \in Request /\ req[t].seen \in 0..MaxPairs
      /\ req[t].seen \in Unasked..MaxPairs
  BY SessionAssumption, SMTT(30) DEF Request, Unasked
<1>2. CASE req[t].pc = "joined" /\ req[t].seen = e
  <2>1. /\ ref' = [ref EXCEPT ![t] = Queued(req[t].seen)]
        /\ req' = [req EXCEPT ![t].pc = "started"]
    BY <1>2, Zenon DEF Renewed
  <2>2. RefTypes' BY <1>1, <2>1, ConstantsTyped, Zenon
  <2>3. [req[t] EXCEPT !.pc = "started"] \in Request BY <1>1, ZenonT(30) DEF Request
  <2>4. ReqTypes' BY <2>1, <2>3, Zenon
  <2>5. OnlyOf(t) BY <2>1, Zenon DEF OnlyOf
  <2>6. Resting(t)' BY <2>1, Zenon DEF Resting, Queued, NoRefresh
  <2>7. Aside(t)
    <3>1. req'[t] = [req[t] EXCEPT !.pc = "started"] BY <2>1, Zenon
    <3>2. req'[t].pc = "started" /\ req'[t].pair = req[t].pair BY <1>1, <3>1, Zenon DEF Request
    <3> QED BY <3>2, Zenon DEF Aside
  <2> QED BY <2>2, <2>4, <2>5, <2>6, <2>7, Zenon
<1>3. CASE ~(req[t].pc = "joined" /\ req[t].seen = e)
  <2>1. /\ ref' = [ref EXCEPT ![t] = NoRefresh]
        /\ req' = [req EXCEPT ![t] = IF req[t].pc \in {"started", "joined"}
                                       THEN Again(req[t], e) ELSE req[t]]
    BY <1>3, Zenon DEF Renewed
  <2>2. RefTypes' BY <2>1, ConstantsTyped, Zenon
  <2>3. ReqTypes' BY <1>1, <2>1, ConstantsTyped, Zenon
  <2>5. OnlyOf(t) BY <2>1, Zenon DEF OnlyOf
  <2>6. Resting(t)' BY <2>1, Zenon DEF Resting, NoRefresh
  <2>7. Aside(t)
    <3>1. req'[t] = IF req[t].pc \in {"started", "joined"} THEN Again(req[t], e) ELSE req[t]
      BY <2>1, Zenon
    <3>2. Again(req[t], e).pc = "ready" /\ Again(req[t], e).pair = 0
      BY <1>1, Zenon DEF Again, Request
    <3> QED BY <3>1, <3>2, Zenon DEF Aside
  <2> QED BY <2>2, <2>3, <2>5, <2>6, <2>7, Zenon
<1> QED BY <1>2, <1>3, Zenon

\* How it fails.
LEMMA FailedShape ==
  ASSUME RefTypes, ReqTypes, NEW t \in Tabs, Failed(t)
  PROVE  RefTypes' /\ ReqTypes' /\ OnlyOf(t) /\ Resting(t)' /\ Aside(t)
<1> USE DEF RefTypes, ReqTypes
<1>1. /\ ref' = [ref EXCEPT ![t] = NoRefresh]
      /\ req' = [req EXCEPT ![t] = IF req[t].pc \in {"started", "joined"} THEN NoRequest ELSE req[t]]
  BY Zenon DEF Failed
<1>2. RefTypes' /\ ReqTypes' BY <1>1, ConstantsTyped, Zenon
<1>3. OnlyOf(t) BY <1>1, Zenon DEF OnlyOf
<1>4. Resting(t)' BY <1>1, Zenon DEF Resting, NoRefresh
<1>5. Aside(t)
  <2>1. req'[t] = IF req[t].pc \in {"started", "joined"} THEN NoRequest ELSE req[t] BY <1>1, Zenon
  <2>2. NoRequest.pc = "idle" /\ NoRequest.pair = 0 BY Zenon DEF NoRequest
  <2> QED BY <2>1, <2>2, Zenon DEF Aside
<1> QED BY <1>2, <1>3, <1>4, <1>5, Zenon

\* A tab that signs out, or not, and tells the others.
LEMMA SignOutShape ==
  ASSUME TabTypes, PostTypes, DbTypes, NEW t \in Tabs, issued' = issued,
         SignOut(t) \/ UNCHANGED <<tab, post>>
  PROVE  TabTypes' /\ PostTypes'
<1>1. issued \in Nat /\ issued' \in Nat /\ 0 \in 0..issued' BY SMTT(30) DEF DbTypes, Pairs
<1>2. CASE UNCHANGED <<tab, post>>
  BY <1>2, Zenon DEF TabTypes, PostTypes
<1>3. CASE SignOut(t)
  <2>1. tab' = [tab EXCEPT ![t] = SignedOut] /\ post' = Tell(t, 0)
    BY <1>3, Zenon DEF SignOut, Logout
  <2>2. TabTypes' BY <2>1, ConstantsTyped, Zenon DEF TabTypes
  <2>3. PostTypes' BY <1>1, <2>1, PostKept, SMTT(30)
  <2> QED BY <2>2, <2>3, Zenon
<1> QED BY <1>2, <1>3, Zenon

-----------------------------------------------------------------------------
(* The actions of a tab that send or receive nothing that matters *)

\* A step of t after which its refresh rests or is as before, and its request is
\* as before or not in flight.
LEMMA QuietStep ==
  ASSUME Inv, NEW t \in Tabs, UNCHANGED <<server, clock, jar>>,
         TabTypes', PostTypes', RefTypes', ReqTypes', AdriftTypes', GivenUp', OnlyOf(t), Aside(t),
         ref'[t] = ref[t] \/ (Resting(t)' /\ (Calm => ref[t].answer # "rotated"))
  PROVE  Inv'
<1>1. UNCHANGED server /\ jar' = jar BY Zenon
<1>2. DbTypes /\ Database /\ RefreshSound(t) /\ ref[t] \in Refresh BY Zenon DEF Inv, RefTypes
<1>3. DbTypes' /\ Database' /\ Ages /\ RowsKept /\ TokensKept BY <1>1, <1>2, SameDb, Zenon
<1>4. RequestSound(t)' BY <1>3, AsideSound, Zenon
<1>5. RefreshSound(t)' BY <1>1, <1>2, <1>3, RestSound, RefreshKept, Zenon
<1>6. Excluded' BY RestExcluded, Zenon
<1>7. Calm /\ ref[t].answer = "rotated" => ref'[t].answer = "rotated" OBVIOUS
<1>8. \A u \in Tabs \ {t} : ref'[u] = ref[u] /\ req'[u] = req[u] BY Zenon DEF OnlyOf
<1> QED BY <1>4, <1>5, <1>6, <1>7, <1>8, ClientStep, Zenon

\* A step that gives nothing up.
LEMMA GivenUpKept ==
  ASSUME Inv, UNCHANGED server, adrift' = adrift
  PROVE  AdriftTypes' /\ GivenUp'
<1>1. issued' = issued /\ scene' = scene BY Zenon DEF server
<1>2. Calm' <=> Calm BY <1>1, Zenon DEF Calm
<1> QED BY <1>1, <1>2, Zenon DEF Inv, AdriftTypes, GivenUp

\* Timer keeps the invariant: at most it queues a refresh.
LEMMA TimerKeeps == ASSUME Inv, NEW t \in Tabs, Timer(t) PROVE Inv'
<1>1. UNCHANGED <<server, clock, jar>> /\ UNCHANGED server /\ adrift' = adrift /\ req' = req /\ post' = post
  BY Zenon DEF Timer
<1>2. /\ tab' = [tab EXCEPT ![t] = [tab[t] EXCEPT !.armed = FALSE]]
      /\ ref' = [ref EXCEPT ![t] = IF ref[t].pc = "idle" THEN Queued(Unasked) ELSE ref[t]]
  BY Zenon DEF Timer
<1>3. TabTypes'
  <2>1. [tab[t] EXCEPT !.armed = FALSE] \in Tab BY ZenonT(30) DEF Inv, TabTypes, Tab
  <2> QED BY <1>2, <2>1, Zenon DEF Inv, TabTypes
<1>4. issued' = issued BY <1>1, Zenon DEF server
<1>5. PostTypes' /\ ReqTypes' BY <1>1, <1>4, Zenon DEF Inv, PostTypes, ReqTypes
<1>6. Unasked \in Unasked..MaxPairs BY SessionAssumption, SMTT(30) DEF Unasked
<1>7. RefTypes' BY <1>2, <1>6, ConstantsTyped, Zenon DEF Inv, RefTypes
<1>8. OnlyOf(t) /\ Aside(t) BY <1>1, <1>2, Zenon DEF OnlyOf, Aside, Inv, RefTypes
<1>9. ref'[t] = ref[t] \/ (Resting(t)' /\ (Calm => ref[t].answer # "rotated"))
  <2>1. ref'[t] = IF ref[t].pc = "idle" THEN Queued(Unasked) ELSE ref[t]
    BY <1>2, Zenon DEF Inv, RefTypes
  <2>2. CASE ref[t].pc = "idle"
    BY <2>1, <2>2, Zenon DEF Resting, Queued, NoRefresh, Inv, RefreshSound
  <2> QED BY <2>1, <2>2, Zenon
<1>10. AdriftTypes' /\ GivenUp' BY <1>1, GivenUpKept, Zenon
<1> QED BY <1>1, <1>3, <1>5, <1>7, <1>8, <1>9, <1>10, QuietStep, Zenon

\* Deliver keeps it: a message changes only what its tab knows.
LEMMA DeliverKeeps == ASSUME Inv, NEW t \in Tabs, Deliver(t) PROVE Inv'
<1>1. UNCHANGED <<server, clock, jar>> /\ UNCHANGED server /\ adrift' = adrift /\ req' = req /\ ref' = ref
  BY Zenon DEF Deliver
<1>2. /\ post[t] # <<>>
      /\ tab' = [tab EXCEPT ![t] = IF Head(post[t]) = Logout THEN SignedOut
                               ELSE [tab[t] EXCEPT !.expiry = Head(post[t]), !.armed = TRUE]]
      /\ post' = [post EXCEPT ![t] = Tail(post[t])]
  BY Zenon DEF Deliver
<1>3. post[t] \in Seq(Nat) /\ \A i \in DOMAIN post[t] : post[t][i] \in 0..issued
  BY Zenon DEF Inv, PostTypes
<1>4. issued' = issued /\ issued \in 1..MaxPairs BY <1>1, Zenon DEF server, Inv, DbTypes, Pairs
<1>5. Head(post[t]) \in 0..MaxPairs
  <2>1. 1 \in DOMAIN post[t] /\ Head(post[t]) = post[t][1] BY <1>2, <1>3, SMTT(30)
  <2> QED BY <1>3, <1>4, <2>1, SessionAssumption, SMTT(30)
<1>6. TabTypes'
  <2>1. [tab[t] EXCEPT !.expiry = Head(post[t]), !.armed = TRUE] \in Tab
    BY <1>5, ZenonT(30) DEF Inv, TabTypes, Tab
  <2> QED BY <1>2, <2>1, ConstantsTyped, Zenon DEF Inv, TabTypes
<1>7. PostTypes'
  <2>1. Tail(post[t]) \in Seq(Nat) BY <1>2, <1>3, SMTT(30)
  <2>2. \A i \in DOMAIN Tail(post[t]) : Tail(post[t])[i] \in 0..issued
    <3>1. \A i \in DOMAIN Tail(post[t]) : i + 1 \in DOMAIN post[t] /\ Tail(post[t])[i] = post[t][i + 1]
      BY <1>2, <1>3, SMTT(30)
    <3> QED BY <1>3, <3>1, Zenon
  <2>3. post' \in [Tabs -> Seq(Nat)] BY <1>2, <2>1, Zenon DEF Inv, PostTypes
  <2>4. \A u \in Tabs : post'[u] = IF u = t THEN Tail(post[t]) ELSE post[u]
    BY <1>2, Zenon DEF Inv, PostTypes
  <2>5. ASSUME NEW u \in Tabs PROVE \A i \in DOMAIN post'[u] : post'[u][i] \in 0..issued'
    <3>1. CASE u = t BY <1>4, <2>2, <2>4, <3>1, Zenon
    <3>2. CASE u # t
      <4>1. post'[u] = post[u] BY <2>4, <3>2, Zenon
      <4> QED BY <1>4, <4>1, Zenon DEF Inv, PostTypes
    <3> QED BY <3>1, <3>2, Zenon
  <2> QED BY <2>3, <2>5, Zenon DEF PostTypes
<1>8. ReqTypes' /\ RefTypes' /\ OnlyOf(t) /\ Aside(t) /\ ref'[t] = ref[t]
  BY <1>1, Zenon DEF OnlyOf, Aside, Inv, RefTypes, ReqTypes
<1>9. AdriftTypes' /\ GivenUp' BY <1>1, GivenUpKept, Zenon
<1> QED BY <1>1, <1>6, <1>7, <1>8, <1>9, QuietStep, Zenon

\* RefreshTimesOut keeps it: what was sent is now adrift.
LEMMA RefreshTimesOutKeeps == ASSUME Inv, NEW t \in Tabs, RefreshTimesOut(t) PROVE Inv'
<1>1. UNCHANGED <<server, clock, jar>> /\ UNCHANGED server /\ ~Calm /\ FailedForNow(t)
  BY Zenon DEF RefreshTimesOut, Calm
<1>2. issued' = issued /\ scene' = scene BY <1>1, Zenon DEF server
<1>3. Failed(t) /\ (SignOut(t) \/ UNCHANGED <<tab, post>>) BY <1>1, Zenon DEF FailedForNow
<1>4. RefTypes' /\ ReqTypes' /\ OnlyOf(t) /\ Resting(t)' /\ Aside(t)
  BY <1>3, FailedShape, Zenon DEF Inv
<1>5. TabTypes' /\ PostTypes' BY <1>2, <1>3, SignOutShape, Zenon DEF Inv
<1>6. adrift' = adrift \cup (IF ref[t].pc = "sent" THEN {[kind |-> "refresh", pair |-> ref[t].pair]} ELSE {})
  BY Zenon DEF RefreshTimesOut
<1>7. ref[t].pc = "sent" => ref[t].pair \in 1..issued /\ ref[t].pair \in Pairs
  <2>1. RefreshSound(t) /\ issued \in 1..MaxPairs BY Zenon DEF Inv, DbTypes, Pairs
  <2>2. ref[t].pair \in 0..issued /\ (ref[t].pc = "sent" => ref[t].pair # 0)
    BY <2>1, Zenon DEF RefreshSound
  <2> QED BY <2>1, <2>2, SessionAssumption, SMTT(30) DEF Pairs
<1>8. AdriftTypes' BY <1>6, <1>7, SMTT(30) DEF Inv, AdriftTypes
<1>9. GivenUp'
  <2>1. ~Calm' BY <1>1, <1>2, Zenon DEF Calm
  <2> QED BY <1>2, <1>6, <1>7, <2>1, SMTT(30) DEF Inv, GivenUp
<1> QED BY <1>1, <1>4, <1>5, <1>8, <1>9, QuietStep, Zenon

-----------------------------------------------------------------------------
(* A refresh under the lock *)

\* Locked keeps it: the lock is free, and the refresh takes what is in the jar.
LEMMA LockedKeeps == ASSUME Inv, NEW t \in Tabs, Locked(t) PROVE Inv'
<1>1. /\ UNCHANGED <<server, clock, jar>> /\ UNCHANGED server /\ jar' = jar /\ adrift' = adrift
      /\ tab' = tab /\ post' = post
      /\ ref[t].pc = "queued" /\ MayExclude
  BY Zenon DEF Locked
<1>2. issued' = issued /\ issued \in 1..MaxPairs BY <1>1, Zenon DEF server, Inv, DbTypes, Pairs
<1>3. TabTypes' /\ PostTypes' BY <1>1, <1>2, Zenon DEF Inv, TabTypes, PostTypes
<1>4. AdriftTypes' /\ GivenUp' BY <1>1, GivenUpKept, Zenon
<1>5. DbTypes /\ Database /\ RefreshSound(t) /\ RequestSound(t) /\ jar \in 0..issued
  BY Zenon DEF Inv
<1>6. DbTypes' /\ Database' /\ Ages /\ RowsKept /\ TokensKept BY <1>1, <1>5, SameDb, Zenon
<1>7. ref[t].answer = "none" /\ ref[t].pair = 0 /\ ref[t].new \in 0..issued /\ ref[t] \in Refresh
  BY <1>1, <1>5, Zenon DEF RefreshSound, Inv, RefTypes
<1>8. CASE Fresh(t)
  <2>1. Renewed(t, tab[t].expiry) BY <1>8, Zenon DEF Locked
  <2>2. tab[t].expiry \in 0..MaxPairs BY Zenon DEF Inv, TabTypes, Tab
  <2>3. RefTypes' /\ ReqTypes' /\ OnlyOf(t) /\ Resting(t)' /\ Aside(t)
    BY <2>1, <2>2, RenewedShape, Zenon DEF Inv
  <2> QED BY <1>1, <1>3, <1>4, <1>7, <2>3, QuietStep, Zenon
<1>9. CASE ~Fresh(t)
  <2> DEFINE error == [ref[t] EXCEPT !.pc = "answered", !.answer = "error"]
             over == [ref[t] EXCEPT !.pc = "answered", !.answer = "terminal", !.pair = jar]
             sent == [ref[t] EXCEPT !.pc = "sent", !.pair = jar]
  <2>1. /\ req' = req
        /\ ref' = [ref EXCEPT ![t] = IF jar = 0 THEN error
                                      ELSE IF family[jar] \in outdated THEN over ELSE sent]
    BY <1>9, Zenon DEF Locked
  <2>2. jar \in 0..MaxPairs BY <1>2, <1>5, SessionAssumption, SMTT(30)
  <2>3. error \in Refresh /\ over \in Refresh /\ sent \in Refresh
    BY <1>7, <2>2, Zenon DEF Refresh
  <2>4. /\ error.pc = "answered" /\ error.answer = "error" /\ error.pair = 0 /\ error.new = ref[t].new
        /\ over.pc = "answered" /\ over.answer = "terminal" /\ over.pair = jar /\ over.new = ref[t].new
        /\ sent.pc = "sent" /\ sent.answer = "none" /\ sent.pair = jar /\ sent.new = ref[t].new
    BY <1>7, Zenon DEF Refresh
  <2> HIDE DEF error, over, sent
  <2>5. RefTypes' BY <2>1, <2>3, Zenon DEF Inv, RefTypes
  <2>6. ReqTypes' BY <2>1, Zenon DEF Inv, ReqTypes
  <2>7. /\ ref'[t] = IF jar = 0 THEN error ELSE IF family[jar] \in outdated THEN over ELSE sent
        /\ \A u \in Tabs \ {t} : ref'[u] = ref[u] /\ req'[u] = req[u]
    BY <2>1, Zenon DEF Inv, RefTypes
  <2>8. /\ issued' = issued /\ family' = family /\ outdated' = outdated /\ tomb' = tomb /\ rows' = rows
    BY <1>1, Zenon DEF server
  <2>9. RefreshSound(t)'
    <3>1. CASE jar = 0
      <4>1. ref'[t] = error BY <2>7, <3>1, Zenon
      <4> QED BY <1>2, <1>7, <2>4, <2>8, <4>1, SMTT(30) DEF RefreshSound
    <3>2. CASE jar # 0 /\ family[jar] \in outdated
      <4>1. ref'[t] = over BY <2>7, <3>2, Zenon
      <4>2. ~Alive(family[jar])' BY <1>1, <2>8, <3>2, Zenon DEF Alive
      <4> QED BY <1>1, <1>5, <1>7, <2>4, <2>8, <3>2, <4>1, <4>2, Zenon DEF RefreshSound, Alive
    <3>3. CASE jar # 0 /\ family[jar] \notin outdated
      <4>1. ref'[t] = sent BY <2>7, <3>3, Zenon
      <4> QED BY <1>1, <1>5, <1>7, <2>4, <2>8, <3>3, <4>1, Zenon DEF RefreshSound
    <3> QED BY <3>1, <3>2, <3>3, Zenon
  <2>10. RequestSound(t)' BY <1>5, <1>6, <2>1, RequestKept, Zenon
  <2>11. Excluded' BY <1>1, <2>1, <2>7, ZenonT(40) DEF Excluded, MayExclude, Refreshing, Sharing
  <2> QED BY <1>1, <1>3, <1>4, <1>7, <2>5, <2>6, <2>7, <2>9, <2>10, <2>11, ClientStep, Zenon
<1> QED BY <1>8, <1>9, Zenon

\* The answer is written down for t alone.
LEMMA AnswerShape ==
  ASSUME RefTypes, NEW t \in Tabs, NEW m \in 0..MaxPairs,
         NEW a \in {"rotated", "superseded", "terminal", "error"}, Answer(t, a, m)
  PROVE  /\ RefTypes'
         /\ ref'[t].pc = "answered" /\ ref'[t].answer = a /\ ref'[t].new = m
         /\ ref'[t].pair = ref[t].pair
         /\ \A u \in Tabs \ {t} : ref'[u] = ref[u]
<1> DEFINE r == [ref[t] EXCEPT !.pc = "answered", !.answer = a, !.new = m]
<1>1. ref' = [ref EXCEPT ![t] = r] BY Zenon DEF Answer, RefTypes
<1>2. ref[t] \in Refresh BY Zenon DEF RefTypes
<1>3. /\ r \in Refresh /\ r.pc = "answered" /\ r.answer = a /\ r.new = m /\ r.pair = ref[t].pair
  BY <1>2, Zenon DEF Refresh
<1> HIDE DEF r
<1> QED BY <1>1, <1>3, Zenon DEF RefTypes

\* ServerRefuses and ServerFails keep it: without faults the credential sent is
\* the stored one, so that the server has no reason to call it superseded.
LEMMA RefusesKeeps ==
  ASSUME Inv, NEW t \in Tabs, ServerRefuses(t) \/ ServerFails(t)
  PROVE  Inv'
<1>1. /\ UNCHANGED <<server, clock, jar>> /\ UNCHANGED server /\ jar' = jar /\ adrift' = adrift
      /\ tab' = tab /\ post' = post /\ req' = req /\ ref[t].pc = "sent"
  BY Zenon DEF ServerRefuses, ServerFails
<1>2. /\ issued' = issued /\ family' = family /\ outdated' = outdated /\ tomb' = tomb /\ rows' = rows
      /\ issued \in 1..MaxPairs
  BY <1>1, Zenon DEF server, Inv, DbTypes, Pairs
<1>3. TabTypes' /\ PostTypes' /\ ReqTypes' BY <1>1, <1>2, Zenon
                                           DEF Inv, TabTypes, PostTypes, ReqTypes
<1>4. AdriftTypes' /\ GivenUp' BY <1>1, GivenUpKept, Zenon
<1>5. DbTypes /\ Database /\ RefreshSound(t) /\ RequestSound(t) /\ Handed /\ Excluded BY Zenon
                                                                                      DEF Inv
<1>6. DbTypes' /\ Database' /\ Ages /\ RowsKept /\ TokensKept BY <1>1, <1>5, SameDb, Zenon
<1>7. PICK n \in 1..issued : n = ref[t].pair /\ n = jar
  BY <1>1, <1>2, <1>5, SMTT(30) DEF RefreshSound, Refreshing
<1>8. PICK a \in {"superseded", "terminal", "error"} :
        /\ Answer(t, a, 0)
        /\ a = "terminal" => ~Alive(family[n])
        /\ Calm => a # "superseded"
  <2>1. CASE ServerFails(t)
    <3>1. Answer(t, "error", 0) BY <2>1, Zenon DEF ServerFails
    <3> QED BY <3>1, Zenon
  <2>2. CASE ServerRefuses(t)
    <3>1. ~Rotates(n) /\ Answer(t, Refusal(n), 0) BY <1>7, <2>2, Zenon DEF ServerRefuses
    <3>2. Refusal(n) \in {"superseded", "terminal"} BY Zenon DEF Refusal
    <3>3. Refusal(n) = "terminal" => ~Alive(family[n])
      BY Zenon DEF Refusal, OfFamily, Alive
    <3>4. ASSUME Calm PROVE Refusal(n) # "superseded"
      <4>1. ASSUME Stored(family[n]) PROVE FALSE
        <5>1. n # 0 /\ Stored(family[jar]) BY <1>2, <1>7, <4>1, SMTT(30)
        <5>2. n \in rows \/ \E u \in Tabs : ref[u].answer = "rotated"
          BY <1>5, <1>7, <3>4, <5>1, Zenon DEF Handed
        <5>3. ASSUME NEW u \in Tabs, ref[u].answer = "rotated" PROVE FALSE
          <6>1. Refreshing(u) BY <5>3, Zenon DEF Inv, RefreshSound, Refreshing
          <6>2. u = t BY <1>1, <1>5, <6>1, Zenon DEF Excluded, Refreshing
          <6> QED BY <1>1, <1>5, <5>3, <6>2, Zenon DEF RefreshSound
        <5> QED BY <3>1, <4>1, <5>2, <5>3, Zenon DEF Rotates, Stored
      <4> QED BY <4>1, Zenon DEF Refusal, OfFamily, Stored
    <3> QED BY <3>1, <3>2, <3>3, <3>4, Zenon
  <2> QED BY <2>1, <2>2, Zenon
<1>9. 0 \in 0..MaxPairs BY SessionAssumption, SMTT(30)
<1>10. /\ RefTypes'
       /\ ref'[t].pc = "answered" /\ ref'[t].answer = a /\ ref'[t].new = 0
       /\ ref'[t].pair = n
       /\ \A u \in Tabs \ {t} : ref'[u] = ref[u]
  BY <1>7, <1>8, <1>9, AnswerShape, ZenonT(40) DEF Inv
<1>11. Calm' <=> Calm BY <1>6, CalmStays, Zenon
<1>12. RefreshSound(t)'
  <2>1. n # 0 /\ n \in 0..issued' /\ 0 \in 0..issued' BY <1>2, SMTT(30)
  <2>2. a = "terminal" => ~Alive(family[n])' BY <1>2, <1>8, Zenon DEF Alive
  <2> QED BY <1>1, <1>2, <1>7, <1>8, <1>10, <1>11, <2>1, <2>2, Zenon DEF RefreshSound, Alive
<1>13. RequestSound(t)' BY <1>1, <1>5, <1>6, RequestKept, Zenon
<1>14. Excluded'
  <2>1. \A u \in Tabs : (Refreshing(u)' => Refreshing(u)) /\ (Sharing(u)' => Sharing(u))
    BY <1>1, <1>10, Zenon DEF Refreshing, Sharing
  <2> QED BY <1>5, <2>1, ExcludedKept, Zenon
<1>15. ref[t].answer # "rotated" BY <1>1, <1>5, Zenon DEF RefreshSound
<1> QED BY <1>1, <1>3, <1>4, <1>10, <1>12, <1>13, <1>14, <1>15, ClientStep, Zenon

\* ServerRotates keeps it: nobody else holds the lock, so that the row replaced
\* is the one in the jar and the new one is on its way there.
LEMMA RotatesKeeps == ASSUME Inv, NEW t \in Tabs, ServerRotates(t) PROVE Inv'
<1>1. /\ ref[t].pc = "sent" /\ issued < MaxPairs
      /\ jar' = jar /\ due' = due /\ past' = past /\ adrift' = adrift
      /\ tab' = tab /\ post' = post /\ req' = req
  BY Zenon DEF ServerRotates, clock
<1>2. DbTypes /\ Database /\ RefreshSound(t) /\ Excluded /\ jar \in 0..issued BY Zenon DEF Inv
<1>3. PICK n : n = ref[t].pair OBVIOUS
<1>4. Rotates(n) /\ Rotate(n) /\ Answer(t, "rotated", issued + 1)
  BY <1>3, Zenon DEF ServerRotates
<1>5. /\ DbTypes' /\ Database' /\ Ages
      /\ n \in 1..issued /\ issued' = issued + 1
      /\ family'[issued'] = family[n] /\ rows' = (rows \ {n}) \cup {issued'}
  BY <1>1, <1>2, <1>4, RotateDb, Zenon
<1>6. issued \in Nat /\ issued' \in 1..MaxPairs /\ issued' \in 0..MaxPairs
  BY <1>2, <1>5, SessionAssumption, SMTT(30) DEF DbTypes, Pairs
<1>7. /\ RefTypes'
      /\ ref'[t].pc = "answered" /\ ref'[t].answer = "rotated" /\ ref'[t].new = issued'
      /\ ref'[t].pair = n
      /\ \A u \in Tabs \ {t} : ref'[u] = ref[u]
  BY <1>3, <1>4, <1>5, <1>6, AnswerShape, Zenon DEF Inv
<1>8. TabTypes' /\ ReqTypes' BY <1>1, Zenon DEF Inv, TabTypes, ReqTypes
<1>9. PostTypes' BY <1>1, <1>5, <1>6, SMTT(30) DEF Inv, PostTypes
<1>10. ClockTypes' /\ jar' \in 0..issued' BY <1>1, <1>2, <1>5, <1>6, SMTT(30) DEF Inv, ClockTypes
<1>11. Calm' <=> Calm BY <1>5, CalmStays, Zenon
<1>12. AdriftTypes' /\ GivenUp'
  BY <1>1, <1>5, <1>6, <1>11, SMTT(30) DEF Inv, AdriftTypes, GivenUp
<1>13. Handed' BY <1>7, Zenon DEF Handed
<1>14. RefreshSound(t)'
  <2>1. jar = n BY <1>1, <1>2, <1>3, <1>5, Zenon DEF RefreshSound, Refreshing
  <2>2. n # 0 /\ n \in 0..issued' /\ issued' \in 0..issued' /\ issued' # 0 /\ issued' \in rows'
    BY <1>5, <1>6, SMTT(30)
  <2>3. family'[issued'] = family'[n] BY <1>5, Zenon DEF Ages
  <2> QED BY <1>1, <1>7, <2>1, <2>2, <2>3, Zenon DEF RefreshSound
<1>15. Excluded'
  <2>1. \A u \in Tabs : (Refreshing(u)' => Refreshing(u)) /\ (Sharing(u)' => Sharing(u))
    BY <1>1, <1>7, Zenon DEF Refreshing, Sharing
  <2> QED BY <1>2, <2>1, ExcludedKept, Zenon
<1>16. \A u \in Tabs : ~Sharing(u) /\ (Refreshing(u) => u = t)
  BY <1>1, <1>2, Zenon DEF Excluded, Refreshing
<1>17. RequestSound(t)' BY <1>1, <1>5, <1>16, AsideSound, Zenon DEF Aside
<1>18. \A u \in Tabs \ {t} :
         /\ ref'[u] = ref[u] /\ req'[u] = req[u]
         /\ (jar' = jar /\ (Calm => RowsKept)) \/ ~Refreshing(u)
         /\ (Calm => TokensKept) \/ ~Sharing(u)
  BY <1>1, <1>7, <1>16, Zenon
<1>19. {t} \in SUBSET Tabs /\ \A u \in {t} : RefreshSound(u)' /\ RequestSound(u)'
  BY <1>14, <1>17, Zenon
<1> QED BY <1>5, <1>7, <1>8, <1>9, <1>10, <1>12, <1>13, <1>15, <1>18, <1>19, Assemble, Zenon

\* Answered keeps it: the jar gets the new credential, or none if the session is
\* over, or keeps the one it has.
LEMMA AnsweredKeeps == ASSUME Inv, NEW t \in Tabs, Answered(t) PROVE Inv'
<1>1. /\ ref[t].pc = "answered" /\ jar' = Cookies(ref[t])
      /\ UNCHANGED server /\ due' = due /\ past' = past /\ adrift' = adrift
  BY Zenon DEF Answered, clock
<1>2. DbTypes /\ Database /\ RefreshSound(t) /\ Excluded /\ jar \in 0..issued /\ Handed
      /\ ref[t] \in Refresh /\ RefTypes /\ ReqTypes
  BY Zenon DEF Inv, RefTypes
<1>3. DbTypes' /\ Database' /\ Ages /\ RowsKept /\ TokensKept /\ issued' = issued
  BY <1>1, <1>2, SameDb, Zenon
<1>4. /\ issued \in 1..MaxPairs /\ family' = family /\ rows' = rows /\ tomb' = tomb
      /\ Calm' <=> Calm
  BY <1>1, <1>2, <1>3, CalmStays, Zenon DEF server, DbTypes, Pairs
<1>5. PICK m \in 0..issued : m = ref[t].new BY <1>2, Zenon DEF RefreshSound
<1>6. PICK a \in {"rotated", "superseded", "terminal", "error"} : a = ref[t].answer
  BY <1>1, <1>2, Zenon DEF RefreshSound, Refresh
<1>7. /\ RefTypes' /\ ReqTypes' /\ OnlyOf(t) /\ Resting(t)' /\ Aside(t)
      /\ TabTypes' /\ PostTypes'
  <2>1. CASE a = "rotated"
    <3>1. /\ tab' = [tab EXCEPT ![t].expiry = m, ![t].armed = TRUE]
          /\ post' = Tell(t, m) /\ Renewed(t, m)
      BY <1>5, <1>6, <2>1, Zenon DEF Answered
    <3>2. m \in 0..MaxPairs BY <1>4, SessionAssumption, SMTT(30)
    <3>3. TabTypes'
      <4>1. tab' = [tab EXCEPT ![t] = [tab[t] EXCEPT !.expiry = m, !.armed = TRUE]]
        BY <3>1, Zenon DEF Inv, TabTypes
      <4>2. [tab[t] EXCEPT !.expiry = m, !.armed = TRUE] \in Tab
        BY <3>2, ZenonT(30) DEF Inv, TabTypes, Tab
      <4> QED BY <4>1, <4>2, Zenon DEF Inv, TabTypes
    <3>4. PostTypes' BY <1>3, <1>4, <3>1, PostKept, SMTT(30) DEF Inv
    <3> QED BY <1>2, <3>1, <3>2, <3>3, <3>4, RenewedShape, Zenon
  <2>2. CASE a \in {"superseded", "terminal"}
    <3>1. Failed(t) /\ SignOut(t) BY <1>6, <2>2, Zenon DEF Answered
    <3> QED BY <1>2, <1>3, <3>1, FailedShape, SignOutShape, Zenon DEF Inv
  <2>3. CASE a = "error"
    <3>1. FailedForNow(t) BY <1>6, <2>3, Zenon DEF Answered
    <3>2. Failed(t) /\ (SignOut(t) \/ UNCHANGED <<tab, post>>) BY <3>1, Zenon DEF FailedForNow
    <3> QED BY <1>2, <1>3, <3>2, FailedShape, SignOutShape, Zenon DEF Inv
  <2> QED BY <2>1, <2>2, <2>3, Zenon
<1>8. jar' = IF a = "rotated" THEN m ELSE IF a = "terminal" THEN 0 ELSE jar
  BY <1>1, <1>5, <1>6, Zenon DEF Cookies
<1>9. ClockTypes' /\ jar' \in 0..issued'
  BY <1>1, <1>2, <1>3, <1>4, <1>8, SMTT(30) DEF Inv, ClockTypes
<1>10. AdriftTypes' /\ GivenUp' BY <1>1, GivenUpKept, Zenon
<1>11. \A u \in Tabs : ~Sharing(u) /\ (Refreshing(u) => u = t)
  BY <1>1, <1>2, Zenon DEF Excluded, Refreshing
<1>12. Handed'
  <2> SUFFICES ASSUME Calm, jar' # 0, Stored(family[jar])' PROVE jar' \in rows'
    BY <1>4, Zenon DEF Handed
  <2>1. CASE a = "rotated"
    <3>1. jar' = m BY <1>8, <2>1, Zenon
    <3>2. Stored(family[m]) BY <1>4, <3>1, Zenon DEF Stored
    <3> QED BY <1>2, <1>4, <1>5, <1>6, <2>1, <3>1, <3>2, Zenon DEF RefreshSound
  <2>2. CASE a = "terminal" BY <1>8, <2>2, Zenon
  <2>3. CASE a = "superseded" BY <1>2, <1>6, <2>3, Zenon DEF RefreshSound
  <2>4. CASE a = "error"
    <3>1. jar' = jar BY <1>8, <2>4, Zenon
    <3>2. Stored(family[jar]) BY <1>4, <3>1, Zenon DEF Stored
    <3>3. jar \in rows \/ \E u \in Tabs : ref[u].answer = "rotated"
      BY <1>2, <3>1, <3>2, Zenon DEF Handed
    <3>4. \A u \in Tabs : ref[u].answer = "rotated" => Refreshing(u)
      BY Zenon DEF Inv, RefreshSound, Refreshing
    <3> QED BY <1>4, <1>6, <1>11, <2>4, <3>1, <3>3, <3>4, Zenon
  <2> QED BY <2>1, <2>2, <2>3, <2>4, Zenon
<1>13. RefreshSound(t)' BY <1>3, <1>7, RestSound, Zenon
<1>14. RequestSound(t)' BY <1>3, <1>7, AsideSound, Zenon
<1>15. Excluded' BY <1>7, RestExcluded, Zenon
<1>16. \A u \in Tabs \ {t} :
         /\ ref'[u] = ref[u] /\ req'[u] = req[u]
         /\ (jar' = jar /\ (Calm => RowsKept)) \/ ~Refreshing(u)
         /\ (Calm => TokensKept) \/ ~Sharing(u)
  BY <1>3, <1>7, <1>11, Zenon DEF OnlyOf
<1>17. {t} \in SUBSET Tabs /\ \A u \in {t} : RefreshSound(u)' /\ RequestSound(u)'
  BY <1>13, <1>14, Zenon
<1> QED BY <1>3, <1>7, <1>9, <1>10, <1>12, <1>15, <1>16, <1>17, Assemble, Zenon

-----------------------------------------------------------------------------
(* API requests *)

\* A request that is replaced by one that is not in flight.
LEMMA RequestReplaced ==
  ASSUME Inv, NEW t \in Tabs, NEW q \in Request, q.pc # "sent", q.pair = 0,
         req' = [req EXCEPT ![t] = q], ref' = ref,
         UNCHANGED <<server, clock, jar>>, TabTypes', PostTypes', AdriftTypes', GivenUp'
  PROVE  Inv'
<1>1. ReqTypes' /\ RefTypes' BY Zenon DEF Inv, ReqTypes, RefTypes
<1>2. OnlyOf(t) /\ Aside(t) /\ ref'[t] = ref[t] BY Zenon DEF OnlyOf, Aside, Inv, ReqTypes
<1> QED BY <1>1, <1>2, QuietStep, Zenon

\* Ask keeps it: a request that waits carries nothing.
LEMMA AskKeeps == ASSUME Inv, NEW t \in Tabs, NEW kind \in scene.kinds, Ask(t, kind) PROVE Inv'
<1>1. /\ UNCHANGED <<server, clock, jar>> /\ UNCHANGED server /\ adrift' = adrift
      /\ tab' = tab /\ post' = post /\ ref' = ref
      /\ req' = [req EXCEPT ![t] = [NoRequest EXCEPT !.pc = "ready", !.kind = kind,
                                                     !.seen = tab[t].expiry]]
  BY Zenon DEF Ask
<1>2. kind \in {"read", "write", "login", "logout"}
  <2>1. scene \in [kinds : SUBSET {"read", "write", "login", "logout"},
                   elsewhere : BOOLEAN, faults : BOOLEAN]
    BY SessionAssumption, Zenon DEF Inv, DbTypes
  <2>2. scene.kinds \in SUBSET {"read", "write", "login", "logout"} BY <2>1, Zenon
  <2> QED BY <2>2, Zenon
<1>3. tab[t].expiry \in 0..MaxPairs BY Zenon DEF Inv, TabTypes, Tab
<1> DEFINE q == [NoRequest EXCEPT !.pc = "ready", !.kind = kind, !.seen = tab[t].expiry]
<1>4. q \in Request BY <1>2, <1>3, ConstantsTyped, ZenonT(30) DEF Request
<1>5. q.pc = "ready" /\ q.pair = 0 BY Zenon DEF NoRequest
<1>6. issued' = issued BY <1>1, Zenon DEF server
<1>7. TabTypes' /\ PostTypes' BY <1>1, <1>6, Zenon DEF Inv, TabTypes, PostTypes
<1>8. AdriftTypes' /\ GivenUp' BY <1>1, GivenUpKept, Zenon
<1> HIDE DEF q
<1>9. req' = [req EXCEPT ![t] = q] BY <1>1, Zenon DEF q
<1> QED BY <1>1, <1>4, <1>5, <1>7, <1>8, <1>9, RequestReplaced, Zenon

\* A request that ends.
LEMMA EndKeeps ==
  ASSUME Inv, NEW t \in Tabs, Done(t) \/ LoginRefused(t)
  PROVE  Inv'
<1>1. /\ UNCHANGED <<server, clock, jar>> /\ UNCHANGED server /\ adrift' = adrift
      /\ tab' = tab /\ post' = post /\ ref' = ref
      /\ req' = [req EXCEPT ![t] = NoRequest]
  BY Zenon DEF Done, LoginRefused
<1>2. NoRequest \in Request /\ NoRequest.pc # "sent" /\ NoRequest.pair = 0
  BY ConstantsTyped, Zenon DEF NoRequest
<1>3. issued' = issued BY <1>1, Zenon DEF server
<1>4. TabTypes' /\ PostTypes' BY <1>1, <1>3, Zenon DEF Inv, TabTypes, PostTypes
<1>5. AdriftTypes' /\ GivenUp' BY <1>1, GivenUpKept, Zenon
<1> QED BY <1>1, <1>2, <1>4, <1>5, RequestReplaced, Zenon

\* RequestTimesOut keeps it: a logout that was sent is now adrift.
LEMMA RequestTimesOutKeeps == ASSUME Inv, NEW t \in Tabs, RequestTimesOut(t) PROVE Inv'
<1>1. /\ UNCHANGED <<server, clock, jar>> /\ UNCHANGED server /\ ~Calm /\ ref' = ref
      /\ req' = [req EXCEPT ![t] = NoRequest]
      /\ SignOut(t) \/ UNCHANGED <<tab, post>>
      /\ adrift' = adrift \cup (IF req[t].kind = "logout" /\ req[t].pair # 0
                                 THEN {[kind |-> "logout", pair |-> req[t].pair]} ELSE {})
  BY Zenon DEF RequestTimesOut, Calm
<1>2. NoRequest \in Request /\ NoRequest.pc # "sent" /\ NoRequest.pair = 0
  BY ConstantsTyped, Zenon DEF NoRequest
<1>3. issued' = issued /\ scene' = scene /\ issued \in 1..MaxPairs
  BY <1>1, Zenon DEF server, Inv, DbTypes, Pairs
<1>4. TabTypes' /\ PostTypes' BY <1>1, <1>3, SignOutShape, Zenon DEF Inv
<1>5. req[t].pair # 0 => req[t].pair \in 1..issued /\ req[t].pair \in Pairs
  <2>1. req[t].pair \in 0..issued BY Zenon DEF Inv, RequestSound
  <2> QED BY <1>3, <2>1, SessionAssumption, SMTT(30) DEF Pairs
<1>6. AdriftTypes' BY <1>1, <1>5, SMTT(30) DEF Inv, AdriftTypes
<1>7. GivenUp'
  <2>1. ~Calm' BY <1>1, <1>3, Zenon DEF Calm
  <2> QED BY <1>1, <1>3, <1>5, <2>1, SMTT(30) DEF Inv, GivenUp
<1> QED BY <1>1, <1>2, <1>4, <1>6, <1>7, RequestReplaced, Zenon

\* Unauthorized keeps it: the request lets the lock go before it waits.
LEMMA UnauthorizedKeeps == ASSUME Inv, NEW t \in Tabs, Unauthorized(t) PROVE Inv'
<1>1. /\ UNCHANGED <<server, clock, jar>> /\ UNCHANGED server /\ adrift' = adrift
      /\ SignOut(t) \/ UNCHANGED <<tab, post>>
  BY Zenon DEF Unauthorized
<1>2. issued' = issued BY <1>1, Zenon DEF server
<1>3. TabTypes' /\ PostTypes' BY <1>1, <1>2, SignOutShape, Zenon DEF Inv
<1>4. AdriftTypes' /\ GivenUp' BY <1>1, GivenUpKept, Zenon
<1>5. CASE req[t].retry
  <2>1. req' = [req EXCEPT ![t] = NoRequest] /\ ref' = ref BY <1>5, Zenon DEF Unauthorized
  <2>2. NoRequest \in Request /\ NoRequest.pc # "sent" /\ NoRequest.pair = 0
    BY ConstantsTyped, Zenon DEF NoRequest
  <2> QED BY <1>1, <1>3, <1>4, <2>1, <2>2, RequestReplaced, Zenon
<1>6. CASE ~req[t].retry
  <2>1. PICK pc \in {"started", "joined"} : pc = IF ref[t].pc = "idle" THEN "started" ELSE "joined"
    OBVIOUS
  <2>2. /\ req' = [req EXCEPT ![t] = [req[t] EXCEPT !.pc = pc, !.pair = 0]]
        /\ ref' = [ref EXCEPT ![t] = IF ref[t].pc = "idle" THEN Queued(req[t].seen) ELSE ref[t]]
    BY <1>6, <2>1, Zenon DEF Unauthorized, Inv, ReqTypes
  <2> DEFINE q == [req[t] EXCEPT !.pc = pc, !.pair = 0]
  <2>3. req[t] \in Request /\ 0 \in 0..MaxPairs BY SessionAssumption, SMTT(30) DEF Inv, ReqTypes
  <2>4. q \in Request BY <2>3, ZenonT(30) DEF Request
  <2>5. q.pc # "sent" /\ q.pair = 0 BY <2>3, Zenon DEF Request
  <2> HIDE DEF q
  <2>6. req' = [req EXCEPT ![t] = q] BY <2>2, Zenon DEF q
  <2>7. req[t].seen \in Unasked..MaxPairs
    <3>1. req[t].seen \in 0..MaxPairs BY <2>3, Zenon DEF Request
    <3> QED BY <3>1, SessionAssumption, SMTT(30) DEF Unasked
  <2>8. ReqTypes' /\ RefTypes'
    BY <2>2, <2>4, <2>6, <2>7, ConstantsTyped, Zenon DEF Inv, ReqTypes, RefTypes
  <2>9. OnlyOf(t) /\ Aside(t)
    BY <2>2, <2>5, <2>6, Zenon DEF OnlyOf, Aside, Inv, ReqTypes, RefTypes
  <2>10. ref'[t] = ref[t] \/ (Resting(t)' /\ (Calm => ref[t].answer # "rotated"))
    <3>1. ref'[t] = IF ref[t].pc = "idle" THEN Queued(req[t].seen) ELSE ref[t]
      BY <2>2, Zenon DEF Inv, RefTypes
    <3>2. CASE ref[t].pc = "idle"
      BY <3>1, <3>2, Zenon DEF Resting, Queued, NoRefresh, Inv, RefreshSound
    <3> QED BY <3>1, <3>2, Zenon
  <2> QED BY <1>1, <1>3, <1>4, <2>8, <2>9, <2>10, QuietStep, Zenon
<1> QED BY <1>5, <1>6, Zenon

\* A mutation goes out with the credential of the session, if the session lives.
LEMMA SendKeeps == ASSUME Inv, NEW t \in Tabs, Send(t) PROVE Inv'
<1>1. /\ UNCHANGED <<server, clock, jar>> /\ UNCHANGED server /\ jar' = jar /\ adrift' = adrift
      /\ tab' = tab /\ post' = post /\ ref' = ref
      /\ req[t].kind = "read" \/ MayShare
  BY Zenon DEF Send
<1>2. req' = [req EXCEPT ![t] = [req[t] EXCEPT !.pc = "sent", !.pair = jar]]
  BY Zenon DEF Send, Inv, ReqTypes
<1>3. DbTypes /\ Database /\ RefreshSound(t) /\ Handed /\ Excluded /\ jar \in 0..issued
      /\ ref[t] \in Refresh /\ req[t] \in Request
  BY Zenon DEF Inv, RefTypes, ReqTypes
<1>4. DbTypes' /\ Database' /\ Ages /\ RowsKept /\ TokensKept BY <1>1, <1>3, SameDb, Zenon
<1>5. /\ issued' = issued /\ family' = family /\ outdated' = outdated /\ tomb' = tomb /\ rows' = rows
      /\ revoked' = revoked /\ issued \in 1..MaxPairs /\ (Calm' <=> Calm)
  BY <1>1, <1>3, <1>4, CalmStays, Zenon DEF server, DbTypes, Pairs
<1> DEFINE q == [req[t] EXCEPT !.pc = "sent", !.pair = jar]
<1>6. jar \in 0..MaxPairs
  <2>1. jar \in 0..issued /\ issued \in 1..MaxPairs /\ MaxPairs \in Nat
    BY <1>3, <1>5, SessionAssumption, Zenon
  <2> QED BY <2>1, SMTT(30)
<1>7. q \in Request BY <1>3, <1>6, ZenonT(30) DEF Request
<1>8. q.pc = "sent" /\ q.pair = jar /\ q.kind = req[t].kind BY <1>3, Zenon DEF Request
<1> HIDE DEF q
<1>9. req' = [req EXCEPT ![t] = q] BY <1>2, Zenon DEF q
<1>10. ReqTypes' /\ RefTypes' /\ TabTypes' /\ PostTypes'
  BY <1>1, <1>5, <1>7, <1>9, Zenon DEF Inv, ReqTypes, RefTypes, TabTypes, PostTypes
<1>11. AdriftTypes' /\ GivenUp' BY <1>1, GivenUpKept, Zenon
<1>12. req'[t] = q /\ \A u \in Tabs \ {t} : ref'[u] = ref[u] /\ req'[u] = req[u]
  BY <1>1, <1>9, Zenon DEF Inv, ReqTypes
<1>13. RefreshSound(t)' BY <1>1, <1>3, <1>4, RefreshKept, Zenon
<1>14. Excluded' BY <1>1, <1>3, <1>8, <1>12, Zenon DEF Excluded, MayShare, Refreshing, Sharing
<1>15. RequestSound(t)'
  <2>1. ASSUME Calm, Sharing(t)', jar # 0, Alive(family[jar]) PROVE jar \notin revoked
    <3>1. MayShare BY <1>1, <1>8, <1>12, <2>1, Zenon DEF Sharing
    <3>2. Stored(family[jar]) BY <2>1, Zenon DEF Alive, Stored
    <3>3. jar \in rows \/ \E u \in Tabs : ref[u].answer = "rotated" BY <1>3, <2>1, <3>2, Zenon
                                                                    DEF Handed
    <3>4. \A u \in Tabs : ref[u].answer = "rotated" => Refreshing(u)
      BY Zenon DEF Inv, RefreshSound, Refreshing
    <3>5. jar \in rows BY <3>1, <3>3, <3>4, Zenon DEF MayShare
    <3> QED BY <1>3, <3>5, Zenon DEF Database
  <2>2. req'[t].pair = jar /\ jar \in 0..issued' BY <1>3, <1>5, <1>8, <1>12, Zenon
  <2>3. Alive(family[req[t].pair])' => Alive(family[jar]) BY <1>5, <2>2, Zenon DEF Alive
  <2>4. (Calm' <=> Calm) /\ revoked' = revoked BY <1>5, Zenon
  <2> QED BY <2>1, <2>2, <2>3, <2>4, Zenon DEF RequestSound
<1> QED BY <1>1, <1>10, <1>11, <1>12, <1>13, <1>14, <1>15, ClientStep, Zenon

\* LoggedIn keeps it: no refresh is out while the jar changes.
LEMMA LoggedInKeeps == ASSUME Inv, NEW t \in Tabs, LoggedIn(t) PROVE Inv'
<1>1. /\ req[t].pc = "sent" /\ req[t].kind = "login" /\ issued < MaxPairs
      /\ Issue(0, {}) /\ UNCHANGED <<tomb, revoked, outdated, wiping>>
      /\ jar' = issued + 1 /\ due' = due /\ past' = past /\ adrift' = adrift
      /\ post' = post /\ ref' = ref
      /\ tab' = [tab EXCEPT ![t] = Knows(issued + 1)]
      /\ req' = [req EXCEPT ![t] = NoRequest]
  BY Zenon DEF LoggedIn, clock
<1>2. DbTypes /\ Database /\ Excluded /\ ref[t] \in Refresh BY Zenon DEF Inv, RefTypes
<1>3. /\ DbTypes' /\ Database' /\ Ages /\ RowsKept /\ TokensKept
      /\ issued' = issued + 1 /\ issued' \in rows'
  BY <1>1, <1>2, LoginDb, Zenon
<1>4. issued \in Nat /\ issued' \in 1..MaxPairs /\ issued' \in 0..MaxPairs
  BY <1>2, <1>3, SMTT(30) DEF DbTypes, Pairs
<1>5. Sharing(t) BY <1>1, Zenon DEF Sharing
<1>6. \A u \in Tabs : ~Refreshing(u) BY <1>2, <1>5, Zenon DEF Excluded
<1>7. TabTypes'
  <2>1. Knows(issued + 1) \in Tab BY <1>3, <1>4, ConstantsTyped, Zenon
  <2> QED BY <1>1, <2>1, Zenon DEF Inv, TabTypes
<1>8. RefTypes' /\ ReqTypes' BY <1>1, ConstantsTyped, Zenon DEF Inv, RefTypes, ReqTypes
<1>9. PostTypes' BY <1>1, <1>3, <1>4, SMTT(30) DEF Inv, PostTypes
<1>10. ClockTypes' /\ jar' \in 0..issued' BY <1>1, <1>3, <1>4, SMTT(30) DEF Inv, ClockTypes
<1>11. Calm' <=> Calm BY <1>3, CalmStays, Zenon
<1>12. AdriftTypes' /\ GivenUp'
  BY <1>1, <1>3, <1>4, <1>11, SMTT(30) DEF Inv, AdriftTypes, GivenUp
<1>13. Handed' BY <1>1, <1>3, Zenon DEF Handed
<1>14. req'[t].pc # "sent" /\ req'[t].pair = 0 /\ OnlyOf(t) /\ ref'[t] = ref[t]
  BY <1>1, Zenon DEF Inv, ReqTypes, NoRequest, OnlyOf
<1>15. Aside(t) BY <1>14, Zenon DEF Aside
<1>16. RequestSound(t)' BY <1>3, <1>15, AsideSound, Zenon
<1>17. RefreshSound(t)'
  <2>1. RefreshSound(t) BY Zenon DEF Inv
  <2> QED BY <1>2, <1>3, <1>6, <1>14, <2>1, RefreshKept, Zenon
<1>18. Excluded' BY <1>14, <1>15, RestExcluded, Zenon
<1>19. \A u \in Tabs \ {t} :
         /\ ref'[u] = ref[u] /\ req'[u] = req[u]
         /\ (jar' = jar /\ (Calm => RowsKept)) \/ ~Refreshing(u)
         /\ (Calm => TokensKept) \/ ~Sharing(u)
  BY <1>3, <1>6, <1>14, Zenon DEF OnlyOf
<1>20. {t} \in SUBSET Tabs /\ \A u \in {t} : RefreshSound(u)' /\ RequestSound(u)'
  BY <1>16, <1>17, Zenon
<1> QED BY <1>3, <1>7, <1>8, <1>9, <1>10, <1>12, <1>13, <1>18, <1>19, <1>20, Assemble, Zenon

\* LoggedOut keeps it, for the same reason.
LEMMA LoggedOutKeeps == ASSUME Inv, NEW t \in Tabs, LoggedOut(t) PROVE Inv'
<1>1. /\ req[t].pc = "sent" /\ req[t].kind = "logout" /\ req[t].pair # 0
      /\ Revoke(family[req[t].pair], {req[t].pair})
      /\ jar' = 0 /\ due' = due /\ past' = past /\ adrift' = adrift /\ ref' = ref
      /\ SignOut(t)
      /\ req' = [req EXCEPT ![t] = NoRequest]
  BY Zenon DEF LoggedOut, Passes, clock
<1>2. DbTypes /\ Database /\ Excluded /\ ref[t] \in Refresh /\ RequestSound(t) BY Zenon
                                                                               DEF Inv, RefTypes
<1>3. PICK n \in 1..issued : n = req[t].pair
  BY <1>1, <1>2, SMTT(30) DEF RequestSound, DbTypes, Pairs
<1>4. DbTypes' /\ Database' /\ Ages /\ RowsKept /\ TokensKept /\ issued' = issued
  BY <1>1, <1>2, <1>3, RevokeDb, Zenon
<1>5. issued \in 1..MaxPairs BY <1>2, Zenon DEF DbTypes, Pairs
<1>6. Sharing(t) BY <1>1, Zenon DEF Sharing
<1>7. \A u \in Tabs : ~Refreshing(u) BY <1>2, <1>6, Zenon DEF Excluded
<1>8. RefTypes' /\ ReqTypes' BY <1>1, ConstantsTyped, Zenon DEF Inv, RefTypes, ReqTypes
<1>9. TabTypes' /\ PostTypes' BY <1>1, <1>4, SignOutShape, Zenon DEF Inv
<1>10. ClockTypes' /\ jar' \in 0..issued' BY <1>1, <1>4, <1>5, SMTT(30) DEF Inv, ClockTypes
<1>11. Calm' <=> Calm BY <1>4, CalmStays, Zenon
<1>12. AdriftTypes' /\ GivenUp' BY <1>1, <1>4, <1>11, Zenon DEF Inv, AdriftTypes, GivenUp
<1>13. Handed' BY <1>1, Zenon DEF Handed
<1>14. req'[t].pc # "sent" /\ req'[t].pair = 0 /\ OnlyOf(t) /\ ref'[t] = ref[t]
  BY <1>1, Zenon DEF Inv, ReqTypes, NoRequest, OnlyOf
<1>15. Aside(t) BY <1>14, Zenon DEF Aside
<1>16. RequestSound(t)' BY <1>4, <1>15, AsideSound, Zenon
<1>17. RefreshSound(t)'
  <2>1. RefreshSound(t) BY Zenon DEF Inv
  <2> QED BY <1>2, <1>4, <1>7, <1>14, <2>1, RefreshKept, Zenon
<1>18. Excluded' BY <1>14, <1>15, RestExcluded, Zenon
<1>19. \A u \in Tabs \ {t} :
         /\ ref'[u] = ref[u] /\ req'[u] = req[u]
         /\ (jar' = jar /\ (Calm => RowsKept)) \/ ~Refreshing(u)
         /\ (Calm => TokensKept) \/ ~Sharing(u)
  BY <1>4, <1>7, <1>14, Zenon DEF OnlyOf
<1>20. {t} \in SUBSET Tabs /\ \A u \in {t} : RefreshSound(u)' /\ RequestSound(u)'
  BY <1>16, <1>17, Zenon
<1> QED BY <1>4, <1>8, <1>9, <1>10, <1>12, <1>13, <1>18, <1>19, <1>20, Assemble, Zenon

-----------------------------------------------------------------------------
(* The server on its own, and the clock *)

\* RevokeElsewhere keeps it: the rows of the session go with it.
LEMMA RevokeElsewhereKeeps == ASSUME Inv, NEW n \in rows, RevokeElsewhere(n) PROVE Inv'
<1>1. /\ Revoke(family[n], {n}) /\ due' = due /\ past' = past /\ adrift' = adrift
      /\ UNCHANGED <<jar, tab, ref, req, post>>
  BY Zenon DEF RevokeElsewhere, clock
<1>2. DbTypes /\ Database /\ n \in 1..issued BY Zenon DEF Inv, DbTypes
<1>3. DbTypes' /\ Database' /\ Ages /\ RowsKept /\ TokensKept /\ issued' = issued
  BY <1>1, <1>2, RevokeDb, Zenon
<1>4. Calm' <=> Calm BY <1>3, CalmStays, Zenon
<1>5. ClockTypes' /\ AdriftTypes' /\ GivenUp'
  BY <1>1, <1>3, <1>4, Zenon DEF Inv, ClockTypes, AdriftTypes, GivenUp
<1> QED BY <1>1, <1>3, <1>5, ServerStep, Zenon

\* Both statements of the logout-all keep it.
LEMMA WipeKeeps == ASSUME Inv, WipeBump \/ WipeDelete PROVE Inv'
<1>1. /\ due' = due /\ past' = past /\ adrift' = adrift /\ UNCHANGED <<jar, tab, ref, req, post>>
      /\ scene' = scene /\ issued' = issued /\ family' = family /\ tomb' = tomb /\ revoked' = revoked
  BY Zenon DEF WipeBump, WipeDelete, clock
<1>2. DbTypes /\ Database BY Zenon DEF Inv
<1>3. DbTypes' /\ Database' /\ Ages /\ RowsKept /\ TokensKept
  <2>1. CASE WipeBump
    <3>1. wiping = "no" /\ wiping' = "bumped" /\ rows' = rows /\ outdated' = {family[n] : n \in 1..issued}
      BY <2>1, Zenon DEF WipeBump
    <3>2. outdated \subseteq 1..issued /\ outdated' \subseteq 1..issued
      BY <1>2, <3>1, FamilyKnown, Zenon DEF DbTypes
    <3>3. outdated \subseteq outdated' BY <1>2, <3>1, Zenon DEF Database
    <3>4. DbTypes' BY <1>1, <1>2, <3>1, <3>2, Zenon DEF DbTypes
    <3>5. Database' BY <1>1, <1>2, <3>1, Zenon DEF Database, OneCredential
    <3>6. Ages BY <1>1, <1>2, <3>1, <3>3, SMTT(30) DEF Ages, DbTypes, Pairs
    <3> QED BY <1>1, <3>1, <3>4, <3>5, <3>6, Zenon DEF RowsKept, TokensKept
  <2>2. CASE WipeDelete
    <3>1. wiping' = "done" /\ rows' = {} /\ outdated' = outdated
      BY <2>2, Zenon DEF WipeDelete
    <3>2. DbTypes' BY <1>1, <1>2, <3>1, Zenon DEF DbTypes
    <3>3. Database' BY <1>1, <1>2, <3>1, Zenon DEF Database, OneCredential
    <3>4. Ages BY <1>1, <1>2, <3>1, SMTT(30) DEF Ages, DbTypes, Pairs
    <3>5. RowsKept /\ TokensKept BY <1>1, <3>1, Zenon DEF RowsKept, TokensKept, Stored
    <3> QED BY <3>2, <3>3, <3>4, <3>5, Zenon
  <2> QED BY <2>1, <2>2, Zenon
<1>4. Calm' <=> Calm BY <1>3, CalmStays, Zenon
<1>5. ClockTypes' /\ AdriftTypes' /\ GivenUp'
  BY <1>1, <1>4, Zenon DEF Inv, ClockTypes, AdriftTypes, GivenUp
<1> QED BY <1>1, <1>3, <1>5, ServerStep, Zenon

\* Adrift keeps it: what the server handles late exists only with faults.
LEMMA AdriftKeeps == ASSUME Inv, NEW a \in adrift, Adrift(a) PROVE Inv'
<1>1. /\ adrift' = adrift \ {a} /\ due' = due /\ past' = past
      /\ UNCHANGED <<jar, tab, ref, req, post>>
  BY Zenon DEF Adrift, clock
<1>2. DbTypes /\ Database /\ a.pair \in 1..issued /\ ~Calm BY Zenon DEF Inv, GivenUp
<1>3. DbTypes' /\ Database' /\ Ages
  <2>1. CASE Rotates(a.pair) /\ issued < MaxPairs /\ Rotate(a.pair)
    BY <1>2, <2>1, RotateDb, Zenon
  <2>2. CASE Revoke(family[a.pair], {a.pair}) BY <1>2, <2>2, RevokeDb, Zenon
  <2>3. CASE UNCHANGED server BY <1>2, <2>3, SameDb, Zenon
  <2> QED BY <2>1, <2>2, <2>3, Zenon DEF Adrift
<1>4. ~Calm' BY <1>2, <1>3, CalmStays, Zenon
<1>5. issued <= issued' /\ issued \in Nat /\ issued' \in Nat
  BY <1>2, <1>3, SMTT(30) DEF Ages, DbTypes, Pairs
<1>6. ClockTypes' BY <1>1, <1>5, SMTT(30) DEF Inv, ClockTypes
<1>7. AdriftTypes' /\ GivenUp' BY <1>1, <1>4, <1>5, SMTT(30) DEF Inv, AdriftTypes, GivenUp
<1> QED BY <1>1, <1>2, <1>3, <1>6, <1>7, ServerStep, Zenon

\* The clock keeps it.
LEMMA ClockKeeps == ASSUME Inv, ComesDue \/ Expires PROVE Inv'
<1>1. UNCHANGED server /\ adrift' = adrift /\ UNCHANGED <<jar, tab, ref, req, post>>
  BY Zenon DEF ComesDue, Expires
<1>2. \/ due < issued /\ due' = due + 1 /\ past' = past
      \/ past < due /\ past' = past + 1 /\ due' = due
  BY Zenon DEF ComesDue, Expires
<1>3. DbTypes /\ Database BY Zenon DEF Inv
<1>4. DbTypes' /\ Database' /\ Ages /\ RowsKept /\ TokensKept /\ issued' = issued
  BY <1>1, <1>3, SameDb, Zenon
<1>5. issued \in Nat /\ due \in 0..issued /\ past \in 0..due BY <1>3, SMTT(30)
                                                             DEF Inv, DbTypes, ClockTypes, Pairs
<1>6. ClockTypes' BY <1>2, <1>4, <1>5, SMTT(30) DEF ClockTypes
<1>7. AdriftTypes' /\ GivenUp' BY <1>1, GivenUpKept, Zenon
<1> QED BY <1>1, <1>4, <1>6, <1>7, ServerStep, Zenon

\* So does a stuttering step.
LEMMA StutterKeeps == ASSUME Inv, UNCHANGED vars PROVE Inv'
<1>1. UNCHANGED server /\ adrift' = adrift /\ UNCHANGED <<jar, tab, ref, req, post>>
      /\ due' = due /\ past' = past
  BY Zenon DEF vars, clock
<1>2. DbTypes /\ Database BY Zenon DEF Inv
<1>3. DbTypes' /\ Database' /\ Ages /\ RowsKept /\ TokensKept /\ issued' = issued
  BY <1>1, <1>2, SameDb, Zenon
<1>4. ClockTypes' BY <1>1, <1>3, Zenon DEF Inv, ClockTypes
<1>5. AdriftTypes' /\ GivenUp' BY <1>1, GivenUpKept, Zenon
<1> QED BY <1>1, <1>3, <1>4, <1>5, ServerStep, Zenon

-----------------------------------------------------------------------------
(* The invariant and what follows from it *)

\* The invariant holds at first.
LEMMA InitInv == Init => Inv
<1> SUFFICES ASSUME Init PROVE Inv OBVIOUS
<1>1. /\ scene \in Scenes /\ issued = 1 /\ family = [n \in Pairs |-> IF n = 1 THEN 1 ELSE 0]
      /\ rows = {1} /\ tomb = {} /\ revoked = {} /\ outdated = {} /\ wiping = "no"
      /\ due = 0 /\ past = 0 /\ jar = 1 /\ adrift = {}
      /\ tab = [t \in Tabs |-> Knows(1)]
      /\ ref = [t \in Tabs |-> NoRefresh] /\ req = [t \in Tabs |-> NoRequest]
      /\ post = [t \in Tabs |-> <<>>]
  BY Zenon DEF Init
<1>2. 1 \in Pairs /\ 1 \in 0..MaxPairs /\ MaxPairs \in Nat BY SessionAssumption, SMTT(30) DEF Pairs
<1>3. DbTypes
  <2>1. family \in [Pairs -> 0..MaxPairs] BY <1>1, <1>2, SMTT(30)
  <2> QED BY <1>1, <1>2, <2>1, SMTT(30) DEF DbTypes
<1>4. ClockTypes /\ jar \in 0..issued BY <1>1, SMTT(30) DEF ClockTypes
<1>5. TabTypes
  <2>1. Knows(1) \in Tab BY <1>2, ConstantsTyped, Zenon
  <2> QED BY <1>1, <2>1, Zenon DEF TabTypes
<1>6. RefTypes /\ ReqTypes BY <1>1, ConstantsTyped, Zenon DEF RefTypes, ReqTypes
<1>7. PostTypes /\ AdriftTypes BY <1>1, SMTT(30) DEF PostTypes, AdriftTypes
<1>8. Database BY <1>1, <1>2, SMTT(30) DEF Database, OneCredential, Pairs
<1>9. \A t \in Tabs : Resting(t) /\ ref[t].pc = "idle" /\ req[t].pc = "idle" /\ req[t].pair = 0
  BY <1>1, Zenon DEF Resting, NoRefresh, NoRequest
<1>10. Excluded BY <1>9, Zenon DEF Excluded, Refreshing
<1>11. Handed /\ GivenUp BY <1>1, Zenon DEF Handed, GivenUp
<1>12. ASSUME NEW t \in Tabs PROVE RefreshSound(t) /\ RequestSound(t)
  <2>1. 0 \in 0..issued BY <1>1, SMTT(30)
  <2>2. RefreshSound(t) BY <1>9, <2>1, Zenon DEF RefreshSound, Resting, Refreshing
  <2>3. RequestSound(t) BY <1>9, <2>1, Zenon DEF RequestSound, Sharing
  <2> QED BY <2>2, <2>3, Zenon
<1> QED BY <1>3, <1>4, <1>5, <1>6, <1>7, <1>8, <1>10, <1>11, <1>12, Zenon DEF Inv

\* Every step keeps the invariant.
LEMMA NextInv == Inv /\ [Next]_vars => Inv'
<1> SUFFICES ASSUME Inv, [Next]_vars PROVE Inv' OBVIOUS
<1>1. ASSUME NEW t \in Tabs, RefreshStep(t) PROVE Inv'
  BY <1>1, TimerKeeps, LockedKeeps, RotatesKeeps, RefusesKeeps, AnsweredKeeps,
     RefreshTimesOutKeeps, Zenon DEF RefreshStep
<1>2. ASSUME NEW t \in Tabs, RequestStep(t) PROVE Inv'
  BY <1>2, AskKeeps, SendKeeps, EndKeeps, UnauthorizedKeeps, LoggedInKeeps, LoggedOutKeeps,
     RequestTimesOutKeeps, Zenon DEF RequestStep
<1> QED
  BY <1>1, <1>2, DeliverKeeps, RevokeElsewhereKeeps, AdriftKeeps, WipeKeeps, ClockKeeps,
     StutterKeeps, Zenon DEF Next

\* Inv holds in every reachable state, for every set of tabs, bound and scenes.
THEOREM Invariance == Spec => []Inv
BY InitInv, NextInv, PTL DEF Spec

\* An answer that makes the browser drop its cookies is only given for a session
\* that is over, and stays right on its way: with any number of tabs, logins and
\* rotations, and with requests that are given up and handled late.
THEOREM ClearedIsOverHolds == Spec => []ClearedIsOver
<1>1. Inv => ClearedIsOver BY Zenon DEF Inv, RefreshSound, ClearedIsOver
<1> QED BY <1>1, Invariance, PTL

\* A session has one stored credential, also with faults; nobody changes the jar
\* under a refresh; and without faults the browser holds the credential of its
\* live session or is about to get it.
THEOREM CredentialKeptHolds == Spec => []CredentialKept
<1>1. Inv => TypeOK
  BY Zenon
  DEF Inv, TypeOK, DbTypes, ClockTypes, TabTypes, RefTypes, ReqTypes, PostTypes, AdriftTypes
<1>2. Inv => OneCredential BY Zenon DEF Inv, Database
<1>3. Inv => JarStable BY Zenon DEF Inv, RefreshSound, JarStable
<1>4. Inv => HoldsCredential
  <2> SUFFICES ASSUME Inv, Calm, jar # 0, Alive(family[jar])
               PROVE  jar \in rows \/ \E t \in Tabs : ref[t].answer = "rotated" /\ ref[t].new \in rows
    BY Zenon DEF HoldsCredential, Calm
  <2>1. Stored(family[jar]) BY Zenon DEF Alive, Stored
  <2>2. CASE jar \in rows BY <2>2, Zenon
  <2>3. CASE jar \notin rows
    <3>1. PICK t \in Tabs : ref[t].answer = "rotated" BY <2>1, <2>3, Zenon DEF Inv, Handed
    <3>2. RefreshSound(t) BY Zenon DEF Inv
    <3>3. jar = ref[t].pair /\ family[ref[t].new] = family[jar]
      BY <3>1, <3>2, Zenon DEF RefreshSound, Refreshing
    <3>4. ref[t].new \in rows BY <2>1, <3>1, <3>2, <3>3, Zenon DEF RefreshSound
    <3> QED BY <3>1, <3>4, Zenon
  <2> QED BY <2>2, <2>3, Zenon
<1>5. Inv => CredentialKept BY <1>1, <1>2, <1>3, <1>4, Zenon DEF CredentialKept
<1> QED BY <1>5, Invariance, PTL

\* Without faults no refresh of any tab meets a credential that is used up, and
\* no mutation loses its token to a refresh.
THEOREM CoordinatedHolds == Spec => []Coordinated
<1>1. Inv => NeverSuperseded
  <2> SUFFICES ASSUME Inv, Calm PROVE \A t \in Tabs : ref[t].answer # "superseded"
    BY Zenon DEF NeverSuperseded, Calm
  <2> QED BY Zenon DEF Inv, RefreshSound
<1>2. Inv => WriteNotCutOff
  <2> SUFFICES ASSUME Inv, Calm
               PROVE  \A t \in Tabs :
                        Sharing(t) /\ req[t].pair # 0 /\ Alive(family[req[t].pair])
                          => req[t].pair \notin revoked
    BY Zenon DEF WriteNotCutOff, Calm
  <2> QED BY Zenon DEF Inv, RequestSound
<1>3. Inv => Coordinated BY <1>1, <1>2, Zenon DEF Coordinated
<1> QED BY <1>3, Invariance, PTL

==============================================================================
