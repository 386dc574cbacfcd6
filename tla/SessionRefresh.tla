--------------------------- MODULE SessionRefresh ---------------------------
(***************************************************************************)
(* A browser session kept alive by refresh-token rotation: the tabs of one *)
(* browser with their shared cookie jar, Web Lock and BroadcastChannel,    *)
(* and the server's session rows.                                          *)
(*                                                                         *)
(* Credentials come in pairs, an access and a refresh token issued in one  *)
(* answer, numbered in the order of issue.  A login starts a family, named *)
(* after its first pair; a rotation issues the next pair of a family.  The *)
(* Web Lock is not a variable: a refresh holds it exclusively while it is  *)
(* "sent" or "answered", a mutation shares it while it is "sent".          *)
(***************************************************************************)
EXTENDS Integers, Sequences

CONSTANTS
  Tabs,
  MaxPairs,   \* bound on the pairs issued
  Scenes      \* what a behaviour is about: the API requests the tabs make, whether
              \* other devices end the session, and whether requests time out and
              \* the server fails

ASSUME SessionAssumption ==
  /\ MaxPairs \in Nat \ {0}
  /\ Scenes \subseteq [kinds : SUBSET {"read", "write", "login", "logout"},
                       elsewhere : BOOLEAN, faults : BOOLEAN]

VARIABLES
  scene,     \* the scene, which never changes
  issued,    \* pairs issued so far
  family,    \* the family of every issued pair (claim sessionFamilyId)
  rows,      \* refresh_tokens: the pairs whose refresh token is stored
  tomb,      \* revoked_refresh_session_families
  revoked,   \* revoked_tokens: the pairs whose access token is revoked
  outdated,  \* families whose sessionVersion claim is old
  wiping,    \* progress of the one logout-all elsewhere
  due,       \* access tokens up to this one expire within the lead time
  past,      \* access tokens up to this one have expired
  jar,       \* the pair in the cookie jar, 0 if there is none
  tab,       \* what each tab knows
  ref,       \* the refresh in flight in each tab (inFlightRefresh)
  req,       \* one API request of each tab
  post,      \* broadcasts on their way to each tab
  adrift     \* requests the browser gave up that the server has yet to handle

server == <<scene, issued, family, rows, tomb, revoked, outdated, wiping>>
clock == <<due, past>>
vars == <<server, clock, jar, tab, ref, req, post, adrift>>

Pairs == 1..MaxPairs
Unasked == -1    \* refreshAccessToken without expiryAtRequestStart
Logout == 0  \* the logout-broadcast; a refresh-complete is its pair

Tab == [user : BOOLEAN, expiry : 0..MaxPairs, armed : BOOLEAN]
Refresh ==
  [pc : {"idle", "queued", "sent", "answered"}, since : Unasked..MaxPairs, pair : 0..MaxPairs,
   answer : {"none", "rotated", "superseded", "terminal", "error"}, new : 0..MaxPairs]
Request ==
  [pc : {"idle", "ready", "sent", "started", "joined"},
   kind : {"read", "write", "login", "logout"},
   seen : 0..MaxPairs, pair : 0..MaxPairs, retry : BOOLEAN]

NoRefresh == [pc |-> "idle", since |-> Unasked, pair |-> 0, answer |-> "none", new |-> 0]
NoRequest == [pc |-> "idle", kind |-> "read", seen |-> 0, pair |-> 0, retry |-> FALSE]
SignedOut == [user |-> FALSE, expiry |-> 0, armed |-> FALSE]
Knows(n) == [user |-> TRUE, expiry |-> n, armed |-> TRUE]

\* The one type invariant.
TypeOK ==
  /\ scene \in Scenes
  /\ issued \in Pairs /\ family \in [Pairs -> 0..MaxPairs]
  /\ rows \subseteq 1..issued /\ tomb \subseteq 1..issued
  /\ revoked \subseteq 1..issued /\ outdated \subseteq 1..issued
  /\ wiping \in {"no", "bumped", "done"}
  /\ due \in 0..issued /\ past \in 0..due
  /\ jar \in 0..issued
  /\ tab \in [Tabs -> Tab] /\ ref \in [Tabs -> Refresh] /\ req \in [Tabs -> Request]
  /\ \A t \in Tabs : \A i \in DOMAIN post[t] : post[t][i] \in 0..issued
  /\ adrift \subseteq [kind : {"refresh", "logout"}, pair : Pairs]

\* One login has been made, and every tab has heard of its expiry (/auth/me).
Init ==
  /\ scene \in Scenes
  /\ issued = 1 /\ family = [n \in Pairs |-> IF n = 1 THEN 1 ELSE 0]
  /\ rows = {1} /\ tomb = {} /\ revoked = {} /\ outdated = {} /\ wiping = "no"
  /\ due = 0 /\ past = 0 /\ jar = 1
  /\ tab = [t \in Tabs |-> Knows(1)]
  /\ ref = [t \in Tabs |-> NoRefresh] /\ req = [t \in Tabs |-> NoRequest]
  /\ post = [t \in Tabs |-> <<>>] /\ adrift = {}

\* A family that can still be renewed.
Alive(f) == f \notin tomb \cup outdated /\ \E n \in rows : family[n] = f

OfFamily(f) == {n \in rows : family[n] = f}

-----------------------------------------------------------------------------
(* The server *)

\* authenticate: an access token is accepted while it is neither expired nor
\* revoked and carries the current session version.
Accepted(n) == n > past /\ n \notin revoked /\ family[n] \notin outdated

\* A new pair in family f (0: a family of its own) replaces the rows `old`.
Issue(f, old) ==
  /\ issued' = issued + 1
  /\ family' = [family EXCEPT ![issued + 1] = IF f = 0 THEN issued + 1 ELSE f]
  /\ rows' = (rows \ old) \cup {issued + 1} /\ UNCHANGED scene

\* Mutant: the replacement is a second row beside the old one.
Bug_Rotate(n) ==
  Issue(family[n], {}) /\ revoked' = revoked \cup {n} /\ UNCHANGED <<tomb, outdated, wiping>>

\* consumeAndReplaceRefreshToken, when the old token is still stored
Rotate(n) ==
  Issue(family[n], {n}) /\ revoked' = revoked \cup {n} /\ UNCHANGED <<tomb, outdated, wiping>>

Rotates(n) == family[n] \notin tomb /\ n \in rows

\* Mutant: a credential that is not stored any more ends the session.
Bug_Refusal(n) == "terminal"

\* classifyMissingToken
Refusal(n) == IF family[n] \notin tomb /\ OfFamily(family[n]) # {} THEN "superseded" ELSE "terminal"

\* revokeLogoutCredentials
Revoke(f, access) ==
  /\ tomb' = tomb \cup {f}
  /\ rows' = rows \ OfFamily(f)
  /\ revoked' = revoked \cup access
  /\ UNCHANGED <<scene, issued, family, outdated, wiping>>

\* Another device of the user revokes this session (revokeSessionById) ...
RevokeElsewhere(n) ==
  /\ scene.elsewhere /\ n \in rows
  /\ Revoke(family[n], {n})
  /\ UNCHANGED <<clock, jar, tab, ref, req, post, adrift>>

\* ... or logs out everywhere, which takes two statements.
WipeBump ==
  /\ scene.elsewhere /\ wiping = "no"
  /\ wiping' = "bumped" /\ outdated' = {family[n] : n \in 1..issued}
  /\ UNCHANGED <<scene, issued, family, rows, tomb, revoked>>
  /\ UNCHANGED <<clock, jar, tab, ref, req, post, adrift>>

WipeDelete ==
  /\ wiping = "bumped"
  /\ wiping' = "done" /\ rows' = {}
  /\ UNCHANGED <<scene, issued, family, tomb, revoked, outdated>>
  /\ UNCHANGED <<clock, jar, tab, ref, req, post, adrift>>

-----------------------------------------------------------------------------
(* The Web Lock *)

Refreshing(t) == ref[t].pc \in {"sent", "answered"}

\* Mutant: a request keeps the lock while it waits for a refresh.
Bug_Sharing(t) == req[t].pc \in {"sent", "started", "joined"} /\ req[t].kind # "read"

\* A mutation between its CSRF header and its answer
Sharing(t) == req[t].pc = "sent" /\ req[t].kind # "read"

MayShare == \A t \in Tabs : ~Refreshing(t)

\* Mutant: a refresh does not wait for mutations.
Bug_MayExcludeRefreshes == \A t \in Tabs : ~Refreshing(t)

MayExclude == \A t \in Tabs : ~Refreshing(t) /\ ~Sharing(t)

-----------------------------------------------------------------------------
(* Broadcasts and the end of a session in a tab *)

Tell(t, m) == [u \in Tabs |-> IF u = t THEN post[u] ELSE Append(post[u], m)]

\* Mutant: the other tabs are not told.
Bug_SignOut(t) == tab' = [tab EXCEPT ![t] = SignedOut] /\ UNCHANGED post

\* triggerTerminalLogout, with UserContext's listener
SignOut(t) == tab' = [tab EXCEPT ![t] = SignedOut] /\ post' = Tell(t, Logout)

\* The onmessage handler of the channel
Deliver(t) ==
  /\ post[t] # <<>>
  /\ tab' = [tab EXCEPT ![t] = IF Head(post[t]) = Logout THEN SignedOut
                               ELSE [@ EXCEPT !.expiry = Head(post[t]), !.armed = TRUE]]
  /\ post' = [post EXCEPT ![t] = Tail(@)]
  /\ UNCHANGED <<server, clock, jar, ref, req, adrift>>

-----------------------------------------------------------------------------
(* The refresh of a tab *)

Queued(since) == [NoRefresh EXCEPT !.pc = "queued", !.since = since]

\* The scheduled timer; it joins a refresh in flight.
Timer(t) ==
  /\ tab[t].armed /\ tab[t].expiry <= due
  /\ tab' = [tab EXCEPT ![t].armed = FALSE]
  /\ ref' = [ref EXCEPT ![t] = IF @.pc = "idle" THEN Queued(Unasked) ELSE @]
  /\ UNCHANGED <<server, clock, jar, req, post, adrift>>

\* hasFreshExpiryRotatedSince
Fresh(t) ==
  /\ tab[t].expiry > due
  /\ ref[t].since \in {Unasked} \cup (0..MaxPairs \ {tab[t].expiry})

Again(r, expiry) == [r EXCEPT !.pc = "ready", !.retry = TRUE, !.seen = expiry, !.pair = 0]

\* The refresh of t ends well.  The request that started it is sent again; one
\* that joined looks first whether the expiry it saw has changed
\* (joinInFlightRefresh), and starts a refresh of its own if not.
Renewed(t, expiry) ==
  IF req[t].pc = "joined" /\ req[t].seen = expiry
    THEN /\ ref' = [ref EXCEPT ![t] = Queued(req[t].seen)]
         /\ req' = [req EXCEPT ![t].pc = "started"]
    ELSE /\ ref' = [ref EXCEPT ![t] = NoRefresh]
         /\ req' = [req EXCEPT ![t] = IF @.pc \in {"started", "joined"}
                                        THEN Again(@, expiry) ELSE @]

\* The refresh of t fails, and with it the request that waits for it.
Failed(t) ==
  /\ ref' = [ref EXCEPT ![t] = NoRefresh]
  /\ req' = [req EXCEPT ![t] = IF @.pc \in {"started", "joined"} THEN NoRequest ELSE @]

\* A logout whose request failed still signs the tab out.
LeavesAnyway(t) == req[t].kind = "logout" /\ req[t].pc \in {"started", "joined"}

FailedForNow(t) ==
  /\ Failed(t)
  /\ IF LeavesAnyway(t) THEN SignOut(t) ELSE UNCHANGED <<tab, post>>

\* Under the lock: nothing to do, or the request goes out with the cookies the
\* jar holds now.  Without a cookie the server answers 400; a family of an old
\* session version is refused before the rotation.
Locked(t) ==
  /\ ref[t].pc = "queued" /\ MayExclude
  /\ IF Fresh(t)
       THEN Renewed(t, tab[t].expiry)
       ELSE /\ ref' = [ref EXCEPT ![t] =
                 IF jar = 0 THEN [@ EXCEPT !.pc = "answered", !.answer = "error"]
                 ELSE IF family[jar] \in outdated
                   THEN [@ EXCEPT !.pc = "answered", !.answer = "terminal", !.pair = jar]
                 ELSE [@ EXCEPT !.pc = "sent", !.pair = jar]]
            /\ UNCHANGED req
  /\ UNCHANGED <<server, clock, jar, tab, post, adrift>>

\* POST /auth/refresh at the server
Answer(t, answer, new) ==
  ref' = [ref EXCEPT ![t].pc = "answered", ![t].answer = answer, ![t].new = new]

ServerRotates(t) ==
  /\ ref[t].pc = "sent" /\ Rotates(ref[t].pair) /\ issued < MaxPairs
  /\ Rotate(ref[t].pair)
  /\ Answer(t, "rotated", issued + 1)
  /\ UNCHANGED <<clock, jar, tab, req, post, adrift>>

ServerRefuses(t) ==
  /\ ref[t].pc = "sent" /\ ~Rotates(ref[t].pair)
  /\ Answer(t, Refusal(ref[t].pair), 0)
  /\ UNCHANGED <<server, clock, jar, tab, req, post, adrift>>

\* The transaction fails; at the bound it always does.
ServerFails(t) ==
  /\ ref[t].pc = "sent" /\ Rotates(ref[t].pair) /\ (scene.faults \/ issued = MaxPairs)
  /\ Answer(t, "error", 0)
  /\ UNCHANGED <<server, clock, jar, tab, req, post, adrift>>

\* setAuthCookies, clearAuthCookies
Cookies(r) ==
  IF r.answer = "rotated" THEN r.new ELSE IF r.answer = "terminal" THEN 0 ELSE jar

\* The answer arrives: the cookies first, then the promise, then the lock.
Answered(t) ==
  LET r == ref[t]
  IN  /\ r.pc = "answered"
      /\ jar' = Cookies(r)
      /\ CASE r.answer = "rotated" ->
                /\ tab' = [tab EXCEPT ![t].expiry = r.new, ![t].armed = TRUE]
                /\ post' = Tell(t, r.new)
                /\ Renewed(t, r.new)
           [] r.answer \in {"superseded", "terminal"} ->
                Failed(t) /\ SignOut(t)
           [] r.answer = "error" -> FailedForNow(t)
      /\ UNCHANGED <<server, clock, adrift>>

\* REFRESH_REQUEST_TIMEOUT_MS passes, in the queue or under the lock.
RefreshTimesOut(t) ==
  /\ scene.faults /\ ref[t].pc # "idle"
  /\ adrift' = adrift \cup (IF ref[t].pc = "sent" THEN {[kind |-> "refresh", pair |-> ref[t].pair]}
                            ELSE {})
  /\ FailedForNow(t)
  /\ UNCHANGED <<server, clock, jar>>

-----------------------------------------------------------------------------
(* API requests *)

\* executeApiOperation: the snapshot of the expiry is taken before the lock.
Ask(t, kind) ==
  /\ req[t].pc = "idle" /\ (kind = "login" <=> ~tab[t].user)
  /\ req' = [req EXCEPT ![t] = [NoRequest EXCEPT !.pc = "ready", !.kind = kind,
                                                 !.seen = tab[t].expiry]]
  /\ UNCHANGED <<server, clock, jar, tab, ref, post, adrift>>

Send(t) ==
  /\ req[t].pc = "ready" /\ (req[t].kind = "read" \/ MayShare)
  /\ req' = [req EXCEPT ![t].pc = "sent", ![t].pair = jar]
  /\ UNCHANGED <<server, clock, jar, tab, ref, post, adrift>>

Passes(t) == req[t].pc = "sent" /\ req[t].pair # 0 /\ Accepted(req[t].pair)

\* A read or a mutation is answered.
Done(t) ==
  /\ req[t].kind \in {"read", "write"} /\ Passes(t)
  /\ req' = [req EXCEPT ![t] = NoRequest]
  /\ UNCHANGED <<server, clock, jar, tab, ref, post, adrift>>

\* A 401.  The first one asks for a refresh, its own or the one in flight.
Unauthorized(t) ==
  /\ req[t].pc = "sent" /\ req[t].kind # "login" /\ ~Passes(t)
  /\ IF req[t].retry
       THEN /\ req' = [req EXCEPT ![t] = NoRequest]
            /\ IF req[t].kind = "logout" THEN SignOut(t) ELSE UNCHANGED <<tab, post>>
            /\ UNCHANGED ref
       ELSE /\ req' = [req EXCEPT ![t].pc = IF ref[t].pc = "idle" THEN "started" ELSE "joined",
                               ![t].pair = 0]
            /\ ref' = [ref EXCEPT ![t] = IF @.pc = "idle" THEN Queued(req[t].seen) ELSE @]
            /\ UNCHANGED <<tab, post>>
  /\ UNCHANGED <<server, clock, jar, adrift>>

\* POST /auth/login
LoggedIn(t) ==
  /\ req[t].pc = "sent" /\ req[t].kind = "login" /\ issued < MaxPairs
  /\ Issue(0, {}) /\ UNCHANGED <<tomb, revoked, outdated, wiping>>
  /\ jar' = issued + 1
  /\ tab' = [tab EXCEPT ![t] = Knows(issued + 1)]
  /\ req' = [req EXCEPT ![t] = NoRequest]
  /\ UNCHANGED <<clock, ref, post, adrift>>

\* Wrong password, or the bound on pairs
LoginRefused(t) ==
  /\ req[t].pc = "sent" /\ req[t].kind = "login"
  /\ req' = [req EXCEPT ![t] = NoRequest]
  /\ UNCHANGED <<server, clock, jar, tab, ref, post, adrift>>

\* POST /auth/logout
LoggedOut(t) ==
  /\ req[t].kind = "logout" /\ Passes(t)
  /\ Revoke(family[req[t].pair], {req[t].pair})
  /\ jar' = 0
  /\ SignOut(t)
  /\ req' = [req EXCEPT ![t] = NoRequest]
  /\ UNCHANGED <<clock, ref, adrift>>

\* The request times out before or after the server has handled it.
RequestTimesOut(t) ==
  /\ scene.faults /\ req[t].pc \in {"ready", "sent"}
  /\ req' = [req EXCEPT ![t] = NoRequest]
  /\ adrift' = adrift \cup (IF req[t].kind = "logout" /\ req[t].pair # 0
                              THEN {[kind |-> "logout", pair |-> req[t].pair]} ELSE {})
  /\ IF req[t].kind = "logout" THEN SignOut(t) ELSE UNCHANGED <<tab, post>>
  /\ UNCHANGED <<server, clock, jar, ref>>

-----------------------------------------------------------------------------
(* What the browser gave up, and time *)

\* The server handles it, or it never arrives.
Adrift(a) ==
  /\ a \in adrift /\ adrift' = adrift \ {a}
  /\ \/ a.kind = "refresh" /\ Rotates(a.pair) /\ issued < MaxPairs /\ Rotate(a.pair)
     \/ a.kind = "logout" /\ Accepted(a.pair) /\ Revoke(family[a.pair], {a.pair})
     \/ UNCHANGED server
  /\ UNCHANGED <<clock, jar, tab, ref, req, post>>

ComesDue ==
  /\ due < issued /\ due' = due + 1
  /\ UNCHANGED <<server, past, jar, tab, ref, req, post, adrift>>

Expires ==
  /\ past < due /\ past' = past + 1
  /\ UNCHANGED <<server, due, jar, tab, ref, req, post, adrift>>

-----------------------------------------------------------------------------
RefreshStep(t) ==
  \/ Timer(t) \/ Locked(t) \/ ServerRotates(t) \/ ServerRefuses(t) \/ ServerFails(t)
  \/ Answered(t) \/ RefreshTimesOut(t)

RequestStep(t) ==
  \/ \E kind \in scene.kinds : Ask(t, kind)
  \/ Send(t) \/ Done(t) \/ Unauthorized(t) \/ LoggedIn(t) \/ LoginRefused(t) \/ LoggedOut(t)
  \/ RequestTimesOut(t)

Next ==
  \/ \E t \in Tabs : RefreshStep(t) \/ RequestStep(t) \/ Deliver(t)
  \/ \E n \in rows : RevokeElsewhere(n)
  \/ \E a \in adrift : Adrift(a)
  \/ WipeBump \/ WipeDelete \/ ComesDue \/ Expires

Spec == Init /\ [][Next]_vars

\* Answers come or time out, timers and messages are delivered, the clock runs,
\* and the Web Lock is granted in the order of the requests.
Fairness ==
  /\ WF_vars(ComesDue) /\ WF_vars(Expires) /\ WF_vars(WipeDelete)
  /\ \A t \in Tabs :
       /\ WF_vars(Timer(t)) /\ WF_vars(Deliver(t)) /\ WF_vars(Answered(t))
       /\ WF_vars(ServerRotates(t) \/ ServerRefuses(t) \/ ServerFails(t))
       /\ WF_vars(Done(t) \/ Unauthorized(t) \/ LoggedIn(t) \/ LoginRefused(t) \/ LoggedOut(t))
       /\ SF_vars(Locked(t)) /\ SF_vars(Send(t))

FairSpec == Spec /\ Fairness

-----------------------------------------------------------------------------
\* While a refresh is out, the jar keeps the cookies it was sent with: no other
\* tab's refresh, login or logout changes them under it, so that its answer
\* replaces or clears just those (authCoordination.ts).
JarStable == \A t \in Tabs : Refreshing(t) /\ ref[t].pair # 0 => jar = ref[t].pair

\* An answer that makes the browser drop its cookies is given only for a session
\* that is over, and stays right until it arrives, whatever was given up and
\* handled late (the classification under the family lock, api/auth/tokens.ts).
ClearedIsOver == \A t \in Tabs : ref[t].answer = "terminal" => ~Alive(family[ref[t].pair])

\* A session has one stored credential, however many refreshes of it overlap.
OneCredential == \A m, n \in rows : family[m] = family[n] => m = n

\* Without timeouts no tab is told that somebody else has used its credential:
\* the second of two refreshes sees the rotated cookie ("no 401, no race, no
\* logout", ADR 0002).
NeverSuperseded == ~scene.faults => \A t \in Tabs : ref[t].answer # "superseded"

\* A mutation in flight is not cut off by a rotation: while its session lives,
\* the access token it carries is not revoked (authCoordination.ts).
WriteNotCutOff ==
  ~scene.faults => \A t \in Tabs :
    Sharing(t) /\ req[t].pair # 0 /\ Alive(family[req[t].pair]) => req[t].pair \notin revoked

\* The browser holds the credential of its live session, or the answer with the
\* new one is on its way; a refresh that fails for now leaves it there
\* ("credentials preserved", refresh.ts).
HoldsCredential ==
  ~scene.faults /\ jar # 0 /\ Alive(family[jar]) =>
    jar \in rows \/ \E t \in Tabs : ref[t].answer = "rotated" /\ ref[t].new \in rows

\* The tabs do not get in each other's way: no refresh meets a credential that
\* is used up, and no mutation loses its token to a refresh.
Coordinated == NeverSuperseded /\ WriteNotCutOff

\* A session has one stored credential, the browser has it or is about to get
\* it, and nobody changes it under a refresh.
CredentialKept == TypeOK /\ OneCredential /\ HoldsCredential /\ JarStable

\* Every request ends: a request never waits for a refresh that waits for the
\* lock the request holds.
RequestSettles == \A t \in Tabs : req[t].pc # "idle" ~> req[t].pc = "idle"

Live == jar # 0 /\ Alive(family[jar])

\* A refresh may fail for now: the server or the network does, or the bound on
\* pairs is reached.
MayFailForNow == scene.faults \/ issued = MaxPairs

\* The tab has nothing under way and no timer, as a scheduled refresh that failed
\* for now leaves it until its next request.
Dormant(t) ==
  ~tab[t].armed /\ ref[t].pc = "idle" /\ req[t].pc = "idle" /\ post[t] = <<>>

\* When a session ends, in this browser or elsewhere, every tab of the browser
\* comes to know: it signs out, unless somebody logs in again.  Only a failure
\* of its refresh can keep a tab from it, by leaving it dormant (refresh.ts
\* arms no timer then), and only until it asks for something.
EndReachesTabs ==
  \A t \in Tabs : tab[t].user /\ ~Live ~>
    ~tab[t].user \/ Live \/ (MayFailForNow /\ Dormant(t))
=============================================================================
