------------------------------ MODULE Transfer ------------------------------
(***************************************************************************)
(* Ownership transfers of one wallet or device, beside the calls that      *)
(* share the resource: initiation, acceptance, refusal, cancellation,      *)
(* confirmation, expiry, and members being added, changed and removed.     *)
(*                                                                         *)
(* Initiation and confirmation are serializable transactions.  They take   *)
(* two steps here, the snapshot and the commit: what they read is in       *)
(* `call`, and a commit of somebody else that wrote one of their rows in   *)
(* between makes them `stale`.  PostgreSQL rolls a stale transaction back, *)
(* and withSerializableConflictRetry tries again or gives up.  The other   *)
(* statements are READ COMMITTED and are one step each; a sharing call     *)
(* reads in one and writes in another, by the id of the row it read.       *)
(***************************************************************************)
CONSTANTS
  Users, Transfers, Calls

VARIABLES
  resourceType,   \* "wallet" or "device"; never changes
  role,       \* wallet_users or device_users of the resource, by user
  grouped,    \* the resource is shared with a group
  column,     \* Device.userId, the owner column devices kept
  transfers,  \* ownership_transfers of the resource
  call        \* what every call in progress has read

vars == <<resourceType, role, grouped, column, transfers, call>>

Roles == {"none", "viewer", "signer", "owner"}

\* late: expiresAt has passed.
Transfer == [status : {"absent", "pending", "accepted", "confirmed",
                       "cancelled", "declined", "expired"},
             from : Users, to : Users, keep : BOOLEAN, late : BOOLEAN]

Idle == [pc |-> "idle"]

\* initiate: the transfer asked for.  confirm and expire: the transfer, and the
\* rows other than the recipient's that are to be removed.
Transaction ==
  [pc : {"initiate"}, from : Users, to : Users, keep : BOOLEAN, stale : BOOLEAN]
  \cup [pc : {"confirm", "expire"}, t : Transfers, others : SUBSET Users, stale : BOOLEAN]

\* gone: the row a sharing call read does not exist any more.
SharingCall ==
  [pc : {"add", "change", "remove"}, user : Users, as : Roles, gone : BOOLEAN]
  \cup [pc : {"group"}, grant : BOOLEAN]

\* The one type invariant.
TypeOK ==
  /\ resourceType \in {"wallet", "device"}
  /\ role \in [Users -> Roles]
  /\ grouped \in BOOLEAN
  /\ column \in Users
  /\ transfers \in [Transfers -> Transfer]
  /\ call \in [Calls -> Transaction \cup SharingCall \cup {Idle}]

Init ==
  /\ resourceType \in {"wallet", "device"}
  /\ \E owner \in Users :
       /\ column = owner
       /\ role \in {r \in [Users -> {"none", "viewer", "owner"}] :
                      \A u \in Users : r[u] = "owner" <=> u = owner}
       /\ transfers = [t \in Transfers |->
            [status |-> "absent", from |-> owner, to |-> owner, keep |-> TRUE, late |-> FALSE]]
  /\ grouped \in BOOLEAN
  /\ call = [c \in Calls |-> Idle]

At(c, pc) == call[c].pc = pc
Open(t) == transfers[t].status \in {"pending", "accepted"}
Owner(u) == role[u] = "owner"

-----------------------------------------------------------------------------
(* Row conflicts *)

\* The rows of k are written by a commit that writes the members `users`, the
\* transfers `ts` and, if `resource`, the wallet's or device's own row, which
\* lockResourceOwnership makes every initiation and confirmation write.
MadeStale(k, users, ts, resource) ==
  CASE k.pc = "initiate" -> resource
    [] k.pc = "expire" -> k.t \in ts
    [] k.pc = "confirm" ->
         \/ resource \/ k.t \in ts
         \/ users \cap ({transfers[k.t].from, transfers[k.t].to} \cup k.others) # {}
    [] OTHER -> FALSE

\* A call after somebody else's commit, which removed the rows of `removed`.
Touched(k, users, removed, ts, resource) ==
  IF MadeStale(k, users, ts, resource) THEN [k EXCEPT !.stale = TRUE]
  ELSE IF k.pc \in {"change", "remove"} /\ k.user \in removed
         THEN [k EXCEPT !.gone = TRUE]
         ELSE k

\* Call c ends with a commit.
Commit(c, users, removed, ts, resource) ==
  call' = [d \in Calls |-> IF d = c THEN Idle
                           ELSE Touched(call[d], users, removed, ts, resource)]

Finish(c) == call' = [call EXCEPT ![c] = Idle]
Begin(c, k) == At(c, "idle") /\ call' = [call EXCEPT ![c] = k]

\* A statement outside every call that writes one transfer.
SetStatus(t, status) ==
  /\ transfers' = [transfers EXCEPT ![t].status = status]
  /\ call' = [d \in Calls |-> Touched(call[d], {}, {}, {t}, FALSE)]
  /\ UNCHANGED <<role, grouped, column>>

-----------------------------------------------------------------------------
(* The transfer *)

\* Mutant: an accepted transfer does not count as active.
Bug_NoActive == \A t \in Transfers : transfers[t].status # "pending"

\* hasActiveTransfer finds nothing
NoActive == \A t \in Transfers : ~Open(t)

\* initiateTransfer up to the end of its checks
InitiateBegin(c, from, to, keep) ==
  /\ from # to /\ Owner(from) /\ NoActive /\ ~Owner(to)
  /\ Begin(c, [pc |-> "initiate", from |-> from, to |-> to, keep |-> keep, stale |-> FALSE])
  /\ UNCHANGED <<role, grouped, column, transfers>>

InitiateCommit(c, t) ==
  LET k == call[c]
  IN  /\ At(c, "initiate") /\ ~k.stale /\ transfers[t].status = "absent"
      /\ transfers' = [transfers EXCEPT ![t] =
           [status |-> "pending", from |-> k.from, to |-> k.to, keep |-> k.keep, late |-> FALSE]]
      /\ Commit(c, {}, {}, {t}, TRUE)
      /\ UNCHANGED <<role, grouped, column>>

\* acceptTransfer: the update is conditional on the status and the clock.
Accept(t) ==
  /\ transfers[t].status = "pending" /\ ~transfers[t].late
  /\ SetStatus(t, "accepted")

Decline(t) == transfers[t].status = "pending" /\ SetStatus(t, "declined")

Cancel(t) == Open(t) /\ SetStatus(t, "cancelled")

\* Mutant: accepted transfers do not expire.
Bug_Expire(t) ==
  /\ transfers[t].status = "pending" /\ transfers[t].late
  /\ SetStatus(t, "expired")

\* expireOverdue, and acceptTransfer finding its transfer overdue
Expire(t) == Open(t) /\ transfers[t].late /\ SetStatus(t, "expired")

\* The clock passes expiresAt.
Lapse(t) ==
  /\ Open(t) /\ ~transfers[t].late
  /\ transfers' = [transfers EXCEPT ![t].late = TRUE]
  /\ UNCHANGED <<role, grouped, column, call>>

\* The checks of confirmTransfer and of the first step of the execution
MayConfirm(t) ==
  /\ transfers[t].status = "accepted"
  /\ ~transfers[t].late => Owner(transfers[t].from)

\* confirmTransfer up to its writes; findOtherMembers reads the rows to delete.
ConfirmBegin(c, t) ==
  /\ MayConfirm(t)
  /\ Begin(c, [pc |-> IF transfers[t].late THEN "expire" ELSE "confirm", t |-> t,
               others |-> {u \in Users \ {transfers[t].to} :
                             ~transfers[t].keep /\ role[u] # "none"},
               stale |-> FALSE])
  /\ UNCHANGED <<role, grouped, column, transfers>>

\* Mutant: the previous owner keeps the role.
Bug_Handed(k) ==
  [u \in Users |-> IF u = transfers[k.t].to THEN "owner"
                   ELSE IF u \in k.others THEN "none" ELSE role[u]]

\* Mutant: access the recipient has already is left as it is.
Bug_HandedOnlyNew(k) ==
  [u \in Users |-> IF u = transfers[k.t].to
                     THEN IF role[u] = "none" THEN "owner" ELSE role[u]
                   ELSE IF u \in k.others THEN "none"
                   ELSE IF u = transfers[k.t].from THEN "viewer" ELSE role[u]]

\* executeWalletTransferTx, executeDeviceTransferTx: the members afterwards
Handed(k) ==
  [u \in Users |-> IF u = transfers[k.t].to THEN "owner"
                   ELSE IF u \in k.others THEN "none"
                   ELSE IF u = transfers[k.t].from THEN "viewer" ELSE role[u]]

Column(t) == IF resourceType = "device" THEN transfers[t].to ELSE column

ConfirmCommit(c) ==
  LET k == call[c]
  IN  /\ At(c, "confirm") /\ ~k.stale
      /\ role' = Handed(k)
      /\ grouped' = (grouped /\ transfers[k.t].keep)
      /\ column' = Column(k.t)
      /\ transfers' = [transfers EXCEPT ![k.t].status = "confirmed"]
      /\ Commit(c, {transfers[k.t].from, transfers[k.t].to} \cup k.others,
               k.others, {k.t}, TRUE)

\* confirmTransfer commits the expiry it found, and then refuses.
ExpireCommit(c) ==
  LET k == call[c]
  IN  /\ At(c, "expire") /\ ~k.stale
      /\ transfers' = [transfers EXCEPT ![k.t].status = "expired"]
      /\ Commit(c, {}, {}, {k.t}, FALSE)
      /\ UNCHANGED <<role, grouped, column>>

\* A stale transaction is rolled back, and so is one whose process dies.  The
\* retry is a new Begin.
RollBack(c) ==
  /\ call[c].pc \in {"initiate", "confirm", "expire"}
  /\ Finish(c)
  /\ UNCHANGED <<role, grouped, column, transfers>>

-----------------------------------------------------------------------------
(* Sharing *)

\* The roles an owner may give.
ShareRoles == IF resourceType = "wallet" THEN {"viewer", "signer"} ELSE {"viewer"}

\* share/user: existing access is changed (a wallet's only, and never the
\* owner's), missing access is added.
ShareBegin(c, by, u, as) ==
  /\ Owner(by) /\ as \in ShareRoles
  /\ \/ /\ role[u] = "none"
        /\ Begin(c, [pc |-> "add", user |-> u, as |-> as, gone |-> FALSE])
     \/ /\ resourceType = "wallet" /\ role[u] \notin {"none", "owner", as}
        /\ Begin(c, [pc |-> "change", user |-> u, as |-> as, gone |-> FALSE])
  /\ UNCHANGED <<role, grouped, column, transfers>>

\* share/user/:targetUserId: the owner cannot be removed.
RemoveBegin(c, by, u) ==
  /\ Owner(by) /\ role[u] \notin {"none", "owner"}
  /\ Begin(c, [pc |-> "remove", user |-> u, as |-> "none", gone |-> FALSE])
  /\ UNCHANGED <<role, grouped, column, transfers>>

Given(k) == k.as

\* addUserToWallet, createDeviceUser: the pair of resource and user is unique.
Add(c) ==
  LET k == call[c]
  IN  /\ At(c, "add")
      /\ IF role[k.user] = "none"
           THEN /\ role' = [role EXCEPT ![k.user] = Given(k)]
                /\ Commit(c, {k.user}, {}, {}, FALSE)
           ELSE UNCHANGED role /\ Finish(c)
      /\ UNCHANGED <<grouped, column, transfers>>

\* updateUserRole
Change(c) ==
  LET k == call[c]
  IN  /\ At(c, "change")
      /\ IF ~k.gone
           THEN /\ role' = [role EXCEPT ![k.user] = Given(k)]
                /\ Commit(c, {k.user}, {}, {}, FALSE)
           ELSE UNCHANGED role /\ Finish(c)
      /\ UNCHANGED <<grouped, column, transfers>>

\* removeUserFromWallet, deleteDeviceUser
Remove(c) ==
  LET k == call[c]
  IN  /\ At(c, "remove")
      /\ IF ~k.gone
           THEN /\ role' = [role EXCEPT ![k.user] = "none"]
                /\ Commit(c, {k.user}, {k.user}, {}, FALSE)
           ELSE UNCHANGED role /\ Finish(c)
      /\ UNCHANGED <<grouped, column, transfers>>

\* share/group
GroupBegin(c, by, grant) ==
  /\ Owner(by)
  /\ Begin(c, [pc |-> "group", grant |-> grant])
  /\ UNCHANGED <<role, grouped, column, transfers>>

\* updateWalletGroup
SetGroup(c) ==
  /\ At(c, "group")
  /\ grouped' = call[c].grant
  /\ Commit(c, {}, {}, {}, TRUE)
  /\ UNCHANGED <<role, column, transfers>>

-----------------------------------------------------------------------------
TransferStep(t) ==
  Accept(t) \/ Decline(t) \/ Cancel(t) \/ Expire(t) \/ Lapse(t)

Transacts(c) ==
  \/ \E from, to \in Users, keep \in BOOLEAN : InitiateBegin(c, from, to, keep)
  \/ \E t \in Transfers : InitiateCommit(c, t) \/ ConfirmBegin(c, t)
  \/ ConfirmCommit(c) \/ ExpireCommit(c) \/ RollBack(c)

Shares(c) ==
  \/ \E by, u \in Users : RemoveBegin(c, by, u) \/ \E as \in Roles : ShareBegin(c, by, u, as)
  \/ \E by \in Users, grant \in BOOLEAN : GroupBegin(c, by, grant)
  \/ Add(c) \/ Change(c) \/ Remove(c) \/ SetGroup(c)

Next ==
  /\ \/ \E t \in Transfers : TransferStep(t)
     \/ \E c \in Calls : Transacts(c) \/ Shares(c)
  /\ UNCHANGED resourceType

Spec == Init /\ [][Next]_vars

\* Time passes, and the maintenance job comes round.
Fairness ==
  \A t \in Transfers : /\ WF_vars(Lapse(t) /\ UNCHANGED resourceType)
                       /\ WF_vars(Expire(t) /\ UNCHANGED resourceType)

FairSpec == Spec /\ Fairness

-----------------------------------------------------------------------------
HasOwner == \E u \in Users : Owner(u)

\* The owner is lost in one way only: a sharing call read the member's row
\* before a confirmation made it the owner's ("Can't remove the owner",
\* wallets/sharing.ts), and writes it afterwards.  No transfer loses the owner.
OwnerKept ==
  [][HasOwner /\ ~HasOwner' =>
       \E c \in Calls :
         /\ call[c].pc \in {"change", "remove"} /\ ~call[c].gone
         /\ Owner(call[c].user) /\ call'[c] = Idle]_vars

\* It never has two, whatever confirmations and sharing calls overlap: the
\* transaction that promotes the recipient demotes or removes the initiator.
SoleOwner == \A u, v \in Users : Owner(u) /\ Owner(v) => u = v

\* At most one transfer of the resource is open, however initiations overlap.
OneActive == \A t, u \in Transfers : Open(t) /\ Open(u) => t = u

\* The owner column of a device names its owner.
ColumnAgrees == resourceType = "device" => \A u \in Users : Owner(u) => column = u

\* An open transfer is to somebody other than the owner, and it is from the
\* present owner if there is one.
OpenByOwner ==
  \A t \in Transfers : Open(t) =>
    ~Owner(transfers[t].to) /\ (HasOwner => Owner(transfers[t].from))

\* Somebody becomes the owner only by a transfer to them from the owner that
\* they had accepted and that is confirmed in the same step; a cancellation or
\* an expiry that committed before keeps it from happening.
OwnershipMoves ==
  [][\A u \in Users :
       ~Owner(u) /\ Owner(u)' =>
         \E t \in Transfers :
           /\ transfers[t].status = "accepted" /\ transfers'[t].status = "confirmed"
           /\ transfers[t].to = u /\ Owner(transfers[t].from)]_vars

\* A transfer that was confirmed, declined, cancelled or expired stays so.
ClosedStays ==
  [][\A t \in Transfers :
       transfers[t].status # "absent" /\ ~Open(t) => transfers'[t] = transfers[t]]_vars

\* Every open transfer is closed in the end, which frees the resource for
\* another one, even when nobody answers.
TransferEnds == \A t \in Transfers : Open(t) ~> ~Open(t)

\* The resource has at most one owner, and the column kept beside the members
\* agrees (executeDeviceTransferTx writes both).
OneOwner == SoleOwner /\ ColumnAgrees

\* At most one offer is open, and it is one the present owner may make.
OneOffer == OneActive /\ OpenByOwner

\* Ownership comes by a confirmed transfer only, and no transfer loses it.
OwnerByTransfer == OwnershipMoves /\ OwnerKept

\* Every open transfer is closed in the end and for good.
EndsForGood == ClosedStays /\ TransferEnds
=============================================================================
