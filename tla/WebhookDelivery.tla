--------------------------- MODULE WebhookDelivery ---------------------------
(***************************************************************************)
(* Webhook deliveries of one endpoint: the table that is their outbox, the *)
(* queue that wakes workers up, attempts under a lease, retries, replays   *)
(* by the user, the recovery job, and the endpoint being repointed, given  *)
(* a new secret or deleted under all of them.                              *)
(*                                                                         *)
(* A database transaction is one step: the ones that depend on the         *)
(* endpoint lock its row or meet in the lock of the delivery's row.  A     *)
(* lease token is the process that made the claim; a process has one       *)
(* attempt in hand.  `turn`, `got`, `by` and the secret in `owed` are      *)
(* history: they are read by properties only.                              *)
(***************************************************************************)
EXTENDS Naturals

CONSTANTS
  Deliveries,   \* events for the endpoint, one delivery each
  Processes,    \* API calls, worker slots and recovery runs
  Urls,         \* destinations
  Nobody,       \* the NULL lease token
  MaxAttempts,  \* endpoint.maxAttempts
  MaxSecrets,   \* bound: rotations of the signing secret
  MaxReplays    \* bound: replays of one delivery

ASSUME WebhookAssumption ==
  /\ Nobody \notin Processes
  /\ MaxAttempts \in Nat \ {0}
  /\ MaxSecrets \in Nat /\ MaxReplays \in Nat

VARIABLES
  endpoint,     \* the webhook_endpoints row
  row,          \* webhook_deliveries, one row per event
  jobs,         \* waiting or delayed jobs of the notifications queue
  proc,         \* what every process is doing
  turn,         \* turn[d]: replays of d so far
  owed,         \* owed[d]: targetUrl, and the secret d was queued or replayed for
  got,          \* got[d]: the turns whose attempts the receiver accepted
  by            \* by[d]: the turn of the attempt whose outcome is in the row

vars == <<endpoint, row, jobs, proc, turn, owed, got, by>>

Attempts == 1..MaxAttempts
Secrets == 0..MaxSecrets
Turns == 0..MaxReplays
Identity == [url : Urls, secret : Secrets]

\* due abstracts nextAttemptAt: past, to come or NULL.  live is a lease that
\* has not expired.  retired is lastError = DELIVERY_ENDPOINT_CHANGED_REASON.
Row == [status : {"absent", "pending", "failed", "delivered", "dead"},
        count : 0..MaxAttempts, due : {"now", "later", "never"},
        holder : Processes \cup {Nobody}, live : BOOLEAN, retired : BOOLEAN]

Absent == [status |-> "absent", count |-> 0, due |-> "never",
           holder |-> Nobody, live |-> FALSE, retired |-> FALSE]

\* A row as createDelivery and markDeliveryPendingForReplay leave it.
Fresh == [status |-> "pending", count |-> 0, due |-> "now",
          holder |-> Nobody, live |-> FALSE, retired |-> FALSE]

Idle == [pc |-> "idle"]

\* mode: who asked; job: whether a queue job is in hand; n: the attempt;
\* ident: the endpoint as read; turn: the turn of the claim.
Busy == [pc : {"admit", "announce", "open", "claim", "send", "record"},
         mode : {"emit", "replay", "job", "recover"}, job : BOOLEAN,
         d : Deliveries, n : 1..(MaxAttempts + 1), ident : Identity,
         turn : Turns, outcome : {"none", "ok", "retry", "fatal"}]

\* The one type invariant.
TypeOK ==
  /\ endpoint \in [live : BOOLEAN, url : Urls, secret : Secrets]
  /\ row \in [Deliveries -> Row]
  /\ jobs \in SUBSET (Deliveries \X Attempts)
  /\ proc \in [Processes -> Busy \cup {Idle}]
  /\ turn \in [Deliveries -> Turns]
  /\ owed \in [Deliveries -> Identity]
  /\ got \in [Deliveries -> SUBSET Turns]
  /\ by \in [Deliveries -> Turns]

Current == [url |-> endpoint.url, secret |-> endpoint.secret]

Init ==
  /\ endpoint \in [live : {TRUE}, url : Urls, secret : {0}]
  /\ row = [d \in Deliveries |-> Absent]
  /\ jobs = {}
  /\ proc = [p \in Processes |-> Idle]
  /\ turn = [d \in Deliveries |-> 0]
  /\ owed = [d \in Deliveries |-> Current]
  /\ got = [d \in Deliveries |-> {}]
  /\ by = [d \in Deliveries |-> 0]

At(p, pc) == proc[p].pc = pc
Become(p, b) == proc' = [proc EXCEPT ![p] = b]
Finish(p) == Become(p, Idle)
SetRow(d, r) == row' = [row EXCEPT ![d] = r]

Begin(pc, mode, job, d, n) ==
  [pc |-> pc, mode |-> mode, job |-> job, d |-> d, n |-> n, ident |-> Current,
   turn |-> turn[d], outcome |-> "none"]

-----------------------------------------------------------------------------
(* The columns of a delivery *)

Open(r) == r.status \in {"pending", "failed"}

\* Mutant: a lease holds until its holder gives it back.
Bug_UnleasedNever(r) == r.holder = Nobody

\* A claim may be made: no token, or an expired one.
Unleased(r) == r.holder = Nobody \/ ~r.live
Due(r) == Open(r) /\ r.due = "now" /\ Unleased(r)

\* claimDeliveryAttempt
CanClaim(r, n) == Due(r) /\ r.count = n - 1

\* Mutant: outcomes are fenced by the attempt number alone.
Bug_OwnsByCount(r, p, n) == r.count = n - 1

\* The WHERE clause of markDeliveryDelivered, markDeliveryFailed and
\* markDeliveryDead.
Owns(r, p, n) == r.holder = p /\ r.count = n - 1

Settled(r, status, n, due) ==
  [r EXCEPT !.status = status, !.count = n, !.due = due,
            !.holder = Nobody, !.live = FALSE]

\* changesDeliveryDestinationOrSigning
Retires(url, secret) == url # endpoint.url \/ secret # endpoint.secret

\* The updateMany of updateEndpoint.
Retired(r) ==
  IF Open(r)
    THEN [r EXCEPT !.status = "dead", !.due = "never", !.holder = Nobody,
                   !.live = FALSE, !.retired = TRUE]
    ELSE r

\* Mutant: a replay does not ask whether the delivery was retired.
Bug_CanReplayRetired(r, target) == r.status # "absent" /\ Unleased(r)

\* isReplayRefused and the WHERE clause of markDeliveryPendingForReplay; the
\* target of a delivery is the URL it was queued for.
CanReplay(r, target) ==
  /\ r.status # "absent" /\ Unleased(r)
  /\ ~(r.status = "dead" /\ r.retired)
  /\ target = endpoint.url

-----------------------------------------------------------------------------
(* Queueing an event *)

\* queueWebhookEventsDeliveries reads the enabled endpoints.
Emit(p, d) ==
  /\ At(p, "idle") /\ endpoint.live
  /\ Become(p, Begin("admit", "emit", FALSE, d, 1))
  /\ UNCHANGED <<endpoint, row, jobs, turn, owed, got, by>>

\* Mutant: the identity the event was computed for is not compared.
Bug_Admits(ident) == endpoint.live

\* createDelivery's re-check under the endpoint's lock
Admits(ident) == endpoint.live /\ ident = Current

\* createDelivery: an upsert that leaves an existing row alone
Admit(p) ==
  LET d == proc[p].d
      r == IF row[d].status = "absent" THEN Fresh ELSE row[d]
  IN  /\ At(p, "admit")
      /\ IF Admits(proc[p].ident)
           THEN /\ SetRow(d, r)
                /\ owed' = [owed EXCEPT ![d] = IF row[d].status = "absent"
                                                 THEN proc[p].ident ELSE @]
                /\ Become(p, [proc[p] EXCEPT !.pc = "announce", !.n = r.count + 1])
           ELSE UNCHANGED <<row, owed>> /\ Finish(p)
      /\ UNCHANGED <<endpoint, jobs, turn, got, by>>

\* The job a worker has in hand: while it queues the retry, that of the attempt
\* that failed.
JobOf(p) == <<proc[p].d, IF At(p, "announce") THEN proc[p].n - 1 ELSE proc[p].n>>

\* A job id that is waiting, delayed or being worked on
Occupied(d, n) ==
  \/ <<d, n>> \in jobs
  \/ \E p \in Processes : ~At(p, "idle") /\ proc[p].job /\ JobOf(p) = <<d, n>>

\* queueWebhookDeliveryNotification: adding a job whose id is taken changes
\* nothing, and finished jobs are removed.
Announce(p) ==
  LET d == proc[p].d  n == proc[p].n
  IN  /\ At(p, "announce")
      /\ jobs' = IF Occupied(d, n) \/ n > MaxAttempts THEN jobs ELSE jobs \cup {<<d, n>>}
      /\ Finish(p)
      /\ UNCHANGED <<endpoint, row, turn, owed, got, by>>

\* Redis is away.  Whoever queued an event or a replay sends it itself.
AnnounceFails(p) ==
  /\ At(p, "announce")
  /\ IF proc[p].mode \in {"emit", "replay"}
       THEN Become(p, [proc[p] EXCEPT !.pc = "open"])
       ELSE Finish(p)
  /\ UNCHANGED <<endpoint, row, jobs, turn, owed, got, by>>

-----------------------------------------------------------------------------
(* An attempt *)

\* A worker starts on a job.
Take(p, d, n) ==
  /\ At(p, "idle") /\ <<d, n>> \in jobs
  /\ jobs' = jobs \ {<<d, n>>}
  /\ Become(p, Begin("open", "job", TRUE, d, n))
  /\ UNCHANGED <<endpoint, row, turn, owed, got, by>>

\* sendWebhookDelivery reads the row; a replay sent inline takes the number
\* of its attempt from it.
Look(p) ==
  LET r == row[proc[p].d]
  IN  /\ At(p, "open")
      /\ IF Open(r)
           THEN Become(p, [proc[p] EXCEPT !.pc = "claim",
                             !.n = IF proc[p].mode = "replay" THEN r.count + 1 ELSE @])
           ELSE Finish(p)
      /\ UNCHANGED <<endpoint, row, jobs, turn, owed, got, by>>

Claim(p) ==
  LET d == proc[p].d
  IN  /\ At(p, "claim")
      /\ IF CanClaim(row[d], proc[p].n)
           THEN /\ SetRow(d, [row[d] EXCEPT !.holder = p, !.live = TRUE])
                /\ Become(p, [proc[p] EXCEPT !.pc = "send", !.ident = Current,
                                             !.turn = turn[d]])
           ELSE UNCHANGED row /\ Finish(p)
      /\ UNCHANGED <<endpoint, jobs, turn, owed, got, by>>

\* The receiver accepts; the answer may get lost (a timeout, a reset).
Accepted(p) ==
  /\ At(p, "send")
  /\ got' = [got EXCEPT ![proc[p].d] = @ \cup {proc[p].turn}]
  /\ \E o \in {"ok", "retry"} : Become(p, [proc[p] EXCEPT !.pc = "record", !.outcome = o])
  /\ UNCHANGED <<endpoint, row, jobs, turn, owed, by>>

\* URL policy, signing, connection or HTTP status: a failure that is retried
\* or one that is final.
Refused(p) ==
  /\ At(p, "send")
  /\ \E o \in {"retry", "fatal"} : Become(p, [proc[p] EXCEPT !.pc = "record", !.outcome = o])
  /\ UNCHANGED <<endpoint, row, jobs, turn, owed, got, by>>

\* handleWebhookDeliveryFailure gives up.
GivesUp(p) == proc[p].outcome = "fatal" \/ proc[p].n >= MaxAttempts

\* The outcome is written if the claim is still this one, and lost otherwise.
Record(p) ==
  LET d == proc[p].d  n == proc[p].n  o == proc[p].outcome
  IN  /\ At(p, "record")
      /\ IF Owns(row[d], p, n)
           THEN /\ SetRow(d, CASE o = "ok" -> Settled(row[d], "delivered", n, "never")
                               [] o # "ok" /\ GivesUp(p) -> Settled(row[d], "dead", n, "never")
                               [] OTHER -> Settled(row[d], "failed", n, "later"))
                /\ by' = [by EXCEPT ![d] = proc[p].turn]
                /\ IF o = "ok" \/ GivesUp(p)
                     THEN Finish(p)
                     ELSE Become(p, [proc[p] EXCEPT !.pc = "announce", !.n = n + 1,
                                                    !.mode = "job"])
           ELSE UNCHANGED <<row, by>> /\ Finish(p)
      /\ UNCHANGED <<endpoint, jobs, turn, owed, got>>

\* markDeliveryDelivered throws: its error is handled as a failed delivery.
RecordFails(p) ==
  /\ At(p, "record") /\ proc[p].outcome = "ok"
  /\ \E o \in {"retry", "fatal"} : Become(p, [proc[p] EXCEPT !.outcome = o])
  /\ UNCHANGED <<endpoint, row, jobs, turn, owed, got, by>>

\* The process dies, or a statement throws that nothing handles.  BullMQ may
\* hand the job out again.
Abandon(p) ==
  /\ ~At(p, "idle")
  /\ \E again \in BOOLEAN :
       jobs' = IF again /\ proc[p].job /\ JobOf(p) \in Deliveries \X Attempts
                 THEN jobs \cup {JobOf(p)} ELSE jobs
  /\ Finish(p)
  /\ UNCHANGED <<endpoint, row, turn, owed, got, by>>

-----------------------------------------------------------------------------
(* Recovery, replay, time and the endpoint *)

\* recoverDueWebhookDeliveries lists a row.
ListDue(p, d) ==
  /\ At(p, "idle") /\ Due(row[d])
  /\ Become(p, Begin("announce", "recover", FALSE, d, row[d].count + 1))
  /\ UNCHANGED <<endpoint, row, jobs, turn, owed, got, by>>

\* replayWalletWebhookDelivery up to its wake-up
Replay(p, d) ==
  /\ At(p, "idle") /\ turn[d] < MaxReplays
  /\ CanReplay(row[d], owed[d].url)
  /\ SetRow(d, Fresh)
  /\ turn' = [turn EXCEPT ![d] = @ + 1]
  /\ owed' = [owed EXCEPT ![d].secret = endpoint.secret]
  /\ Become(p, Begin("announce", "replay", FALSE, d, 1))
  /\ UNCHANGED <<endpoint, jobs, got, by>>

LeaseExpires(d) ==
  /\ row[d].live
  /\ SetRow(d, [row[d] EXCEPT !.live = FALSE])
  /\ UNCHANGED <<endpoint, jobs, proc, turn, owed, got, by>>

BecomesDue(d) ==
  /\ row[d].due = "later"
  /\ SetRow(d, [row[d] EXCEPT !.due = "now"])
  /\ UNCHANGED <<endpoint, jobs, proc, turn, owed, got, by>>

\* updateEndpoint with a change of the destination or of the secret
UpdateEndpoint(url, secret) ==
  /\ endpoint.live
  /\ url # endpoint.url \/ secret # endpoint.secret
  /\ secret \in {endpoint.secret, endpoint.secret + 1}
  /\ endpoint' = [endpoint EXCEPT !.url = url, !.secret = secret]
  /\ row' = IF Retires(url, secret)
              THEN [d \in Deliveries |-> Retired(row[d])] ELSE row
  /\ UNCHANGED <<jobs, proc, turn, owed, got, by>>

\* deleteEndpoint; the deliveries go with it.
DeleteEndpoint ==
  /\ endpoint.live
  /\ endpoint' = [endpoint EXCEPT !.live = FALSE]
  /\ row' = [d \in Deliveries |-> Absent]
  /\ UNCHANGED <<jobs, proc, turn, owed, got, by>>

-----------------------------------------------------------------------------
Calls(p) ==
  \/ \E d \in Deliveries : Emit(p, d) \/ Replay(p, d)
  \/ Admit(p)

Work(p) ==
  \/ \E d \in Deliveries, n \in Attempts : Take(p, d, n)
  \/ Look(p) \/ Claim(p) \/ Accepted(p) \/ Refused(p) \/ Record(p)

Steps ==
  \/ \E p \in Processes :
       \/ Calls(p) \/ Work(p) \/ Announce(p)
       \/ \E d \in Deliveries : ListDue(p, d)
  \/ \E d \in Deliveries : LeaseExpires(d) \/ BecomesDue(d)

Mishaps == \E p \in Processes : AnnounceFails(p) \/ RecordFails(p)

Deaths == \E p \in Processes : Abandon(p)

Administration ==
  \/ \E u \in Urls, s \in Secrets : UpdateEndpoint(u, s)
  \/ DeleteEndpoint

Next == Steps \/ Mishaps \/ Deaths \/ Administration

Spec == Init /\ [][Next]_vars

\* What a busy process does next, unless it dies.
Proceed(p) ==
  \/ Admit(p) \/ Announce(p) \/ AnnounceFails(p)
  \/ Look(p) \/ Claim(p) \/ Accepted(p) \/ Refused(p) \/ Record(p)

\* Clocks run and processes do not hang.  The recovery job is scheduled every
\* minute; the queue, the database and the processes in the middle of an
\* attempt may fail, and an attempt may outlive its lease, any number of times
\* but not every time.
Fairness ==
  /\ \A p \in Processes : WF_vars(Proceed(p))
  /\ \A d \in Deliveries :
       /\ WF_vars(LeaseExpires(d)) /\ WF_vars(BecomesDue(d))
       /\ SF_vars(\E p \in Processes : ListDue(p, d))
       /\ SF_vars(\E p \in Processes : Announce(p) /\ proc[p].d = d /\ jobs' # jobs)
       /\ \A n \in Attempts :
            /\ SF_vars(\E p \in Processes : Take(p, d, n))
            /\ SF_vars(\E p \in Processes : Look(p) /\ proc[p].d = d /\ proc[p].n = n)
       /\ SF_vars(\E p \in Processes : Claim(p) /\ proc[p].d = d /\ row' # row)
       /\ SF_vars(\E p \in Processes : (Accepted(p) \/ Refused(p)) /\ proc[p].d = d /\ row[d].holder = p)
       /\ SF_vars(\E p \in Processes : Record(p) /\ proc[p].d = d /\ row' # row)

FairSpec == Spec /\ Fairness

-----------------------------------------------------------------------------
\* The outcome in a row stems from an attempt claimed since the last replay,
\* and a delivery counts as delivered only when the receiver accepted that
\* very attempt or one beside it: an attempt that outlives its lease, a
\* replay or a second attempt reports to nobody.
OutcomeIsCurrent ==
  \A d \in Deliveries :
    /\ row[d].status \in {"delivered", "failed"} => by[d] = turn[d]
    /\ row[d].status = "dead" /\ ~row[d].retired => by[d] = turn[d]
    /\ row[d].status = "delivered" => turn[d] \in got[d]

\* An event goes to the URL it was queued for, signed with the secret in force
\* when it was queued or last replayed, although a claim sends to whatever the
\* endpoint is by then.
SentWhereQueued ==
  \A p \in Processes :
    At(p, "send") /\ proc[p].turn = turn[proc[p].d] =>
      proc[p].ident = owed[proc[p].d]

\* A settled delivery is reopened or overturned by nothing but a replay or
\* the deletion of its endpoint.
SettledStays ==
  [][\A d \in Deliveries :
       /\ row[d].status \in {"delivered", "dead"}
       /\ row'[d].status # row[d].status
       => turn'[d] # turn[d] \/ ~endpoint'.live]_vars

\* A retired delivery is never sent again.
RetiredIsFinal ==
  [][\A d \in Deliveries :
       row[d].retired => row'[d].retired \/ ~endpoint'.live]_vars

\* What is over stays over: neither a late outcome nor a wake-up reopens a
\* settled delivery, and no replay brings back a retired one.
FinalStays == SettledStays /\ RetiredIsFinal
=============================================================================
