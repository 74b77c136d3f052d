------------------------ MODULE NotificationDelivery ------------------------
(***************************************************************************)
(* The notification outbox: notification_delivery_jobs, the dispatchers    *)
(* that claim and send them (dispatchDigestNotifications), the hourly      *)
(* retry queue (retryDueNotificationDeliveries), and what the owners do to *)
(* their connections and accounts meanwhile.                               *)
(*                                                                         *)
(* A key is a digest run and a route; the idempotency key of a job is a    *)
(* function of the two, as endpoint and route_version of a route never     *)
(* change.  Keys holds the pairs with leads for the route; the others take *)
(* no step that changes state.  Every SQL statement or transaction is one  *)
(* step, and so is a provider call.  A dispatcher in Faulty may crash at   *)
(* any point, freeze, lose an answer or see a statement fail; the others   *)
(* do not.  Clocks are sets: stale holds the jobs in 'sending' for more    *)
(* than two minutes, due the failed jobs whose not_before has passed, and  *)
(* before orders these by it.                                              *)
(***************************************************************************)
EXTENDS Integers, FiniteSets

CONSTANTS
    Owners,        \* the owners of the client profiles, each of one profile
    Runs,          \* digest runs, each of one client profile
    Routes,        \* notification routes, each with its endpoint and account
    OwnerOf,       \* the owner of the profile of each route
    Telegram,      \* the routes of provider telegram; the others are vk or webhook
    Keys,          \* the pairs of a run and a route that has leads in it
    Callers,       \* invocations of deliverCandidatesForRun
    Crons,         \* invocations of the retry queue
    Faulty,        \* the dispatchers that faults may befall
    MaxAttempts,   \* MAX_ATTEMPTS
    Limit,         \* how many batches one invocation of the retry queue takes
    RunIdFits,     \* whether the column digest_run_id can hold a digest run's id
    None           \* no run, no route

Dispatchers == Callers \cup Crons

ASSUME RoutesAreOwned == OwnerOf \in [Routes -> Owners]
ASSUME KeysAreMatched == Keys \subseteq Runs \X Routes
ASSUME TelegramRoutes == Telegram \subseteq Routes
ASSUME RolesAreDistinct == Callers \cap Crons = {}
ASSUME NoneIsNothing == None \notin Runs /\ None \notin Routes
ASSUME PositiveBounds == MaxAttempts \in Nat \ {0} /\ Limit \in Nat \ {0}
ASSUME RunIdFitsIsBoolean == RunIdFits \in BOOLEAN

VARIABLES
    owner,      \* each owner: "active", "left" the workspace of the profile, or "deleted"
    account,    \* provider account and route: "connected" or "revoked"
    endpoint,   \* the status of the endpoint of each route
    job,        \* the row of notification_delivery_jobs of each key
    stale,      \* the jobs whose updated_at is more than two minutes old
    due,        \* the failed jobs whose not_before has passed
    before,     \* the pairs of them of which the first was due earlier
    accepted,   \* how many copies of the digest the provider accepted for each key
    d           \* the local state of each dispatcher

vars == <<owner, account, endpoint, job, stale, due, before, accepted, d>>
connections == <<owner, account, endpoint>>
queue == <<due, before>>

EndpointStatuses == {"pending_bind", "active", "error", "revoked"}
JobStatuses == {"absent", "sending", "sent", "failed", "dead_letter", "cancelled"}
Open == {"absent", "sending", "failed"}
Kinds == {"rate_limited", "permanent", "ambiguous"}
Labels == {"idle", "due", "batch", "expire", "claim", "send", "succeeded", "failed"}

\* A dispatcher between two invocations.  batches are the runs the retry queue
\* still has to dispatch, todo the routes the dispatch still has to visit, tries
\* the attempt_count of the claimed job and kind the class of the provider's error.
Idle == [pc |-> "idle", batches |-> {}, run |-> None, todo |-> {}, route |-> None,
         tries |-> 0, kind |-> "none"]

Init ==
    /\ owner = [o \in Owners |-> "active"]
    /\ account = [r \in Routes |-> "connected"]
    /\ endpoint \in [Routes -> {"pending_bind", "active"}]
    /\ job = [k \in Keys |-> [status |-> "absent", attempts |-> 0]]
    /\ stale = {}
    /\ due = {} /\ before = {}
    /\ accepted = [k \in Keys |-> 0]
    /\ d = [w \in Dispatchers |-> Idle]

At(w, label) == d[w].pc = label
Becomes(w, local) == d' = [d EXCEPT ![w] = local]
Key(w) == <<d[w].run, d[w].route>>
Status(k, s) == job[k].status = s

\* auth_require_active_owner_write: whoever writes a job, an endpoint or an account,
\* the owner of its profile must be an active member of the profile's workspace.  If
\* one row of a statement fails this, the whole statement does.
MayWrite(r) == owner[OwnerOf[r]] = "active"
MayWriteAll(group) == \A k \in group : MayWrite(k[2])

\* The dispatch goes on with the next route, or is over, by itself or by a throw.
NextRoute(w) == Becomes(w, [d[w] EXCEPT !.pc = "expire", !.route = None, !.tries = 0,
                                        !.kind = "none"])
DispatchOver(w) == [Idle EXCEPT !.pc = "batch", !.batches = d[w].batches]
Rejects(w) == Becomes(w, DispatchOver(w))

-----------------------------------------------------------------------------
(* The dispatch of a run *)

\* The conditions of the query for the routes of a dispatch.
RoutableByEndpoint(r) == endpoint[r] = "active"
Routable(r) == account[r] = "connected" /\ endpoint[r] = "active"

\* dispatchDigestNotifications reads the routes once; connections may change while
\* it visits them.
LoadRoutes(w, run, routes) ==
    Becomes(w, [d[w] EXCEPT !.pc = "expire", !.batches = @ \ {run}, !.run = run,
                            !.todo = {r \in routes : Routable(r) /\ <<run, r>> \in Keys}])

\* deliverCandidatesForRun dispatches to Telegram, and then to VK and webhooks; it
\* may be called for a run any number of times.
StartDispatch(w) ==
    /\ At(w, "idle") /\ w \in Callers
    /\ \E run \in Runs, routes \in {Telegram, Routes \ Telegram} : LoadRoutes(w, run, routes)
    /\ UNCHANGED <<connections, job, stale, queue, accepted>>

\* What becomes of a group of jobs left in 'sending': their outcome is not known.
ExpireAsFailed(group) ==
    /\ job' = [k \in Keys |-> IF k \in group THEN [job[k] EXCEPT !.status = "failed"]
                                             ELSE job[k]]
    /\ stale' = stale \ group
Expire(group) ==
    /\ job' = [k \in Keys |-> IF k \in group THEN [job[k] EXCEPT !.status = "dead_letter"]
                                             ELSE job[k]]
    /\ stale' = stale \ group

\* The first statement of claimDeliveryJob.
ExpireStale(w) ==
    /\ At(w, "expire")
    /\ \E r \in d[w].todo :
          LET group == stale \cap {<<d[w].run, r>>} IN
          \/ /\ MayWriteAll(group)
             /\ Expire(group)
             /\ Becomes(w, [d[w] EXCEPT !.pc = "claim", !.todo = @ \ {r}, !.route = r])
          \/ /\ ~MayWriteAll(group)
             /\ Rejects(w)
             /\ UNCHANGED <<job, stale>>
    /\ UNCHANGED <<connections, queue, accepted>>

\* The second one inserts the job or takes it over under this condition.
ClaimableOnce(k) == Status(k, "absent")
ClaimableWhenStale(k) == Status(k, "absent") \/ Status(k, "sending") \/ k \in due
Claimable(k) == Status(k, "absent") \/ k \in due

\* The statement itself is refused if the run's id is no value of the column, or by
\* the trigger, whatever becomes of the conflict.
ClaimIsRefusedByType(r) == ~RunIdFits
ClaimIsRefused(r) == ~RunIdFits \/ ~MayWrite(r)

ClaimJob(w) ==
    LET k == Key(w) IN
    /\ At(w, "claim") /\ ~ClaimIsRefused(d[w].route) /\ Claimable(k)
    /\ job' = [job EXCEPT ![k].status = "sending"]
    /\ stale' = stale \ {k}
    /\ due' = due \ {k}
    /\ before' = {pair \in before : k \notin {pair[1], pair[2]}}
    /\ \/ Becomes(w, [d[w] EXCEPT !.pc = "send", !.tries = job[k].attempts])
       \/ w \in Faulty /\ Rejects(w)                        \* the answer is lost
    /\ UNCHANGED <<connections, accepted>>

\* A job that is not to be had is counted by its state and passed over.
DenyClaim(w) ==
    /\ At(w, "claim") /\ ~ClaimIsRefused(d[w].route) /\ ~Claimable(Key(w))
    /\ NextRoute(w)
    /\ UNCHANGED <<connections, job, stale, queue, accepted>>

RefuseClaim(w) ==
    /\ At(w, "claim") /\ ClaimIsRefused(d[w].route)
    /\ Rejects(w)
    /\ UNCHANGED <<connections, job, stale, queue, accepted>>

\* The provider accepts the message or not, and the call returns or throws.  Only an
\* error that says so leaves no doubt that nothing was accepted
\* (classifyNotificationProviderError).
Send(w) ==
    /\ At(w, "send")
    /\ \/ /\ accepted' = [accepted EXCEPT ![Key(w)] = @ + 1]
          /\ \/ Becomes(w, [d[w] EXCEPT !.pc = "succeeded"])
             \/ Becomes(w, [d[w] EXCEPT !.pc = "failed", !.kind = "ambiguous"])
       \/ /\ \E kind \in Kinds : Becomes(w, [d[w] EXCEPT !.pc = "failed", !.kind = kind])
          /\ UNCHANGED accepted
    /\ UNCHANGED <<connections, job, stale, queue>>

\* WHERE id = $1 AND status = 'sending'
OwnsWhateverStatus(w) == TRUE
OwnsJob(w) == Status(Key(w), "sending")
MayRecord(w) == OwnsJob(w) /\ MayWrite(d[w].route)

\* recordDeliverySuccess: one transaction for the job and the endpoint.  A throw, for
\* whatever reason, is caught like one of the provider.
RecordSuccess(w) ==
    LET k == Key(w)
        caught == Becomes(w, [d[w] EXCEPT !.pc = "failed", !.kind = "ambiguous"]) IN
    /\ At(w, "succeeded")
    /\ \/ /\ MayRecord(w)
          /\ job' = [job EXCEPT ![k] = [status |-> "sent", attempts |-> d[w].tries + 1]]
          /\ stale' = stale \ {k}
          /\ endpoint' = [endpoint EXCEPT ![d[w].route] = "active"]
          /\ NextRoute(w) \/ (w \in Faulty /\ caught)
       \/ /\ ~MayRecord(w) \/ w \in Faulty
          /\ caught
          /\ UNCHANGED <<job, stale, endpoint>>
    /\ UNCHANGED <<owner, account, queue, accepted>>

\* notificationRetryDelaySeconds: whether the attempt has a next one.
IsRetriedWhenAmbiguous(kind, attemptNo) == kind # "permanent" /\ attemptNo < MaxAttempts
IsRetriedOnceMore(kind, attemptNo) == kind = "rate_limited" /\ attemptNo <= MaxAttempts
IsRetried(kind, attemptNo) == kind = "rate_limited" /\ attemptNo < MaxAttempts

\* recordDeliveryFailure: one transaction again, but if it throws the job is left.
RecordFailure(w) ==
    LET k == Key(w)
        attemptNo == d[w].tries + 1 IN
    /\ At(w, "failed")
    /\ \/ /\ MayRecord(w)
          /\ job' = [job EXCEPT ![k] =
                [status |-> IF IsRetried(d[w].kind, attemptNo) THEN "failed" ELSE "dead_letter",
                 attempts |-> attemptNo]]
          /\ stale' = stale \ {k}
          /\ endpoint' = IF d[w].kind = "rate_limited" THEN endpoint
                         ELSE [endpoint EXCEPT ![d[w].route] = "error"]
       \/ /\ ~MayRecord(w) \/ w \in Faulty
          /\ UNCHANGED <<job, stale, endpoint>>
    /\ NextRoute(w)
    /\ UNCHANGED <<owner, account, queue, accepted>>

EndDispatch(w) ==
    /\ At(w, "expire") /\ d[w].todo = {}
    /\ Rejects(w)
    /\ UNCHANGED <<connections, job, stale, queue, accepted>>

-----------------------------------------------------------------------------
(* The retry queue *)

\* Its first statement sweeps the jobs of all keys, whoever owns them.  One row that
\* the trigger refuses ends it, and the invocation with it, without an effect.
SweepNothing(w) ==
    /\ At(w, "idle") /\ w \in Crons
    /\ Becomes(w, [Idle EXCEPT !.pc = "due"])
    /\ UNCHANGED <<connections, job, stale, queue, accepted>>
SweepStale(w) ==
    /\ At(w, "idle") /\ w \in Crons
    /\ MayWriteAll(stale)
    /\ Expire(stale)
    /\ Becomes(w, [Idle EXCEPT !.pc = "due"])
    /\ UNCHANGED <<connections, queue, accepted>>

\* The runs of the due jobs, those first that have been due for longest, up to the
\* limit.  The code dispatches them in this order, here in any.
OldestRuns ==
    {k[1] : k \in {k \in due :
        Cardinality({j[1] : j \in {j \in due : <<j, k>> \in before}} \ {k[1]}) < Limit}}

ReadDue(w) ==
    /\ At(w, "due")
    /\ Becomes(w, [Idle EXCEPT !.pc = "batch", !.batches = OldestRuns])
    /\ UNCHANGED <<connections, job, stale, queue, accepted>>

\* A batch is dispatched to the routes of all providers.
StartBatch(w) ==
    /\ At(w, "batch")
    /\ \E run \in d[w].batches : LoadRoutes(w, run, Routes)
    /\ UNCHANGED <<connections, job, stale, queue, accepted>>

EndBatches(w) ==
    /\ At(w, "batch") /\ d[w].batches = {}
    /\ Becomes(w, Idle)
    /\ UNCHANGED <<connections, job, stale, queue, accepted>>

-----------------------------------------------------------------------------
(* Faults, time and the owners *)

\* A statement that reads, or the first one of a claim, throws: the retry queue goes
\* on with the next batch unless it has read none yet.
Throw(w) ==
    /\ w \in Faulty
    /\ \/ At(w, "due") /\ Becomes(w, Idle)
       \/ At(w, "batch") /\ \E run \in d[w].batches :
             Becomes(w, [d[w] EXCEPT !.batches = @ \ {run}])
       \/ d[w].pc \in {"expire", "claim"} /\ Rejects(w)
    /\ UNCHANGED <<connections, job, stale, queue, accepted>>

Crash(w) ==
    /\ w \in Faulty /\ ~At(w, "idle")
    /\ Becomes(w, Idle)
    /\ UNCHANGED <<connections, job, stale, queue, accepted>>

TwoMinutesPass(k) ==
    /\ Status(k, "sending") /\ k \notin stale
    /\ stale' = stale \cup {k}
    /\ UNCHANGED <<connections, job, queue, accepted, d>>

BackoffElapses(k) ==
    /\ Status(k, "failed") /\ k \notin due
    /\ due' = due \cup {k}
    /\ before' = before \cup (due \X {k})
    /\ UNCHANGED <<connections, job, stale, accepted, d>>

\* bindNotificationEndpoint: the provider calls back from the chat to deliver to.
Bind(r) ==
    /\ endpoint[r] = "pending_bind" /\ MayWrite(r)
    /\ endpoint' = [endpoint EXCEPT ![r] = "active"]
    /\ UNCHANGED <<owner, account, job, stale, queue, accepted, d>>

\* disconnectNotificationConnection
Disconnect(r) ==
    /\ account[r] = "connected" /\ MayWrite(r)
    /\ account' = [account EXCEPT ![r] = "revoked"]
    /\ endpoint' = [endpoint EXCEPT ![r] = "revoked"]
    /\ UNCHANGED <<owner, job, stale, queue, accepted, d>>

\* The deletion of an account cancels the open jobs in the transaction that closes
\* everything else.  Who has left the profile's workspace to a successor is told to
\* hand the data over first.
DeleteAccount(o) ==
    LET theirs == {k \in Keys : OwnerOf[k[2]] = o}
        open == {k \in theirs : job[k].status \in {"sending", "failed"}}
        Closed(status) == [r \in Routes |-> IF OwnerOf[r] = o THEN "revoked" ELSE status[r]] IN
    /\ owner[o] = "active"
    /\ owner' = [owner EXCEPT ![o] = "deleted"]
    /\ account' = Closed(account)
    /\ endpoint' = Closed(endpoint)
    /\ job' = [k \in Keys |-> IF k \in open THEN [job[k] EXCEPT !.status = "cancelled"]
                                            ELSE job[k]]
    /\ stale' = stale \ theirs
    /\ due' = due \ theirs
    /\ before' = {pair \in before : pair[1] \notin theirs /\ pair[2] \notin theirs}
    /\ UNCHANGED <<accepted, d>>

\* An owner hands the workspace over and is then removed from it: mutateMember changes
\* the membership and leaves the profile, its connections and its jobs as they are.
LeaveWorkspace(o) ==
    /\ owner[o] = "active"
    /\ owner' = [owner EXCEPT ![o] = "left"]
    /\ UNCHANGED <<account, endpoint, job, stale, queue, accepted, d>>

\* The membership is made active again by an invite that is accepted.
ReturnToWorkspace(o) ==
    /\ owner[o] = "left"
    /\ owner' = [owner EXCEPT ![o] = "active"]
    /\ UNCHANGED <<account, endpoint, job, stale, queue, accepted, d>>

-----------------------------------------------------------------------------

\* What a dispatcher does by itself once it was invoked.
Step(w) ==
    \/ ReadDue(w) \/ StartBatch(w) \/ EndBatches(w)
    \/ ExpireStale(w) \/ ClaimJob(w) \/ DenyClaim(w) \/ RefuseClaim(w)
    \/ Send(w) \/ RecordSuccess(w) \/ RecordFailure(w) \/ EndDispatch(w)

Time == \E k \in Keys : TwoMinutesPass(k) \/ BackoffElapses(k)

Next ==
    \/ \E w \in Dispatchers :
          StartDispatch(w) \/ SweepStale(w) \/ Step(w) \/ Throw(w) \/ Crash(w)
    \/ Time
    \/ \E r \in Routes : Bind(r) \/ Disconnect(r)
    \/ \E o \in Owners : DeleteAccount(o) \/ LeaveWorkspace(o) \/ ReturnToWorkspace(o)

Spec == Init /\ [][Next]_vars

\* Time passes; a dispatcher that is not faulty is run on, and the scheduler invokes
\* the retry queue again and again.  Nobody has to deliver, bind or disconnect.
FairSpec ==
    /\ Spec
    /\ \A k \in Keys : WF_vars(TwoMinutesPass(k)) /\ WF_vars(BackoffElapses(k))
    /\ \A w \in Dispatchers \ Faulty : WF_vars(Step(w))
    /\ \A w \in Crons \ Faulty : WF_vars(SweepStale(w))

-----------------------------------------------------------------------------
(* Properties *)

Locals == [pc : Labels, batches : SUBSET Runs, run : Runs \cup {None},
           todo : SUBSET Routes, route : Routes \cup {None}, tries : 0..(MaxAttempts - 1),
           kind : Kinds \cup {"none"}]

\* Every variable keeps its type: in particular no attempt is counted past the limit,
\* and only failed jobs are due (recordDeliveryFailure).
TypeOK ==
    /\ owner \in [Owners -> {"active", "left", "deleted"}]
    /\ account \in [Routes -> {"connected", "revoked"}]
    /\ endpoint \in [Routes -> EndpointStatuses]
    /\ job \in [Keys -> [status : JobStatuses, attempts : 0..MaxAttempts]]
    /\ stale \subseteq {k \in Keys : Status(k, "sending")}
    /\ due \subseteq {k \in Keys : Status(k, "failed")}
    /\ before \subseteq due \X due
    /\ accepted \in [Keys -> Nat]
    /\ d \in [Dispatchers -> Locals]

\* However many callers and retries there are, whoever crashes or stalls, the
\* provider accepts the digest of a job at most once (claimDeliveryJob, and the
\* classes of notificationRetryDelaySeconds).
AtMostOneCopy == \A k \in Keys : accepted[k] <= 1

\* A job that is to be tried again was never accepted, and one that is recorded as
\* sent was: no retry repeats a message (recordDeliverySuccess, recordDeliveryFailure).
VerdictsMatchProvider ==
    \A k \in Keys : /\ Status(k, "failed") => accepted[k] = 0
                    /\ Status(k, "sent") => accepted[k] = 1

Holding(w) == d[w].pc \in {"send", "succeeded", "failed"}

\* No two dispatchers work on one job, also when one of them stalled for so long that
\* its job was declared stale: such a job is never handed out again (claimDeliveryJob).
OneSenderPerJob ==
    \A v, w \in Dispatchers : v # w /\ Holding(v) /\ Holding(w) => Key(v) # Key(w)

\* What has failed for a while has an attempt left (the fifth failed attempt moves the
\* job to dead_letter: notificationRetryDelaySeconds).
FailedJobHasAttemptLeft ==
    \A k \in Keys : Status(k, "failed") => job[k].attempts < MaxAttempts

\* A deleted account has no open job: those it had are cancelled, and dispatchers that
\* read the routes before do not open another one (auth_require_active_owner_write).
DeletedOwnerHasNoOpenJob ==
    \A k \in Keys : owner[OwnerOf[k[2]]] = "deleted" =>
        ~Status(k, "sending") /\ ~Status(k, "failed")

\* The verdict of a job is final: no late statement of a dispatcher that lost it, no
\* sweep and no deletion rewrites it.
FinalJobsStay ==
    [][\A k \in Keys : job[k].status \notin Open => job'[k] = job[k]]_vars

Busy(r) == \E w \in Dispatchers : r \in d[w].todo \cup {d[w].route}

\* Once the dispatches under way at its disconnection are through, a route is never
\* sent to again, even if one of them reactivated its endpoint.
DisconnectIsLasting ==
    [][\A r \in Routes :
          account[r] = "revoked" /\ ~Busy(r) =>
             /\ ~Busy(r)'
             /\ \A k \in Keys : k[2] = r => accepted'[k] = accepted[k]]_vars

\* The outbox keeps the promise of SendOnce for the keys of its jobs.
Verdict(k) ==
    IF job[k].status \in Open THEN "open" ELSE IF Status(k, "sent") THEN "sent" ELSE "given_up"

Outbox == INSTANCE SendOnce WITH
    Messages <- Keys, verdict <- [k \in Keys |-> Verdict(k)], copies <- accepted

SendsOnce == Outbox!Spec

\* No job stays in 'sending', whatever became of the dispatcher that claimed it: the
\* sweep of the retry queue finds it, unless it is refused because of a stale job, of
\* whatever owner, whose owner has left (retryDueNotificationDeliveries).
SendingEnds ==
    \A k \in Keys : Status(k, "sending") ~> (~Status(k, "sending") \/ ~MayWriteAll(stale))

\* What a dispatch can deliver: the route is complete and the claim is not refused.
Deliverable(k) == Routable(k[2]) /\ MayWrite(k[2])

\* The head of the retry queue is full of runs that no dispatch can take out of it.
QueueIsClogged ==
    Cardinality({k[1] : k \in {k \in due : ~Deliverable(k)}}) >= Limit

\* A failed job that can be delivered is tried again, however few batches one cron
\* invocation takes: those that have been due for longest come first, and only batches
\* that cannot be delivered, or a sweep that is refused, may keep it waiting.
FailedIsRetried ==
    \A k \in Keys :
        Status(k, "failed") ~>
            \/ ~Status(k, "failed") \/ ~Deliverable(k)
            \/ QueueIsClogged \/ ~MayWriteAll(stale)

-----------------------------------------------------------------------------
(* What the documentation says of the outbox *)

\* docs/notification-delivery.md: "Stale `sending` jobs may be reclaimed after 120
\* seconds."  One that its dispatcher abandoned is not put out of reach instead.
StaleJobsAreReclaimed ==
    [][\A k \in stale :
          MayWrite(k[2])' /\ (\A w \in Dispatchers : Holding(w) => Key(w) # k)
             => job'[k].status # "dead_letter"]_vars

\* docs/notification-delivery.md: "Disconnect first revokes the provider account,
\* endpoint and route in Recruiter Radar."
RevokedEndpointsStay ==
    [][\A r \in Routes : endpoint[r] = "revoked" => endpoint'[r] = "revoked"]_vars

\* deliver-candidates.ts: "Telegram uses the customer's connected BYOB bot when an
\* active endpoint exists."  A dispatch that reaches a route records a job for it.
DispatchedIsRecorded ==
    \A k \in Keys :
        (\E w \in Dispatchers \ Faulty : At(w, "claim") /\ Key(w) = k)
            ~> (~Status(k, "absent") \/ ~MayWrite(k[2]))
=============================================================================
