-------------------------- MODULE TelegramDelivery --------------------------
(***************************************************************************)
(* The Telegram part of deliverCandidatesForRun for one client profile:    *)
(* the batch row of each digest run in digest_delivery_attempts, the       *)
(* shared bot, and the customer's own bots, which the notification outbox  *)
(* serves.                                                                 *)
(*                                                                         *)
(* A deliverer is one invocation, by the Daily Radar or by the delivery    *)
(* route; the claim token it draws is its name.  Every SQL statement and   *)
(* every provider call is one step; any of them may throw, and a deliverer *)
(* may crash or freeze anywhere.  The outbox is NotificationDelivery's:    *)
(* here a deliverer attempts a job in one step, and of the dispatch to VK  *)
(* and webhooks that ends a delivery only what waits for a retry is kept.  *)
(* Web push and email, in between, are AggregateDelivery's.                *)
(***************************************************************************)
EXTENDS Integers, FiniteSets

CONSTANTS
    Runs,           \* digest runs of the profile that have candidates
    Deliverers,     \* invocations of deliverCandidatesForRun
    Bots,           \* customer-managed Telegram endpoints, each with its route
    MaxPosts,       \* how often the shared bot posts one message: 1 + maxRetries
    None            \* no deliverer, no run

ASSUME NoneIsNothing == None \notin Deliverers /\ None \notin Runs
ASSUME MaxPostsAssumption == MaxPosts \in Nat \ {0}

VARIABLES
    tg,         \* the Telegram row of each run: its status and claim token
    sends,      \* how many times the shared bot set out to send a run
    legacy,     \* how many copies of a run's first message it has delivered
    bot,        \* the status of each customer-managed endpoint
    job,        \* the notification job of each run and bot
    retrying,   \* the jobs a retry queue is attempting
    others,     \* the runs with a VK or webhook job that waits to be retried
    custom,     \* how many copies of a run each bot has delivered
    d           \* the local state of each deliverer

bots == <<bot, job, retrying, others, custom>>
vars == <<tg, sends, legacy, bots, d>>

Keys == Runs \X Bots

FailureStates == {"processing", "failed_retryable", "failed_terminal"}
Statuses == {"absent", "sent", "skipped_not_configured"} \cup FailureStates
BotStatuses == {"pending_bind", "active", "error", "revoked"}
\* A job is unmatched when the route of the bot has no leads in the run.
JobStatuses == {"unmatched", "absent", "sending", "sent", "failed", "dead_letter"}
Results == {"sent", "skipped", "processing", "retryable", "terminal"}

Caught == {"route", "loadBots", "custom", "legacy", "finish"}
Ended == {"done", "threw", "crashed"}
Labels == {"idle", "claim", "catch", "others"} \cup Caught \cup Ended

\* A deliverer before it is invoked.  todo and got are the bots left to dispatch to
\* and the results so far, posts how often the shared bot has posted in vain, outcome the
\* status it is about to persist, failures the states of the channels it reports as failed.
Idle == [pc |-> "idle", run |-> None, todo |-> {}, got |-> {}, posts |-> 0,
         outcome |-> "absent", failures |-> {}]

Init ==
    /\ tg = [r \in Runs |-> [status |-> "absent", token |-> None]]
    /\ sends = [r \in Runs |-> 0] /\ legacy = [r \in Runs |-> 0]
    /\ bot \in [Bots -> {"pending_bind", "active"}]
    /\ job \in [Keys -> {"unmatched", "absent"}]
    /\ retrying = {} /\ others = {}
    /\ custom = [k \in Keys |-> 0]
    /\ d = [w \in Deliverers |-> Idle]

At(w, label) == d[w].pc = label
Becomes(w, local) == d' = [d EXCEPT ![w] = local]
Goto(w, label) == Becomes(w, [d[w] EXCEPT !.pc = label])
Run(w) == d[w].run

\* A deliverer leaves the part it was in, the locals of which go out of scope, and
\* adds the states that are failures to its report (isChannelDeliveryFailure).
LeaveWithAny(w, label, states) ==
    Becomes(w, [Idle EXCEPT !.pc = label, !.run = Run(w), !.failures = d[w].failures \cup states])
LeaveForgetting(w, label, states) ==
    Becomes(w, [Idle EXCEPT !.pc = label, !.run = Run(w), !.failures = states \cap FailureStates])
Leave(w, label, states) ==
    Becomes(w, [Idle EXCEPT !.pc = label, !.run = Run(w),
                            !.failures = d[w].failures \cup (states \cap FailureStates)])

Invoke(w) ==
    /\ At(w, "idle")
    /\ \E r \in Runs : Becomes(w, [Idle EXCEPT !.pc = "claim", !.run = r])
    /\ UNCHANGED <<tg, sends, legacy, bots>>

-----------------------------------------------------------------------------
(* The batch row *)

\* The ON CONFLICT condition of the claim.
ClaimableWhenProcessing(r) ==
    tg[r].status \in {"absent", "failed_retryable", "processing"}
Claimable(r) == tg[r].status \in {"absent", "failed_retryable"}

Claim(w) ==
    /\ At(w, "claim") /\ Claimable(Run(w))
    /\ tg' = [tg EXCEPT ![Run(w)] = [status |-> "processing", token |-> w]]
    /\ Goto(w, "route") \/ Goto(w, "threw")             \* or the answer is lost
    /\ UNCHANGED <<sends, legacy, bots>>

\* A row that is not to be had is reported by its status.
Deny(w) ==
    LET status == tg[Run(w)].status IN
    /\ At(w, "claim") /\ ~Claimable(Run(w))
    /\ Leave(w, "others", {status})
    /\ UNCHANGED <<tg, sends, legacy, bots>>

\* hasActiveNotificationEndpoint
Active == {b \in Bots : bot[b] = "active"}

ChooseSender(w) ==
    /\ At(w, "route")
    /\ Goto(w, IF Active # {} THEN "loadBots" ELSE "legacy")
    /\ UNCHANGED <<tg, sends, legacy, bots>>

\* dispatchDigestNotifications reads the routes again.
LoadBots(w) ==
    /\ At(w, "loadBots")
    /\ Becomes(w, [d[w] EXCEPT !.pc = "custom", !.todo = Active])
    /\ UNCHANGED <<tg, sends, legacy, bots>>

\* One attempt at a job that may be claimed: what it is left as, the copies the bot
\* delivered, and the result.  A job whose outcome could not be recorded is left in
\* 'sending', the answer to a recorded success may be lost, and only a rate limit leaves
\* the job to be retried.
Attempts == {<<"sent", 1, "sent">>, <<"sent", 1, "terminal">>, <<"failed", 0, "retryable">>,
             <<"dead_letter", 0, "terminal">>, <<"dead_letter", 1, "terminal">>,
             <<"sending", 0, "retryable">>, <<"sending", 0, "terminal">>,
             <<"sending", 1, "terminal">>}

\* What a dispatch makes of a job; one in 'sending' may turn out to be stale.
Dispatches(k) ==
    CASE job[k] = "unmatched"   -> {<<"unmatched", 0, "skipped">>}
      [] job[k] = "sent"        -> {<<"sent", 0, "skipped">>}
      [] job[k] = "dead_letter" -> {<<"dead_letter", 0, "terminal">>}
      [] job[k] = "sending"     -> {<<"sending", 0, "processing">>, <<"dead_letter", 0, "terminal">>}
      [] job[k] = "failed"      -> Attempts \cup {<<"failed", 0, "retryable">>}
      [] OTHER                  -> Attempts

\* A recorded success marks the endpoint, and so does a recorded failure other than a
\* rate limit; a job that is dead because it was stale leaves its endpoint alone.
Marked(b, status) ==
    CASE status = "sent"        -> {[bot EXCEPT ![b] = "active"]}
      [] status = "dead_letter" -> {bot, [bot EXCEPT ![b] = "error"]}
      [] OTHER                  -> {bot}

\* An attempt at a job changes the job, the copies and the endpoint.
AttemptJob(k, attempt) ==
    /\ job' = [job EXCEPT ![k] = attempt[1]]
    /\ custom' = [custom EXCEPT ![k] = @ + attempt[2]]
    /\ bot' \in IF attempt[1] = job[k] THEN {bot} ELSE Marked(k[2], attempt[1])

DispatchToBot(w) ==
    /\ At(w, "custom")
    /\ \E b \in d[w].todo : \E attempt \in Dispatches(<<Run(w), b>>) :
          /\ AttemptJob(<<Run(w), b>>, attempt)
          /\ Becomes(w, [d[w] EXCEPT !.todo = @ \ {b}, !.got = @ \cup {attempt[3]}])
    /\ UNCHANGED <<tg, sends, legacy, retrying, others>>

\* The status of the Telegram row that follows from the results of the bots.  A
\* dispatch that found no bot any more is neither a success nor retryable.
CustomOutcomeOfNone(got) ==
    IF got \subseteq {"sent", "skipped"} THEN "sent"
    ELSE IF "retryable" \in got /\ got \subseteq {"skipped", "retryable"}
         THEN "failed_retryable" ELSE "failed_terminal"
CustomOutcome(got) ==
    IF got # {} /\ got \subseteq {"sent", "skipped"} THEN "sent"
    ELSE IF "retryable" \in got /\ got \subseteq {"skipped", "retryable"}
         THEN "failed_retryable" ELSE "failed_terminal"

EndCustom(w) ==
    /\ At(w, "custom") /\ d[w].todo = {}
    /\ Becomes(w, [d[w] EXCEPT !.pc = "finish", !.outcome = CustomOutcome(d[w].got)])
    /\ UNCHANGED <<tg, sends, legacy, bots>>

\* sendBatchDigestForRun does not get to the shared bot: nobody is linked, or it has no
\* token or no chat.
RefuseLegacy(w) ==
    /\ At(w, "legacy") /\ d[w].posts = 0
    /\ \E outcome \in {"skipped_not_configured", "failed_terminal"} :
          Becomes(w, [d[w] EXCEPT !.pc = "finish", !.outcome = outcome])
    /\ UNCHANGED <<tg, sends, legacy, bots>>

\* The shared bot posts the first message of the batch.  Any answer but a success, and no
\* answer at all, is followed by another post, although Telegram may have delivered the
\* message; after the last one the batch has failed.  What becomes of a second message
\* makes no difference to the outcome.
SendLegacy(w) ==
    LET posts == d[w].posts + 1 IN
    /\ At(w, "legacy")
    /\ sends' = IF posts = 1 THEN [sends EXCEPT ![Run(w)] = @ + 1] ELSE sends
    /\ \/ /\ legacy' = [legacy EXCEPT ![Run(w)] = @ + 1]
          /\ Becomes(w, [d[w] EXCEPT !.pc = "finish", !.posts = 0, !.outcome = "sent"])
       \/ /\ \E delivered \in {0, 1} : legacy' = [legacy EXCEPT ![Run(w)] = @ + delivered]
          /\ Becomes(w, IF posts = MaxPosts
                        THEN [d[w] EXCEPT !.pc = "finish", !.posts = 0, !.outcome = "failed_terminal"]
                        ELSE [d[w] EXCEPT !.posts = posts])
    /\ UNCHANGED <<tg, bots>>

\* WHERE id = $1 AND processing_claim_token = $2 AND status = 'processing'
OwnsRowByStatus(w) == tg[Run(w)].status = "processing"
OwnsRow(w) == tg[Run(w)] = [status |-> "processing", token |-> w]

CloseRow(w, status) ==
    tg' = IF OwnsRow(w) THEN [tg EXCEPT ![Run(w)] = [status |-> status, token |-> None]]
          ELSE tg

\* Only a success checks that the row was still its own; any throw is caught.
Finish(w) ==
    /\ At(w, "finish")
    /\ CloseRow(w, d[w].outcome)
    /\ \/ /\ d[w].outcome \in {"failed_retryable", "failed_terminal"} \/ OwnsRow(w)
          /\ Leave(w, "others", {d[w].outcome})
       \/ Leave(w, "catch", {})                 \* or the answer is lost
    /\ UNCHANGED <<sends, legacy, bots>>

\* The catch closes the row for good; a throw here leaves deliverCandidatesForRun.
Catch(w) ==
    /\ At(w, "catch")
    /\ CloseRow(w, "failed_terminal")
    /\ Leave(w, "others", {"failed_terminal"}) \/ Goto(w, "threw")
    /\ UNCHANGED <<sends, legacy, bots>>

\* The other channels follow.  The gravest result of the dispatch to VK and webhooks is
\* reported, and rate-limited jobs of theirs wait for a retry.
DispatchOthers(w) ==
    /\ At(w, "others")
    /\ \E states \in {{}} \cup {{s} : s \in FailureStates} :
          /\ \/ others' = others /\ "failed_retryable" \notin states
             \/ others' = others \cup {Run(w)} /\ states # {}
          /\ Leave(w, "done", states)
    /\ UNCHANGED <<tg, sends, legacy, bot, job, retrying, custom>>

-----------------------------------------------------------------------------
(* Faults, the retry queue and the customer *)

\* An await rejects without effect: within the try it is caught, elsewhere not.  Once the
\* shared bot posts, nothing rejects: the loop around the post catches it.
Throw(w) ==
    /\ \/ At(w, "claim") /\ Goto(w, "threw")
       \/ d[w].pc \in Caught /\ d[w].posts = 0 /\ Leave(w, "catch", {})
       \/ At(w, "others") /\ Leave(w, "done", {"failed_terminal"})
    /\ UNCHANGED <<tg, sends, legacy, bots>>

Crash(w) ==
    /\ d[w].pc \notin Ended \cup {"idle"}
    /\ Goto(w, "crashed")
    /\ UNCHANGED <<tg, sends, legacy, bots>>

\* The retry queue dispatches the run of any job that waits to all the bots.  It claims
\* the job, attempts it, and declares it dead when it was left in 'sending'.
RetryClaims(k) ==
    /\ k[1] \in others \/ \E j \in Keys : j[1] = k[1] /\ job[j] = "failed"
    /\ job[k] \in {"absent", "failed"} /\ bot[k[2]] = "active"
    /\ job' = [job EXCEPT ![k] = "sending"]
    /\ retrying' = retrying \cup {k}
    /\ UNCHANGED <<tg, sends, legacy, bot, others, custom, d>>

RetryAttempts(k) ==
    /\ k \in retrying
    /\ retrying' = retrying \ {k}
    /\ \/ job[k] = "sending" /\ \E attempt \in Attempts : AttemptJob(k, attempt)
       \/ /\ job[k] = "dead_letter"
          /\ \E accepted \in {0, 1} : custom' = [custom EXCEPT ![k] = @ + accepted]
          /\ UNCHANGED <<job, bot>>
    /\ UNCHANGED <<tg, sends, legacy, others, d>>

RetrySweeps(k) ==
    /\ job[k] = "sending"
    /\ job' = [job EXCEPT ![k] = "dead_letter"]
    /\ UNCHANGED <<tg, sends, legacy, bot, retrying, others, custom, d>>

RetrySettlesOthers(r) ==
    /\ r \in others
    /\ others' = others \ {r}
    /\ UNCHANGED <<tg, sends, legacy, bot, job, retrying, custom, d>>

Bind(b) ==
    /\ bot[b] = "pending_bind"
    /\ bot' = [bot EXCEPT ![b] = "active"]
    /\ UNCHANGED <<tg, sends, legacy, job, retrying, others, custom, d>>

Disconnect(b) ==
    /\ bot[b] # "revoked"
    /\ bot' = [bot EXCEPT ![b] = "revoked"]
    /\ UNCHANGED <<tg, sends, legacy, job, retrying, others, custom, d>>

-----------------------------------------------------------------------------

\* What a deliverer does by itself.
Step(w) ==
    \/ Claim(w) \/ Deny(w) \/ ChooseSender(w) \/ LoadBots(w) \/ DispatchToBot(w)
    \/ EndCustom(w) \/ RefuseLegacy(w) \/ SendLegacy(w) \/ Finish(w) \/ Catch(w)
    \/ DispatchOthers(w)

Next ==
    \/ \E w \in Deliverers : Invoke(w) \/ Step(w) \/ Throw(w) \/ Crash(w)
    \/ \E k \in Keys : RetryClaims(k) \/ RetryAttempts(k) \/ RetrySweeps(k)
    \/ \E r \in Runs : RetrySettlesOthers(r)
    \/ \E b \in Bots : Bind(b) \/ Disconnect(b)

Spec == Init /\ [][Next]_vars

-----------------------------------------------------------------------------
(* Properties *)

Locals == [pc : Labels, run : Runs \cup {None}, todo : SUBSET Bots, got : SUBSET Results,
           posts : 0..MaxPosts, outcome : Statuses, failures : SUBSET FailureStates]

\* Every variable keeps its type; in particular a batch row takes no status but those
\* the migration names (deliverCandidatesForRun).
TypeOK ==
    /\ tg \in [Runs -> [status : Statuses, token : Deliverers \cup {None}]]
    /\ sends \in [Runs -> Nat] /\ legacy \in [Runs -> Nat]
    /\ bot \in [Bots -> BotStatuses]
    /\ job \in [Keys -> JobStatuses]
    /\ retrying \subseteq Keys /\ others \subseteq Runs
    /\ custom \in [Keys -> Nat]
    /\ d \in [Deliverers -> Locals]

\* However many deliverers and retries there are, and whoever of them crashes or loses an
\* answer, no bot of the customer delivers a run twice, and the shared bot sets out to send
\* it at most once (the claim of the job, the claim of the batch row).  In that one attempt
\* it may deliver as many copies as it posts: callTelegramApiWithRetry repeats a post
\* whose answer was lost.
CopiesAreBounded ==
    /\ \A r \in Runs : sends[r] <= 1 /\ legacy[r] <= MaxPosts * sends[r]
    /\ \A k \in Keys : custom[k] <= 1

\* What the batch row says of the one attempt of the shared bot, which is not made any more
\* once the bots of the customer have delivered the run, and what a job says of the copy
\* of its bot.
RowVerdict(r) ==
    CASE tg[r].status \in {"absent", "processing", "failed_retryable"} -> "open"
      [] tg[r].status = "sent" /\ sends[r] = 1 -> "sent"
      [] OTHER -> "given_up"
JobVerdict(k) ==
    CASE job[k] = "sent" -> "sent" [] job[k] = "dead_letter" -> "given_up" [] OTHER -> "open"

Shared == INSTANCE SendOnce WITH
    Messages <- Runs, verdict <- [r \in Runs |-> RowVerdict(r)], copies <- sends
Own == INSTANCE SendOnce WITH
    Messages <- Keys, verdict <- [k \in Keys |-> JobVerdict(k)], copies <- custom

\* Two deliverers of one run, a retry queue that attempts a job which was swept meanwhile,
\* a crash or a lost answer: through all of them the bots of the customer keep the promise
\* of SendOnce for their jobs, and the shared bot keeps it for its attempts to send a run.
\* No second copy of a job, no second attempt at a run however many posts the first one
\* took, no "sent" without it, and no verdict that is rewritten (the claim of the batch row
\* and its token, the claim of the job).
BotsSendOnce == Shared!Spec /\ Own!Spec

\* No two deliverers hold the batch row of a run, from the claim to the statement that
\* closes the row (processing_claim_token).
OneDelivererPerRun ==
    \A v, w \in Deliverers :
        v # w /\ d[v].pc \in Caught /\ d[w].pc \in Caught => Run(v) # Run(w)

\* Not a single copy was delivered by the shared bot of a run that will be tried again or
\* that counts as skipped, and of a run that counts as sent some bot has delivered a copy,
\* unless the only routes there are have no leads in it (telegramFailureState, telegramOk).
VerdictsAreTrue ==
    \A r \in Runs :
        /\ tg[r].status \in {"failed_retryable", "skipped_not_configured"} => legacy[r] = 0
        /\ tg[r].status = "sent" =>
              \/ legacy[r] > 0
              \/ \E b \in Bots : job[<<r, b>>] = "unmatched" \/ custom[<<r, b>>] = 1

\* "sent and skipped_not_configured are successful final states; failed_terminal and stale
\* processing are never replayed": no late statement of a deliverer or its catch rewrites
\* a final row, and a row in processing is closed only by the one who claimed it.
FinalRowsStay ==
    [][\A r \in Runs :
          /\ tg[r].status \in {"sent", "skipped_not_configured", "failed_terminal"} => tg'[r] = tg[r]
          /\ tg[r].status = "processing" =>
                tg'[r] = tg[r] \/ \E w \in Deliverers : d[w] # d'[w] /\ tg[r].token = w]_vars

\* A delivery that reports no failure leaves the batch row of its run in one of the
\* successful final states, whoever put it there ("callers cannot report a fully
\* successful daily run when an enabled channel failed").
OkReportIsTrue ==
    \A w \in Deliverers :
        At(w, "done") /\ d[w].failures = {} =>
            tg[Run(w)].status \in {"sent", "skipped_not_configured"}

-----------------------------------------------------------------------------
(* What the source says of the delivery *)

\* deliver-candidates.ts: "each channel has a durable claim", and the shared bot "never
\* falls back because that would duplicate messages for already-successful endpoints".
\* The shared bot and a bot of the customer do not both deliver a run.
TelegramOncePerRun ==
    \A k \in Keys : legacy[k[1]] = 0 \/ custom[k] = 0
=============================================================================
