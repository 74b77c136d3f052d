# Verification of Recruiter Radar

TLA+ modules, TLC configurations and TLAPS proofs for the parts of Recruiter Radar
that must not go wrong unattended: the clock that starts a day's work, the four ways
in which a digest leaves the system, the money and the access it buys, the sessions of
the people who use it, their workspaces, what is recorded of an opportunity, and the
bridge to the customer's CRM. Everything here is translated from the source under
`apps/web` and `packages/db`; the file `PROJECT.json` names, for every definition, the
lines it stands for.

Contents:

1. The system
2. The modules, and how they correspond to the code
3. The runs of TLC
4. What is proved
5. What the code and its documents disagree about
6. What is abstracted, and what is not modelled
7. The plan

Run `tlc -config X.cfg M` for the pairs of section 3 and `tlapm M_proofs.tla`
for the modules of section 4.

## 1. The system

Recruiter Radar finds companies that a recruiting agency should write to now. It
ingests vacancies and other evidence, scores companies for each client profile,
and delivers a daily digest to the customer by Telegram, VK, signed webhooks,
web push and email. It is one Next.js application (`apps/web`) on PostgreSQL;
there is no queue and no lock service. Several processes may run at any time:
HTTP handlers, and cron endpoints that GitHub Actions calls three times a day
(and that anybody with the key may call besides). What they share is rows, and
what keeps them apart is the `WHERE` of an `UPDATE` or of an `ON CONFLICT`.

The components, what state they keep, and what is hard about them:

| Component | State | Operations | Interacts with | Hard behaviour | What makes it correct |
|---|---|---|---|---|---|
| **Daily Radar scheduler** (`lib/daily-radar-run-state.ts`, `app/api/cron/daily-radar/route.ts`) | one run row per date, one row per date and profile, a trigger between them | claim the run, heartbeat, claim a profile, attach its digest run, finish both, summarize | source refresh, digest selection, delivery | takeover of a run after two hours, with the old owner alive; crashes; lost answers; three attempts | one digest run delivered per profile and date; final rows stay; a retry is possible where one is promised; an attempt ends |
| **Telegram batch** (`lib/digest/deliver-candidates.ts`, `lib/db.ts`) | a row of `digest_delivery_attempts` per run and profile | claim, choose the sender, send, finalize | outbox, shared bot, Daily Radar | two deliverers, partial success, lost answers, posts that are repeated blindly, the retry queue next to it | one attempt by the shared bot, one copy by each of the customer's; true verdicts; no success reported over a failure |
| **Web push and email** (`lib/webPush.ts`, `lib/email/sendDigestEmail.ts`) | rows of `lead_channel_deliveries`, `web_push_subscriptions` | claim, fence, send, finalize, subscribe, unsubscribe | deliverers | two-hour fence racing a late sender, partial push, retry limit, midnight | one copy per subscription and day; what is retried has reached nobody |
| **Notification outbox** (`lib/notification-dispatch.ts`) | rows of `notification_delivery_jobs`, status of endpoints | dispatch, claim, send, record, sweep, retry | connections, providers, account deletion | ambiguous provider outcomes, stale dispatchers, a batch limit, disconnects, owners who leave | one copy; final verdicts; failed jobs are retried; nothing stays in sending |
| **Notification connections** (`lib/notifications.ts`, `lib/notification-connection-operations.ts`, `lib/notification-vk-reconcile.ts`) | accounts, endpoints, routes, connect sessions, inbound events | connect, bind, disconnect, reconcile | outbox, providers | an inbound event twice, a reconnect over a half-made connection | an identity has one owner; a bind happens once |
| **Account security** (`lib/auth-v2/account-security.ts`) | users, deletion requests, a trigger on every owned table | delete, restore, change email | everything that is owned | writes that race a deletion | nothing is written for a deleted owner |
| **Digest selection and feedback** (`lib/digest.ts`, `lib/digestFeedbackCore.mjs`) | digest runs and candidates, cooldown and suppression per client and company | select, record feedback | Daily Radar | feedback racing a digest; a digest that is selected and never delivered | a company rests as long as the longest cooldown or answer says |
| **Payments, refunds, entitlements** (`lib/payments*.ts`, `lib/paymentRefunds.ts`, `lib/entitlements.ts`) | checkout orders, webhook events with claims, refunds, entitlements | checkout, webhook, refund, reconcile | provider, access checks | webhooks twice and out of order, a crash between payment and entitlement | paid exactly when entitled; no refund twice |
| **Authentication v2** (`lib/auth-v2/sessions.ts`, `challenges.ts`, `passkeys.ts`, `legacy-session.ts`) | sessions with rotating tokens, links, passkeys, the browsers' cookies | sign in by a link, a passkey or an old cookie, rotate, switch the workspace, sign out | everything | two tabs, late and lost answers, a logout that is overtaken | a token works in one workspace; a browser keeps up with its session; signed out stays signed out |
| **Workspaces and teams** (`lib/auth-v2/workspaces.ts`, `workspace-team.ts`) | workspaces, memberships, invitations | invite, accept, change a role, remove, transfer | account deletion | two owners who remove each other | a workspace keeps an owner |
| **Opportunity workflow and outcomes** (`lib/opportunities/opportunity-workflow-*.ts`, `outcome-*.ts`) | workflow rows with versions, an append-only ledger and its projection | transition, append, correct | CRM bridge | stale versions, repeated commands | transitions follow the state machine; projection equals ledger |
| **CRM bridge** (`lib/opportunities/crm-*.ts`) | integrations, credentials, deliveries with claims, callbacks | enqueue, claim, deliver, settle, callback | customer's CRM | rotation during a delivery, callbacks twice | one effect per callback |
| **Commercial signal engine** (`lib/opportunities/*-job.ts`) | append-only events, states, episodes, theses | batch jobs | sources | re-runs | pure, idempotent |
| **Sources and lead discovery** (`lib/lead-discovery`, `lib/sources`, `packages/db/scripts/source-*.mjs`) | schedules and attempts of sources, evidence | refresh, ingest | Daily Radar | a source that fails for days | due sources are tried, others not |
| **Scoring and gates** (`lib/scoring`) | none | score, gate | selection | boundaries | gates agree with their reference |
| **AI enrichment**, **rate limiter**, **telemetry**, **operator tools**, **scripts and deployment**, **interface and rendering** | caches, windows, logs | | | | best effort |

What a day does: a cron request claims the run row of the date; the owner
refreshes sources, derives temporal evidence, and visits the eligible profiles
one after the other. For each it claims the profile row, creates a digest run if
the profile has none today, attaches it, and calls `deliverCandidatesForRun`,
which claims the Telegram batch and sends it by the shared bot or dispatches it
to the customer's own bots, then sends the web push, then the email, then
dispatches to VK and webhooks. Each of these has a durable claim of its own, so
that a second delivery of the same run repeats nothing. A separate cron request
retries the jobs of the outbox that wait for it. The customer meanwhile binds and
disconnects endpoints, subscribes and unsubscribes browsers, or deletes the
account.

## 2. The modules

| Module | What it is |
|---|---|
| `DailyRadar` | the scheduler, one date |
| `NotificationDelivery` | the outbox, of any number of owners |
| `SendOnce` | what the channels promise, abstractly |
| `TelegramDelivery` | the Telegram batch of one profile, next to the customer's bots |
| `AggregateDelivery` | web push and email of one profile |
| `Payments` | orders, notifications of the bank, entitlements and refunds of one owner |
| `WorkspaceTeam` | accounts, workspaces, invites, roles, sessions, and the deletion of an account |
| `AuthSession` | sessions, cookies and the requests between them: signing in, rotating, switching, signing out |
| `OutcomeLedger` | what is recorded of one episode in one profile, the builds and jobs around it |
| `CrmBridge` | one delivery to the CRM, its credential, and the CRM's callbacks |
| `DigestFeedback` | what a client profile is offered, and what becomes of its answers |
| `MC...` | instances for TLC: symmetry and the sets that a cfg cannot write |
| `DailyRadar_proofs`, `NotificationDelivery_proofs`, `TelegramDelivery_proofs`, `AggregateDelivery_proofs`, `Payments_proofs`, `WorkspaceTeam_proofs`, `AuthSession_proofs`, `CrmBridge_proofs` | theorems and proofs |

Conventions shared by all of them:

- **A step is a statement.** One SQL statement, or one transaction, is atomic;
  so is one call to a provider. Between two of them anybody else may move. All
  locals of a handler are one record with a field `pc`, the label of the `await`
  the handler is about to perform; they are reset when they go out of scope.
- **Rows that wait for a conflicting writer.** PostgreSQL evaluates the
  condition of an `UPDATE` or `ON CONFLICT` again after it has waited; hence a
  guarded statement is one step on the current row. A subquery about another row
  is not evaluated again: it sees the snapshot of its statement. Where that row may
  change meanwhile, the statement is two steps, one that reads and one that writes:
  the claim of a profile in `DailyRadar`, the deletion of an account and the switch of
  a session in `WorkspaceTeam`, the exchange of an old cookie in `AuthSession`.
- **Faults.** Any `await` may reject, with its effect (the answer is lost) or
  without it; the action `Throw` is the latter, a disjunct marked "the answer is
  lost" the former. A process may crash between any two steps (`Crash`), and one
  that simply takes no step is frozen; a frozen one may come back after it was
  taken over.
- **Clocks.** Where only an age matters, it is a flag that a step may set, or a
  choice, whenever the timestamp could lie far enough in the past: the run row is
  `stale`, a job is `due`, an aggregate row is `late`, a claim of the webhook or of
  the CRM may be reclaimed. Where dates are compared with each other (`Payments`,
  `OutcomeLedger`) they are a few ticks.
- **Locks.** A transaction is one step if whatever it reads and decides on is
  locked, by it or by a lock that all writers of it take first. Where it is not,
  or where others can see that it waits, it is two steps, and the locks it holds
  between them are a predicate of the program counters (`RowIsFree`,
  `OwnerIsFree`, `WorkspaceIsFree`, `Unlocked`).
- **Names.** A worker, dispatcher or deliverer is one invocation, and its name is
  the random token it draws; a digest run is named by whoever created it.

### DailyRadar

`run` is the row of `daily_radar_run_state` for the date, `prof` the rows of
`daily_radar_profile_run_state`, `h` the handlers, `reply` what they answered.
`delivered` is a history variable: the digest runs with which a delivery of a
profile was entered. `ClaimRun` is `claimDailyRadarRun` with the trigger
`fence_stale_daily_radar_profile_runs` (`Fenced`). `claimDailyRadarProfile` is one
statement with two `EXISTS` about the run row, which see its snapshot and lock nothing:
`BeginClaim` reads the run, and `ClaimProfile` (or `SkipProfile`, if the profile is not
to be had) writes the row, perhaps after a takeover has fenced the others. The field
`claim` of a profile row is a history variable too: whether its last claim was written
under the lease of the run ("timely") or after the run had changed hands ("late"). The
actions from
`RefreshSources` to `LoadEligibleProfiles` are the first half of `POST`; those
from `HeartbeatForProfile` to `CatchProfile` one round of
`generateAndDeliverDigests`; `SummarizeProfiles`, `FinishRun` and `CatchRun` its
end. `AbandonRun` is the catch whose own statement throws, which the code
swallows. The delivery is an arbitrary set of failed channels here: the modules
below say which ones there can be. An invocation that is denied changes nothing
and is a stuttering step.

### NotificationDelivery and SendOnce

`job` is the row of each key, a run and a route (the idempotency key is a
function of the two), `account`, `endpoint` and `owner` the connections,
`accepted` what the providers did. The trigger `auth_require_active_owner_write` runs
before every statement that writes a job, an endpoint or an account, and raises unless
the owner of the profile is an active member of its workspace (`MayWrite`): an owner is
active, has left (`LeaveWorkspace`: handed the workspace over and was removed from it;
`ReturnToWorkspace`: by an invite), or is deleted. A statement fails as a whole if it
fails for one of its rows (`MayWriteAll`), which matters for the sweep, since that is one
statement for the jobs of all owners. A dispatcher is a caller
(`dispatchDigestNotifications` from a delivery) or a cron
(`retryDueNotificationDeliveries`). A claim is the two statements it is in the
code, `ExpireStale` and then `ClaimJob`, `DenyClaim` or `RefuseClaim`. `Send` is
the provider's call with the class that `classifyNotificationProviderError`
gives its error. `RecordSuccess` and `RecordFailure` are the two transactions,
with their effect on the endpoint; a throw of the first is caught and handled as
an ambiguous failure, as in the code. `SweepStale`, `ReadDue`, `StartBatch` and
`EndBatches` are the retry queue.

`SendOnce` knows messages, verdicts and copies: a provider accepts one copy, and
a verdict is recorded once, "sent" only of what was accepted. `Outbox` maps the
jobs to it; a job is given up when it is dead or cancelled. `Pushes` and `Mails` of
`AggregateDelivery` and `Shared` and `Own` of `TelegramDelivery` map the other
channels. Where a model makes the call and the statement that records its answer one
step, that step is `Settle`.

### TelegramDelivery

`tg` is the batch row of a run, `legacy` and `custom` the copies delivered by the
shared bot and by each bot of the customer, `sends` how often the shared bot has set out
to send the run, `bot` and `job` those of the outbox,
which appears here with one step per attempt (what `NotificationDelivery` shows
in detail). Of `SendOnce`, the message of a run to the shared bot is the
attempt to send it, not the copy, and is given up when the row is closed without it; a
job is the message of its bot, and there a copy is a copy. `others` are the runs for which a VK or webhook job waits for its
retry, since the retry queue dispatches such a run to Telegram too. `Claim`,
`Deny`, `ChooseSender`, `LoadBots`, `DispatchToBot`, `EndCustom`, `Finish`, `Catch` and
`DispatchOthers` follow `deliverCandidatesForRun`; web push and email, in between, share
no state with it. `RefuseLegacy` is `sendBatchDigestForRun` without a chat or a token, and
`SendLegacy` is one POST of `callTelegramApiWithRetry` (`lib/telegram.ts`): unless it is
answered with a success it is followed by another, up to `MaxPosts`, whether Telegram has
delivered the message or not. `posts` counts them.

### AggregateDelivery

`push` is the row of `lead_channel_deliveries` of a run, `mail` that of a day,
`pushed` and `mailed` what the providers accepted, `revoked` the subscriptions
that are, `today` the Moscow day. A deliverer runs through
`notifyNewLeadsForRun` and then `sendDigestEmailForProfile`. The preferences and
the leads are read afresh each time and may differ each time. The sending of one
push to all subscriptions is one step, in which each of them answers in its own
way. The email row is found by id and status alone, as in the code, and has no
token. Of `SendOnce`, a push is the message of a run, of which one copy is one for
each subscription at most (`Copies`), and an email that of a day; `failed_terminal`
is given up.

### Payments

`order`, `event`, `ent` and `refund` are the rows of `checkout_orders`,
`billing_webhook_events`, `subscription_entitlements` and `payment_refunds`;
`captured` and `robo` are what Robokassa knows. A worker is an invocation of the
webhook (`Deliver`, `Pay`, `Grant`, `Commit`, `Finish`), of the success page or
the onboarding (`Visit...`), or of the cancel page (`VisitCancel`, `Cancel`). The
transaction of the webhook is three steps, because it waits for two locks and
others see nothing of it until it commits: the row of the order from `Pay` on,
the advisory lock of the owner from `Grant` on, where the start of the new access
is computed. A refund is the operator's request in three steps (`RequestRefund`,
`AskRobokassa` or `LoseAnswer`, `NoteAnswer`) and any number of synchronisations,
each of which asks for the state (`AskState`) and later writes an answer down
(`NoteState`), with the triggers that complete the refund, revoke the access and
compact what is left.

### WorkspaceTeam

A workspace is named after the account it was made for. `member` is
`workspace_members`, `session` the sessions that are not revoked, `keeps` the
workspaces with product rows. Every operation of `workspace-team.ts` is an action
of the member who does it, with the conditions that `lockActorWorkspace` and
`lockMembershipPair` check. Two operations are two steps. The deletion of an
account, `DeleteLook` and `DeleteEnd`, looks for colleagues in the snapshot of a
statement that then waits for the workspace; the account's row is locked between
the two. The switch of a session, `Switch` and `Switched`, checks the membership in
its own snapshot and is seen by others when it commits. `Purge` is the batch that
ends a deletion after its grace period.

### AuthSession

`sess` is the row of each session, with the number of its token, what the last one is
still good for (`prev`: nothing, reading within sixty seconds, or signing out), and
the credential it was made from; `link` the login links and passkey challenges,
`migrated` and `revokedSid` the accounts whose old cookie `rr_sid` is in the ledger of
fingerprints, and `active` the accounts. `cookie`, `legacy` and `pend` are the cookies
of a browser, `req` the requests under way: each carries what was in the cookies when
it was sent, its label `at` is the statement it is about to perform, and its answer
(`out`, `clears`) reaches the browser when it does (`Answer`) or never (`Fail`).
`gone` is a history variable, what the last logout presented, and so is `lost`, the
sessions whose newest token went down with an answer.

`ReadSession` is `readAuthSession` and what the route or the action then does;
`Rotate`, `SwitchWorkspace` and `ConfirmEmail` are the three statements that make a
new token out of the current one. A logout is two statements, `RevokeToken` and
`RevokeLegacy`, the security page reads and then ends sessions (`EndSessions`).
`Consume` and `ReplaceSession` are the two transactions of a login by a link,
`FinishPasskey` is one. The exchange of an old cookie is two steps, since the snapshot
of its statement may be older than a login that records the same cookie
(`BeginExchange`, `FinishExchange`).

### OutcomeLedger

`opp` are the opportunities that the versions of the scoring have for one pair of a
profile and an episode, `events` and `proj` the events of each and their
projection, `episode` the row of `client_episode_state`, `job` what the expiry job
has seen. `Records` is `recordOpportunityOutcomeInTransaction`: the checks
(`Accepts`), the event, `reduceOutcomeProjection` (`Projected`: step by step, or by
`Replay` for a correction, which reads the last of the `Reductions` of the history), and the older statuses written along (`WithStatus`).
`Build...` is the build of the pair in `jobs.ts`, with a new version that
supersedes the old one and keeps what was decided; `Expire...` the job that looks
for what is due and then changes it, opportunity by opportunity; `Rebuild` the
script `rebuild-opportunity-outcomes.mjs --apply`, for which `Rebuilt` is the
reduction in SQL and JavaScript that it does on its own. Its names are kept apart from
those of `CrmBridge`, whose callbacks record outcomes: `CrmBridge_proofs` extends both
and ends with the proofs about `OutcomeLedger`.

### CrmBridge

`claim` and `delivery` are the rows of `opportunity_crm_delivery_claims` and
`opportunity_crm_deliveries` for one event, `att` the requests for it, `crm` the
bodies that the CRM has accepted. `Begin`, `Load` and `Claim` are the statements of
the preparing transaction that wait for something, `Send` is the HTTP request,
`Own` and `Finalize` the second transaction. `Deadlock` is the one that PostgreSQL
breaks between the two: the claim waits for the row it replaces, its owner for the
rows the claim refers to. `Rotate`, `RevokeCredential` and `Callback` are one step
each: they take the row of the integration first.

### DigestFeedback

`row` is the row of `client_digest_org_state` of each company, `dg` the invocations of
`runDigestForClientProfile` and the message that is sent for each, `settled` the buttons
whose event is processed. A digest is two steps, since others see nothing of it until it
commits: `SelectItems` reads which companies may be offered, at the day its transaction
began, and `CommitDigest` writes the candidates and the state of their companies;
`RollBack` is every way to fail. A digest with `skipStateWrite` (the onboarding test)
writes no state, and has each company recorded afterwards (`RecordShown`). `SendMessage`
may never happen; `ExpireButtons` ends what can be pressed. `PressButton`, `CallApi` and
`AnswerOnCard` are the three ways to answer; the first two share `Feedback`, the guarded
statement of `digestFeedbackCore.mjs`. Its names are kept apart from those of
`DailyRadar`, whose handlers make the digests: `DailyRadar_proofs` extends both and ends
with the proofs about `DigestFeedback`.

## 3. The runs of TLC

Every run is `tlc -config <cfg> <module>`; states are the distinct ones, times
those of two workers on a small machine.

| Run (`.cfg`) | Module | Instance | States, time | Result |
|---|---|---|---|---|
| `DailyRadar` | `MCDailyRadar` | 2 invocations, 2 profiles, limits 2 | 1,636,000, 55 s | holds |
| `DailyRadarLiveness` | `MCDailyRadar` | 3 invocations, 1 profile, limits 2, `FairSpec` | 261,000, 125 s | holds |
| `NotificationDelivery` | `MCNotificationDelivery` | 2 runs on one route, an owner who may leave, return and be deleted, a faulty caller, a cron that takes one run at a time, 2 attempts, `FairSpec` | 186,000, 90 s | holds |
| `TelegramDelivery` | `MCTelegramDelivery` | 1 run, 2 deliverers, 2 bots, 2 posts, the retry queue | 800,000, 80 s | holds |
| `AggregateDelivery` | `MCAggregateDelivery` | 1 run, 2 deliverers, 2 subscriptions, 2 days, 2 push attempts | 619,000, 65 s | holds |
| `Payments` | `MCPayments` | 2 orders, 2 workers, 1 refund, 1 fault | 929,000, 60 s | holds |
| `PaymentsRefund` | `MCPayments` | 1 order, 1 worker, 2 refunds of a half or the whole, 2 faults, `FairSpec` | 175,000, 40 s | holds |
| `WorkspaceTeam` | `MCWorkspaceTeam` | 3 accounts, 1 workspace with invites, 2 invites, 2 sessions | 349,000, 80 s | holds |
| `AuthSession` | `MCAuthSession` | 1 browser, 2 requests at a time, 2 sessions with 3 tokens, 1 link or challenge, 2 workspaces | 1,432,000, 60 s | holds |
| `OutcomeLedger` | `MCOutcomeLedger` | 2 versions, 4 events, 2 ticks | 538,000, 90 s | holds |
| `CrmBridge` | `MCCrmBridge` | 3 requests, 2 credentials, 1 CRM event with 2 bodies | 488,000, 20 s | holds |
| `DigestFeedback` | `MCDigestFeedback` | 1 company, 2 invocations, 3 days, answers of 3 kinds | 431,000, 40 s | holds |

What the passing runs show:

- **DailyRadar.** Under any takeover, lost answer, late statement and crash:
  no profile is `running` under a lease that the run does not have, but by a claim that
  was being written when the run changed hands, and a replaced owner has one of those at
  most (`RunningProfilesAreFenced`: the trigger and the conditions on the lease token
  together); a run that is `completed` has no profile that is failed or in flight, with
  the same exception (`CompletedRunHasNoOpenProfile`), and a handler that answered
  `completed` left such a row (`CompletedReplyIsDurable`); all deliveries of a profile
  send one digest run (`OneDigestRunDelivered`). A crash before a digest run is attached
  does leave a second one behind, which is never delivered; what it does to the
  companies is in `DigestFeedback`.
- **DailyRadarLiveness.** Three invocations ask for a run whose limits admit two
  attempts: an owner that neither crashes nor is taken over ends its attempt
  (`NoAttemptHangs`). That no count passes its limit, and that final rows stay, are
  theorems.
- **NotificationDelivery.** The verdict on a job agrees with what the provider did
  (`VerdictsMatchProvider`), a failed job has an attempt left, a deleted owner has
  no open job even when the deletion overtakes a dispatch, the outbox sends a job
  once and decides on it once (`SendsOnce`, the abstract specification), and a
  route that was disconnected is not dispatched to by anybody who looks at it
  afterwards (`DisconnectIsLasting`). No job stays in `sending` (`SendingEnds`), unless
  there is a stale job of an owner who has left, for which the sweep is refused. A failed
  job that can be delivered is tried again (`FailedIsRetried`), although the queue takes
  one batch at a time and the oldest first; it may wait only for such a sweep, or for
  batches that nobody can deliver, if there are as many as the queue takes
  (`QueueIsClogged`). That the safety properties hold for several routes and owners, and
  for crons that crash, are theorems.
- **TelegramDelivery.** The shared bot and the customer's bots keep the promise of
  `SendOnce`, with two deliverers and the retry queue at work (`BotsSendOnce`): a bot of
  the customer delivers a run once, the shared bot sets out to send it once, what is
  recorded as sent was, and no verdict is rewritten. How many copies the one attempt of
  the shared bot delivers is another matter: up to as many as it posts (section 5). Of a
  row that says `sent` some copy was delivered, of one that may be retried none by the
  shared bot, however often it posted (`VerdictsAreTrue`); a delivery
  that reports no failure has left a successful row (`OkReportIsTrue`); only its
  owner closes a row in processing.
- **AggregateDelivery.** Web push and email keep the promise of `SendOnce`
  (`ChannelsSendOnce`): no subscription gets two pushes of a run and no mailbox two
  mails of a day, although an owner that was fenced after two hours may come back; what
  is recorded as sent was, and what a row says in the end stays. A push that is tried
  again has reached nobody (`RetryableIsUnsent`); `OkReportIsTrue` is as above.
- **Payments.** A notification that is acknowledged has left its order paid and
  granted (`ProcessedIsGranted`), though claims are taken over and commits lost;
  no two entitlements overlap, whichever webhooks, pages and refunds commit
  first (`AccessIsOneChain`); access ends by a full refund only, never by a page
  that read the order too early (`AccessEndsByRefund`).
- **PaymentsRefund.** An order is paid or refunded only if the bank did it
  (`MoneyIsReal`); what the bank has collected is granted in the end
  (`CapturedIsGranted`), because a claim in processing can be taken over and a
  failed one is repeated.
- **WorkspaceTeam.** Invites, transfers, returns and deletions in any order never
  make two owners (`OneOwnerAtMost`) and take the owner away by the deletion of the
  account only (`OwnersLeaveByDeletion`); an invite that is accepted while the owner
  leaves puts nobody into a workspace that is being deleted
  (`LeavingWorkspacesAreEmpty`), and whoever leaves keeps no session and no
  membership, not even one that was being opened at that time
  (`LeaversHaveNothing`).
- **AuthSession.** A request that is served works in the workspace for which its token
  was handed out: a switch ends what the last token was good for, and no rotation
  brings it back (`TokensKeepTheirWorkspace`). Answers may arrive late and in any
  order, and yet a browser does not fall behind its session: its cookie names the
  current token, or the next one is on its way, unless that answer was lost
  (`CookieKeepsUp`). Once a logout is answered, the session it presented has ended,
  though a rotation overtook it, and so has what was made from the old cookie, though
  its exchange was under way (`SignedOutStaysOut`); the exception is a session whose
  token changed twice while the logout was waiting, which its cookie no longer names.
- **OutcomeLedger.** The projection that the queues read, written event by event, is
  the one that the script rebuilds, apart from the stage when no commercial event
  counts any more (`ReplayAgrees`); the events that count are a legal history
  whatever was corrected in between (`HistoryIsLegal`). Builds, new versions and jobs
  keep decisions and snoozes but for two ways (`DecisionsOutliveJobs`): what is put off,
  or was when the job looked, expires with its episode or its time; and a snooze that has
  ended leaves the status of the opportunity's own stage, in which a decision that was
  made under an earlier version is not (section 5).
- **CrmBridge.** A recorded success was accepted with the recorded body
  (`SucceededIsReceived`); everybody who asks is told the one recorded result
  (`ToldIsRecorded`); until there is a result the CRM has seen one body at most,
  however many requests took the claim over (`OneBodyUntilSettled`); receipts and
  ledger agree across rotations (`ReceiptsMatchLedger`).
- **DigestFeedback.** Of two digests that overlap, the later commit may be the one that
  began first or has the shorter cooldown: a company that was never answered rests for
  as long as the longest of its digests says, and not a day longer
  (`CooldownIsTheLongest`). No later answer, late commit or click on the card brings a
  company back before the latest date that an answer has set
  (`AnswersKeepTheirEffect`).

Every property of a passing run is broken by a plausible bug in a definition
that models code: `PROJECT.json` lists one such mutant for each (a dropped
condition on the token, a fence that forgets a status, a limit that is off by
one, two statements in the other order).

### Bounds, and why they are enough

- *Invocations.* Two handlers are a racing pair: an owner and whoever takes over.
  A third one is what a limit of two attempts denies, hence
  `DailyRadarLiveness`. An invocation is one
  shot in `DailyRadar` and `TelegramDelivery`/`AggregateDelivery`; the cron of
  the outbox runs again and again, and so do the workers of `Payments`.
- *Limits of attempts.* The code has 3 for runs and profiles, 5 for jobs and pushes.
  With 2 there is a first, a last and one that is too many; the only relation
  between the limits that matters is the assumption `AttemptLimits`, under which
  the theorems hold for any values.
- *Posts.* The code posts a message four times (once and `maxRetries` = 3). With
  `MaxPosts` = 2 there is one that is repeated and one that is the last.
- *Profiles.* One in flight and one before or after it: enough to take a run over
  in the middle of the loop and to mix outcomes in the summary.
- *Runs of a digest.* The claims of two runs share no row; what they do share is the
  batch limit of the retry queue (two runs in `NotificationDelivery`, and a `Limit` of
  one, so that one of them waits while the other is taken) and the email of
  the day (two days for one run: the row of yesterday and that of today).
- *Bots and subscriptions.* Two give every mixture of outcomes: all, none, some.
- *Routes and owners.* One, since a dispatch visits its routes one after the other and
  their jobs share no row; what two owners share is the sweep and the queue. Several of
  both are covered by the theorems, and by the instances of the findings about the
  outbox; for liveness with two of each, TLC needs a multiple of the time.
- *Orders and refunds.* Two orders are needed for access that stacks, one refund for
  access that ends, two for a price that is completed in parts. `MaxTime` = 1 has
  both orders paid at the same tick, where the order of their grants decides
  everything; `MaxTime` = 2 gives the same verdicts on the properties and three
  times the states. `MaxFaults` counts crashes, throws and lost answers: one fault in each
  place is possible, two of them in `PaymentsRefund`.
- *People.* An owner and two others are what a transfer, a removal and an invite back
  need; the workspaces of the two others matter only as where they came from. Two
  sessions: one that is switched and one that is opened.
- *Sessions.* Two requests are a racing pair: a logout and a rotation, a rotation and a
  switch, two refreshes, a login and an exchange. Three tokens give a session that
  changes its token twice, or once beside another session. With one link, that a new
  link voids an older one is not exercised by TLC; the theorems hold for any number.
- *Events.* Four events on an opportunity and at most one on its successor: one to
  correct, one after it, the correction, and one that follows. With `MaxTime` = 1
  every event is of now, earlier, or later than another.
- *Requests to the CRM.* Three requests: one whose claim is taken over, one that takes
  it over, one that comes after the result. Two credentials are one rotation.
- *Companies.* One in `DigestFeedback`: a digest writes the row of each company by
  itself, and no condition reads two of them. Two digests overlap; three days are one
  to select, one to commit or to answer late, and one on which a cooldown of one day is
  over and one of two is not.

Symmetry is used for invocations, profiles, bots, subscriptions, invites, sessions and
the like where only safety is checked. `CHECK_DEADLOCK FALSE` stands where the system does
stop: a date, or a delivery, is over when everybody is through, and in `AuthSession` the
accounts have left. The outbox never stops, and deadlock is checked there.

### Fairness

- `DailyRadar`: `WF(Step(w))` for each handler: a request that runs goes on, until
  it returns or crashes. Nothing is assumed of triggers, of faults or of time.
  In particular the clock of `.github/workflows/daily-radar-clock.yml` (06:15,
  09:15 and 12:15 UTC) is not assumed to fire, so nothing is claimed about a date
  on which it does not.
- `NotificationDelivery`: `WF` of the two clocks (`TwoMinutesPass`,
  `BackoffElapses`: time passes), of the steps of the dispatchers outside
  `Faulty`, and of `SweepStale` (while it is not refused) of a cron outside `Faulty`, which is the hourly
  call of the retry endpoint that `docs/notification-delivery.md:163` prescribes.
  Callers are not assumed to be invoked, and no provider is assumed to answer well.
- `Payments`: `SF` of the steps of each worker (an invocation runs, and a wait for a lock
  ends because its holder runs), and of the delivery of each notification: Robokassa
  repeats it until it is acknowledged, which is what the 503 of the route relies on.
  Nothing is assumed of customers, operators and the outcome of a refund.
- No liveness is stated of a Telegram batch or of an aggregate row: a deliverer
  that crashes leaves them in `processing` for good, as the code intends.

## 4. What is proved

TLAPS checks 58 theorems, all of them of the form `Spec => ...`, for any number of
invocations, profiles, runs, routes, owners, bots, posts, orders, refunds, accounts, requests,
credentials, browsers, sessions, companies, versions, events and any limits. They rest
on the named assumptions about constants and on nothing else:

- `NoneIsNothing`, `NoneIsNobody`, `NoneIsNoAttempt`: `None` is not a worker, a
  profile, a run, a route, an account or a request;
- `AttemptLimits` (DailyRadar): both limits are positive and a profile may be tried
  as often as the run (3 and 3 in the code);
- `RoutesAreOwned`, `KeysAreMatched`, `TelegramRoutes`, `RolesAreDistinct`,
  `PositiveBounds`, `RunIdFitsIsBoolean` (NotificationDelivery): what the sets of the
  instance are;
- `MaxPostsAssumption` (TelegramDelivery): the shared bot posts at least once (4 times in
  the code);
- `DaysAreCounted`, `PushAttemptsArePositive` (AggregateDelivery): days are numbered
  from 1 without a gap, and the limit of attempts is positive (5 in the code);
- `OrdersAreIds`, `DurationsArePositive`, `BoundsArePositive` (Payments): finitely many
  orders with positive ids, each of which buys a positive time (`duration_days` is 7, 30
  or 90), and a positive price; `RefundsAreFinite`, without which a sum of amounts means
  nothing, is cited by no proof;
- `TeamsAreOfUsers` (WorkspaceTeam), `CredentialsAreCounted` (CrmBridge), and in
  AuthSession `OriginsDiffer`, `TeamsAreOfOthers` and `NoneIsNoRow`: an account is not a
  link, nor is its workspace somebody else's, and no row is `None`;
- `AnswersAreKnown`, `DaysAreDays` (DigestFeedback): the answers are among those of the
  code, cooldowns and suppressions take positive days, and 'infinity' is later than any
  date there can be;
- `BoundsAreNatural` and `NoProjectionIsNone` (OutcomeLedger): the bounds are numbers and
  there is a second tick; no projection is not a projection.

`NoDigestIsNobodys` (DigestFeedback) says the same of its constant, and no proof cites it.
TLC evaluates all of these assumptions.

| Theorem | States | Also checked by |
|---|---|---|
| `DailyRadar_proofs!TypeCorrect` | `[]TypeOK`: no count of attempts passes its limit | |
| `TakeoverFreesProfiles` | `[]RunningProfilesAreFenced` | DailyRadar |
| `FinalRowsAreFinal` | `FinalRowsStay` | |
| `OneRunIsDelivered` | `[]OneDigestRunDelivered` | DailyRadar |
| `RetryableIsRetryable` | `[]RetryableHasAttemptLeft` | |
| `CompletedIsComplete` | `[]CompletedRunHasNoOpenProfile` | DailyRadar |
| `CompletedReplyHolds` | `[]CompletedReplyIsDurable` | DailyRadar |
| `DigestTypeCorrect` | `[]DigestTypeOK` | |
| `LongestCooldownRules` | `[]CooldownIsTheLongest` | DigestFeedback |
| `AnswersLast` | `AnswersKeepTheirEffect` | DigestFeedback |
| `NotificationDelivery_proofs!TypeCorrect` | `[]TypeOK` | |
| `FailedIsRetryable` | `[]FailedJobHasAttemptLeft` | NotificationDelivery |
| `OneCopyAtMost` | `[]AtMostOneCopy` | |
| `OneSender` | `[]OneSenderPerJob` | |
| `VerdictsAreTrue` | `[]VerdictsMatchProvider` | NotificationDelivery |
| `FinalJobsAreFinal` | `FinalJobsStay` | |
| `DeletedHasNoOpenJob` | `[]DeletedOwnerHasNoOpenJob` | NotificationDelivery |
| `OutboxSendsOnce` | `SendsOnce`: the outbox implements `SendOnce` | NotificationDelivery |
| `DisconnectLasts` | `DisconnectIsLasting` | NotificationDelivery |
| `TelegramDelivery_proofs!TypeCorrect` | `[]TypeOK` | |
| `OneDeliverer` | `[]OneDelivererPerRun` | |
| `FinalRowsAreFinal` | `FinalRowsStay` | TelegramDelivery |
| `CopiesBounded` | `[]CopiesAreBounded`: one copy by each bot of the customer, `MaxPosts` by the shared bot | |
| `BotsImplementSendOnce` | `BotsSendOnce`: the shared bot and the customer's implement `SendOnce` | TelegramDelivery |
| `VerdictsHold` | `[]VerdictsAreTrue` | TelegramDelivery |
| `ReportsHold` | `[]OkReportIsTrue` | TelegramDelivery |
| `AggregateDelivery_proofs!TypeCorrect` | `[]TypeOK`: no push passes the limit of attempts | |
| `OneCopyAtMost` | `[]OneCopyPerChannel` | |
| `ChannelsImplementSendOnce` | `ChannelsSendOnce`: web push and email implement `SendOnce` | AggregateDelivery |
| `RetryableUnsent` | `[]RetryableIsUnsent` | AggregateDelivery |
| `OkReportsAreTrue` | `[]OkReportIsTrue` | AggregateDelivery |
| `FinalRowsAreFinal` | `FinalRowsStay` | |
| `Payments_proofs!TypeCorrect` | `[]TypeOK` | |
| `ProcessedWasGranted` | `[]ProcessedIsGranted` | Payments |
| `AccessIsChain` | `[]AccessIsOneChain` | Payments |
| `MoneyWasReal` | `[]MoneyIsReal` | PaymentsRefund |
| `AccessEndsOnlyByRefund` | `AccessEndsByRefund` | Payments |
| `WorkspaceTeam_proofs!TypeCorrect` | `[]TypeOK` | |
| `OneOwner` | `[]OneOwnerAtMost` | WorkspaceTeam |
| `OwnersLeave` | `OwnersLeaveByDeletion` | WorkspaceTeam |
| `LeavingAreEmpty` | `[]LeavingWorkspacesAreEmpty` | WorkspaceTeam |
| `LeaversKeepNothing` | `[]LeaversHaveNothing` | WorkspaceTeam |
| `AuthSession_proofs!TypeCorrect` | `[]TypeOK` | |
| `TokensStayInTheirWorkspace` | `[]TokensKeepTheirWorkspace` | AuthSession |
| `LogoutIsFinal` | `[]SignedOutStaysOut` | AuthSession |
| `CookiesKeepUp` | `[]CookieKeepsUp` | AuthSession |
| `CredentialsMakeOneSession` | `[]OneSessionPerCredential` | |
| `CrmBridge_proofs!TypeCorrect` | `[]TypeOK` | |
| `SucceededWasReceived` | `[]SucceededIsReceived` | CrmBridge |
| `ToldWasRecorded` | `[]ToldIsRecorded` | CrmBridge |
| `OneBodyAtFirst` | `[]OneBodyUntilSettled` | CrmBridge |
| `ReceiptsAgree` | `[]ReceiptsMatchLedger` | CrmBridge |
| `LedgerInvariant` | `[]LedgerInv`: one version is current, and the episode says what it says | |
| `DecisionsLast` | `DecisionsOutliveJobs` | OutcomeLedger |
| `HistoryInvariant` | `[]HistoryInv`: a history is legal, and its projection sums it up | |
| `OutcomeTypeCorrect` | `[]OutcomeTypeOK`: a projection exactly if there are events | |
| `ReplayAlwaysAgrees` | `[]ReplayAgrees` | OutcomeLedger |
| `HistoryAlwaysLegal` | `[]HistoryIsLegal` | OutcomeLedger |

A type invariant, and a property that another one implies, is proved without being
a property of a run: `AtMostOneCopy`, `OneSenderPerJob` and `FinalJobsStay` follow
the refinement `SendsOnce` or lead to it, as `OneCopyPerChannel` does to
`ChannelsSendOnce`, and `OneDelivererPerRun` and `CopiesAreBounded` to `BotsSendOnce`. The two
`FinalRowsStay` of `DailyRadar` and `AggregateDelivery` follow the claims that
their other properties rest on, and `RetryableHasAttemptLeft` says of the rows of
`DailyRadar` that nothing promises a retry which no claim grants.

None of the invariants is inductive as it is stated. What has to be added says
what a handler knows while it is between two statements, which is where the code
could go wrong:

- **DailyRadar.** `Typed` adds to `TypeOK` that a handler inside a round has a
  profile, and a digest run where it uses one (`RoundHasProfile`).
  `AbsentRowsAreUntried` is needed to count an attempt. `DigestInv` says that a
  handler which owns a profile row and creates or attaches a digest run does so
  because the row names none, and that the one it delivers is the one the row
  names. `FenceInv` adds to the fence that a late claim is the last one of its handler,
  which has lost the run for good and stands before no other claim
  (`LateClaimIsTheLast`). `AttemptInv` relates the three places in which attempts are
  counted: as long as a handler owns the run, its own attempt is the run's, and what it
  recorded as its tries is what the row says (`HandlerCounts`). A replaced owner may still
  claim, so that a profile may be tried by two attempts of the run at a time; but each
  attempt tries it once, and hence its attempts, and those of the handlers that may still
  claim it, are no more than the attempts of the run (`ClaimsAreFew`). Since the
  profile's limit is no smaller than the run's, a promised retry exists. `CompletedInv`
  says that what an owner found when it summarized is still so when it finishes: nobody
  but the owner of the run opens a profile, except by a late claim (`Closed`).
- **NotificationDelivery.** `Typed` adds that a dispatcher on a route has a key,
  and what it takes for a count to stay in range. `SendInv` is the heart: at most
  one dispatcher stands between the claim of a job and its verdict
  (`OneSenderPerJob`); it *holds* the job (`Held`), so that the job is neither
  absent nor failed and has been accepted exactly when the dispatcher is past a
  send that succeeded; and a job that may be claimed has never been accepted
  (`Counted`). A stale owner's job is dead, which is not claimable: that is why
  the code may let it go on, and why reclaiming it instead (as a document says)
  would break `Counted`. The refinement maps a job's status to a verdict
  (`recorded`), and each step to a step of `SendOnce` or to a stutter.
- **TelegramDelivery.** `Held`: whoever is inside the `try` has its token in the
  row. `Copies`: a job that may be claimed, or that a retry has claimed and not
  attempted, was not sent. `Counted`: the shared bot has not set out to send a run whose
  row may be claimed, or whose owner has not posted yet, and has delivered no more copies
  than it has posted. `Told` and `WasSent` carry the results of the
  bots from the dispatch to the row: a result that says sent, the outcome it
  leads to, and the row that outcome is written to are all true, and stay true.
  `Chosen` and `Reported` do the same for the report. The refinement needs only the
  first three: a step changes the copy and the verdict of one job (`JobStep`), or closes
  one row for the owner that holds it; a claim changes no verdict, and a final row has
  no owner that could still send.
- **AggregateDelivery.** `PushInv`: while a row may be claimed nobody sends for its run
  and nobody has its push (`ClaimableIsUnsent`, `SenderHasClaim`); a run has one
  sender (`OneSender`), before whose message nobody has it, and whose outcome is a
  retry only if it reached nobody below the limit (`SenderIsFirst`). A fence may
  take the row from a sender, but only to a status that nobody claims. `MailInv`
  is the same for a day. `TokensAreHeld` says that a deliverer whose name is in a
  row is still in web push, has crashed, or has a failure to report. For the
  refinement, `SentTruly` follows a success from the send to the row: a deliverer that
  is about to record it has sent its copy, as nobody else can have done.
- **Payments.** `WorkerOK` says what an invocation knows between two statements. Above all,
  who holds the owner's lock (`OneHolder`) has computed an entitlement that starts after
  all others that count have ended, and the order it is for has none. A refund may move
  the others before it commits, since the trigger does not take that lock: that the chain
  still has no overlap then is the lemma `Compaction`, which says that access packed from
  the moments of payment on never ends later than any other chain of the same orders. It
  is shown by taking away the order that was paid last, from a smallest set that would
  contradict it (`Smallest`, an induction over finite sets without an operator as
  parameter). `RefundOK` carries an answer of the bank from the lookup to the row, and
  `GivenBack` that a refunded order has a set of finished refunds whose sum is the price.
- **WorkspaceTeam.** Each property but for the types is inductive with the typing,
  which adds that an open invite has a workspace and an inviter and that only a live
  session is being switched. The lemmas classify what a step can do to a
  membership (nothing, a role below the owner's, an end, the two halves of a
  transfer), to a workspace and to an account; the properties follow from these.
- **AuthSession.** What is known of a token wherever it is, in a cookie or on its way
  (`TokOK`): its session was made, it is not ahead of it, and while it can be read its
  workspace is the session's. It survives every step because sessions only grow
  (`Grows`): what is over stays over, and the count of the token goes up by one, by a
  step that either keeps the workspace or ends what the last token was good for.
  `ReqOK` adds what a request knows at each label, above all that a logout past its
  first statement has ended its session or was overtaken (`Out`), and `BrowserOK` the
  same of what a browser was told; `Spent` says that the credential of a session is
  used up, so that no second one is made from it. `CookieKeepsUp` needs to know where
  else the tokens of a session are (`KInv`): a token that is being handed out is its
  session's current one and newer than every other that is about, in a cookie or in a
  request, and two browsers never have tokens of one session. Hence an answer that
  arrives can only advance the cookie it replaces, and a rotation takes the current
  token from nobody but the browser that asked for it.
- **CrmBridge.** `Answered`: a request that was answered with success has sent a body
  that the CRM accepted. `OneClaim`: as long as nothing is recorded, all that is
  sent, and all that the CRM has, is the body of the claim, which is deleted only
  with a result.
- **OutcomeLedger.** `LedgerInv`: at most one version's opportunity is current, and the
  row of the episode says what the current one says, or is missing, and then a decision
  has no deadline. The build and the expiry job look at one or the other, so that a step
  that is no user's and records nothing keeps the decision or expires what is put off.
  One that records the end of a snooze takes the status from the projection (`WokenIs`):
  that it is the status of the opportunity's own stage (`WokenWell`) needs both
  invariants, for the projection must stand on the last move. That is the second one,
  `HistoryInv`, of each history and its projection (`HistoryOf`). `Sums` is the
  specification of both reductions: which of the events that count moved the stage last,
  whether the last snooze or its end put the opportunity off, what became of the last
  meeting, and how many there were. A further
  event keeps it (`ReducedAppend`); the reduction of a whole history, which a correction
  makes, has it for every length (`ReplaySums`), and so has the one of the script
  (`RebuiltSums`); two projections that have it agree (`SumsUnique`). The script takes the
  stage of the last event of a stage and the reducer that of the last one that moved it:
  that they agree needs the history to be legal, `Follows`, which is `HistoryIsLegal` with
  the second arrangements of a meeting added. It survives a correction because only the
  latest commercial event may be taken back (`FollowsRevert`), and an entry because the
  projection stands on the last move (`FollowsAppend`). TLC has checked `HistoryInv` on the
  instance of the run. The reduction is a recursive function; that there is one for every
  history (`ReductionsExist`), and what it computes (`ReducibleAlways`), is shown from the
  least length for which it would fail (`LeastNumber`, from the well-foundedness of <),
  since the library's induction theorems take an operator as parameter.
- **DigestFeedback.** What has to be added is about a company that was never answered:
  its row has no suppression, and its cooldown is no earlier than that of any digest
  committed with it, and is one of theirs or none.

Each proof has one step per action of `Next`. Frequent moves of a handler (a
label, a round, a route) are lemmas about its local record, cited where an action
makes such a move; where many actions leave an invariant alone, one lemma says
which ones may disturb it (`OnlySummaryFinishes`, `OnlyFinishCompletes`,
`RowsMove`, `CaughtFrom`, `LegacyChanges`).

Only model-checked: the liveness properties (`NoAttemptHangs`, `SendingEnds`,
`FailedIsRetried`, `CapturedIsGranted`), because fairness is defined with ENABLED,
which the prover does not handle. Every other property of a run is a theorem. No module
declares a recursive operator; the one recursive definition is the function in
`Reductions`.

## 5. What the code and its documents disagree about

The quotations and lines are in `PROJECT.json` (`findings`). Each but the last two is
found by TLC. Those with a property in parentheses are violated when that property is
added to the cfg that is named (with the change in parentheses); items 12, 21, 22 and 23
are an exception that a property makes, which is violated without it.
Beside each stands what does hold.

1. **A correction leaves the stage it corrects** (`OutcomeLedger`:
   `RebuildChangesNothing`). When the first commercial event is corrected after a
   view was recorded on it, nothing commercial counts, and the reduction starts from
   the stage that the view found: the one that is corrected. The rebuild script
   reduces differently, so that `--apply` moves the opportunity. `ReplayAgrees` is
   what holds.
2. **A snooze is lost to the queues** (`OutcomeLedger`: `SnoozedStaysSnoozed`). An
   opportunity of a new version inherits the snooze in its status; its projection is
   created active by the first view.
3. **The expiry job wakes too early** (`OutcomeLedger`: `WokenInTime`). It decides on a
   deadline that it read before, and a snooze that was renewed in between ends at once.
4. **More is refunded than was paid** (`PaymentsRefund`: `AcceptedRefundsWithinPrice`).
   A refund whose answer is lost is marked failed, is never looked up again and
   reserves nothing. `MoneyIsReal`: the order stays true to the bank.
5. **A gap in the access** (`Payments`: `AccessHasNoGap`). A grant that is not yet
   committed is not seen by the compaction after a refund. `AccessIsOneChain`:
   nothing overlaps.
6. **A workspace without an owner** (`WorkspaceTeam`: `NoOrphans`). An invite that is
   accepted while the deletion of the owner's account waits for the workspace keeps
   it active, and the owner is removed. `LeavingWorkspacesAreEmpty` holds.
7. **No way back in** (`WorkspaceTeam`: `EveryoneCanSignIn`). A trigger gives a new session
   the workspace that was made for the account, and raises if it was handed over: the
   former owner, whom the interface sends to the sign-in page, cannot sign in.
8. **A session survives a removal** (`WorkspaceTeam`: `RemovalEndsSessions`), if it was just
   being switched to that workspace. It gives no access, which is checked anew.
9. **Two bodies for one event** (`CrmBridge`: `OneBody`). A request that found no result,
   and inserts its claim after the result has deleted the one before, sends a body of
   its own. `OneBodyUntilSettled` and `ToldIsRecorded` hold.
10. **A claim that nobody can take over** (`CrmBridge`: `ClaimEnds`), when its process has
    stopped and the credential is rotated afterwards.
11. **No job of the outbox is ever recorded** (`NotificationDelivery`:
    `DispatchedIsRecorded`, with `RunIdFits = FALSE`). `digest_runs.id`
    is `BIGSERIAL`, and the column it is inserted into,
    `notification_delivery_jobs.digest_run_id`, is `UUID`; no migration changes either.
    The claim throws for every run, so that no customer's endpoint receives anything.
    The constant `RunIdFits` stands for the types: `FALSE` is the repository as it is,
    `TRUE` the outbox once the column takes the id. The runs of the outbox have `TRUE`;
    the theorems hold for either.
12. **A backlog starves the retry queue** (`NotificationDelivery`: `FailedIsRetried`
    without `QueueIsClogged`, with `Owners = {o1, o2}`, `OwnerOf <- OwnedByTwo`,
    `Routes = {tg, vk}` and `Keys <- OwnKeys`). A failed job whose route was
    disconnected, or whose owner has left, stays due, its batch stays at the head of
    the selection, and as many such batches as the limit admits keep all others from
    being retried.
13. **A success revives a revoked endpoint** (`NotificationDelivery`:
    `RevokedEndpointsStay`). Only its status: the route stays revoked and is not
    dispatched to (`DisconnectIsLasting`).
14. **Stale jobs are not reclaimed** (`NotificationDelivery`: `StaleJobsAreReclaimed`),
    though a document says so; they become dead. The code is the
    better of the two, as `SendsOnce` shows.
15. **Two bots deliver one run** (`TelegramDelivery`: `TelegramOncePerRun`). The retry
    queue dispatches a batch to the active routes of all providers, not only to those
    that failed: a run that the shared bot has delivered is delivered again by a bot that
    was bound since. What does hold is `CopiesAreBounded`.
16. **An old cookie outlives a login** (`AuthSession`: `LegacyEndsWithLogin`). The exchange
    of `rr_sid` asks whether this cookie was recorded, not whether its account has signed
    in with a link or a passkey since, as the specification says and as the authorization
    of a page does. `SignedOutStaysOut` and `OneSessionPerCredential` hold.
17. **A company is offered although it was put off** (`DigestFeedback`:
    `OnlySelectableIsOffered`). The selection is not repeated before the commit; what was
    answered, or offered by another digest, in between does not count. No answer and no
    cooldown is lost by it: `AnswersKeepTheirEffect`, `CooldownIsTheLongest`.
18. **A rejection on the card holds nothing back** (`DigestFeedback`:
    `RejectedIsHeldBack`). `updateLeadFeedback` writes a status and no date, and the
    selection asks for the status only of what was taken.
19. **An answer is dropped** (`DigestFeedback`: `PressedIsKept`), and acknowledged, if a
    digest was made since that was never sent, or if the onboarding has not recorded
    the one that was.
20. **A decision is lost with a snooze** (`OutcomeLedger`: `CarriedSnoozeKeepsStage`). A
    build for a new version carries the snooze of an accepted opportunity over, but not
    its stage, so that it wakes as a new one. A row that a build uses again keeps its old
    projection, and may be expired or woken by it. `DecisionsOutliveJobs` says how far a
    decision is safe.
21. **A profile is claimed behind the fence** (`DailyRadar`: `RunningProfilesAreFenced`
    without `Late(p)`). The claim reads the run in its snapshot; a takeover that commits
    before the row is written does not fence it. Its replaced owner delivers the profile,
    or leaves it `running` if it dies. There is one such profile per replaced owner, and
    `OneDigestRunDelivered` holds for it too.
22. **One job stops the retry queue for all** (`NotificationDelivery`: `SendingEnds` without
    `~MayWriteAll(stale)`; `FailedIsRetried` without it, with two owners as in 12). A job
    in `sending` of an owner who has left the workspace is refused by the trigger, and
    with it the sweep, which is the first statement of every invocation.
23. **The shared bot repeats itself** (`TelegramDelivery`: `legacy[r] <= 1` in place of
    `CopiesAreBounded`). `callTelegramApiWithRetry` posts again after every failure, also
    those that its comment calls not retryable, as the `throw` is inside the `try`. One
    attempt may deliver four copies.
24. **A logout for good.** `rr_sid` is the same whenever an account signs in the old way,
    and a logout records it as revoked. An account that is not in the rollout yet and
    signs in again gets a cookie that is denied. Read in the code: in `AuthSession`
    everybody is in the rollout.
25. **A comment of `sendBatchDigestForRun`** promises a retry of a failed first
    message, of which it says that nothing was delivered; its caller closes the batch for
    good, and something may have been: `TelegramDelivery` models what they do.

## 6. What is abstracted, and what is not modelled

In the modelled components:

- The mode without a database (`persisted = false`), in which nothing is claimed,
  is left out.
- A statement, a transaction, and a call to a provider are atomic. Within one,
  the isolation of PostgreSQL is taken for granted; a statement whose subquery sees an
  older snapshot of a row that others change is two steps (section 2).
- Invocations that are denied (a wrong key, a run that is not claimable) change
  nothing and are stuttering.
- `loadEligibleProfiles` may return any set of profiles; the batches of a retry,
  and the profiles of a run, are visited in any order.
- The log `notification_delivery_attempts` is append-only and nobody reads it for
  a decision. Rendering, telemetry and AI enrichment are left out: their failures
  are swallowed by the code before they can reach a decision.
- An account has one endpoint for each route, and `route_version`, a part of the
  idempotency key, is constant: nothing in the code changes it.
- `auth_require_active_owner_write` also guards the rows of web push and email, and the
  profile itself. A statement that it refuses there is one that fails, which is among the
  faults of `AggregateDelivery`; of these channels only safety is stated. In
  `NotificationDelivery` an owner who has handed the workspace over and is still a member
  is "active". A workspace that is not active comes with the deletion of its owner.
- In `TelegramDelivery` the messages of a batch after the first are left out: their
  outcome is swallowed. So is the time between two posts. A batch has leads: one that
  renders to no message counts as sent without a copy. An owner who has left is not
  among the reasons why a job of the outbox fails there, but the outcome is.
- In `TelegramDelivery` an attempt of the outbox is one step with the outcomes that
  `NotificationDelivery` gives it. A batch row in `processing` never becomes stale, as in the
  code.
- A web push goes to all subscriptions in one step, whereas the code sends to one
  after the other. The subscriptions are read once before the loop, nothing that it
  writes is read again before the row is closed, and a loop that a crash cuts short
  is a step in which the rest is not reached, followed by the crash.
- In `DailyRadar` a digest run is a name; which companies it offers is in
  `DigestFeedback`. There, the evidence for a company and its rank are left out: a
  digest offers any of those that the state of their rows admits. Dates are days. The
  transaction of a webhook is one step, and its buttons may expire at any time. The
  events of both bots are one set, and the old buttons that name no candidate, the
  status of a review and the pages that only read are left out.
- `Payments` is about one owner in one workspace, in live mode with a date of payment in
  the bank's answer. Money is counted in parts of a price and access in ticks. The state
  that a page asks the bank for and the order it reads are one step. A claim in
  processing may always be taken over, as if ten minutes had passed. The payload of a
  notification and its signature, the pilot's application and the profile that a
  purchase creates are left out, and so are the trial and the reading of entitlements.
- In `WorkspaceTeam` a request was authorised earlier, and its operation checks the
  membership again in its transaction. Rate limits, expiry of invites and sessions,
  suspended accounts and mail are left out; recruiter, viewer and billing are one role.
  A transaction that takes the owner fence exclusively, or the row of the account and of
  the workspace `FOR UPDATE`, is atomic with respect to those that need them, among
  which are the inserts that refer to such a row.
- In `AuthSession` everybody is in the rollout, and who may use a workspace does not change
  (that is in `WorkspaceTeam`). Time is a step: the grace of a token ends, a session or a
  link expires, and a rotation may be due whenever the grace of the last one is over. A
  session that has expired and one that was revoked are one ("over"): nothing but a
  second revocation tells them apart. The link that confirms a change of the address is
  not modelled, only what the confirmation does; links to the old address are void from
  then on, as if nobody changed it back while one is open. That a late answer may put an
  ended session over the cookie of a newer one, and that a login may leave behind the
  session that an exchange was making at that time, costs a sign-in and is no property.
- `OutcomeLedger` is about one profile and one episode. A build reads and writes in one
  step, one that is rolled back is no step, and a run of the job takes no time. Only
  commercial events and corrections are recorded late. `MaxEvents` and `MaxTotal` bound
  the ledger. That another writer of signals supersedes an opportunity is left out.
- `CrmBridge` has one delivery event; a request is one shot, and its name is both its
  claim token and the body that it would build. A claim may always be stale, as if 30
  seconds had passed. The statuses 400, 403 and 409 of a callback are one
  ("rejected"). Who may ask, and rate limits, are left out.

Not modelled are the components that `PROJECT.json` marks so, with the reason for
each: sources, scoring and the rate limiter are planned (section 7);
most of the commercial signal engine, AI enrichment, telemetry, operator tools,
scripts and the interface are pipelines of pure functions, best-effort records or I/O,
in which there is little for a model checker. Of connections only what a dispatch races
with is modelled; of authentication, not the registration of passkeys, the onboarding,
the old-style login and the rate limits.

## 7. The plan

Done: `DailyRadar`, `NotificationDelivery` with `SendOnce`, `TelegramDelivery`,
`AggregateDelivery`, `Payments`, `WorkspaceTeam`, `AuthSession`, `CrmBridge`,
`OutcomeLedger` and `DigestFeedback` with their proofs. In this order:

| Module | Models | Abstract specification, properties | Instance | To be proved |
|---|---|---|---|---|
| `NotificationConnections` | connect sessions, inbound events, bind, reconnect | an identity has one owner; an event is applied once | 2 accounts, 2 identities | both |
| `OpportunityWorkflow` | assignments, tasks and comments with versions | versions never go back | 2 actors | versions |
| `SourceSchedule` | due slots, attempts, failures | a due source is tried; another is not | 2 sources, 4 slots | |
| `BatchPacking`, `ConfidenceGates`, `RateLimiter` | pure algorithms | compared with reference definitions on bounded inputs; order, loss and size of the packed messages | up to 4 leads | bounds that need no induction |
| `TelegramRefinement` | `TelegramDelivery` and the outbox composed | the atomic attempt of `TelegramDelivery` is what the outbox implements | 1 job, 2 dispatchers | the refinement |

The properties that hold by the shape of a model are left out on purpose; what is
listed under `hazards` without a property is what the next modules are for.
