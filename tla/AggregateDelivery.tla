-------------------------- MODULE AggregateDelivery --------------------------
(***************************************************************************)
(* The web push and the email of deliverCandidatesForRun for one client    *)
(* profile: one message for a whole digest run (web push) or for a whole   *)
(* day (email), each guarded by a row of lead_channel_deliveries.          *)
(*                                                                         *)
(* A deliverer is one invocation; the claim token it draws is its name.    *)
(* Every SQL statement is one step, and so is the sending of one message   *)
(* to all its subscriptions; any of them may throw, and a deliverer may    *)
(* crash or freeze anywhere.  What the customer has switched on is read    *)
(* afresh each time and may differ.  The clock is the field late of a row: *)
(* it has been in processing for two hours, or its next_retry_at has come. *)
(***************************************************************************)
EXTENDS Integers, FiniteSets

CONSTANTS
    Runs,               \* digest runs of the profile that have candidates
    Deliverers,         \* invocations of deliverCandidatesForRun
    Subs,               \* web push subscriptions
    Days,               \* days in Moscow, 1 first
    MaxPushAttempts,    \* the limit of 5 on attempt_count
    None                \* no deliverer, no run

ASSUME DaysAreCounted == Days \in SUBSET Nat /\ 1 \in Days /\ \A n \in Days : 1..n \subseteq Days
ASSUME PushAttemptsArePositive == MaxPushAttempts \in Nat \ {0}
ASSUME NoneIsNothing == None \notin Deliverers /\ None \notin Runs

VARIABLES
    push,       \* the web push row of each run
    revoked,    \* subscriptions that are revoked
    pushed,     \* how many copies of a run each subscription has accepted
    mail,       \* the email row of each day
    mailed,     \* how many emails the transport has accepted for each day
    today,
    d           \* the local state of each deliverer

webpush == <<push, revoked, pushed>>
email == <<mail, mailed, today>>
vars == <<webpush, email, d>>

FailureStates == {"processing", "failed_retryable", "failed_terminal"}
Statuses == {"absent", "sent"} \cup FailureStates

InPush == {"push", "fencePush", "pushPrefs", "pushOff", "claimPush", "denyPush", "sendPush",
           "finishPush"}
InMail == {"mail", "claimMail", "fenceMail", "readMail", "sendMail", "finishMail"}
Ended == {"done", "crashed"}
Labels == {"idle"} \cup InPush \cup InMail \cup Ended

\* A deliverer before it is invoked.  prior is the status of the push row that it read,
\* outcome the status it is about to persist, day that of its email, failures the states
\* of the channels that it reports as failed.
Idle == [pc |-> "idle", run |-> None, prior |-> "absent", outcome |-> "absent", day |-> 1,
         failures |-> {}]

Init ==
    /\ push = [r \in Runs |-> [status |-> "absent", token |-> None, attempts |-> 0, late |-> FALSE]]
    /\ revoked = {}
    /\ pushed = [r \in Runs |-> [s \in Subs |-> 0]]
    /\ mail = [n \in Days |-> [status |-> "absent", late |-> FALSE]]
    /\ mailed = [n \in Days |-> 0]
    /\ today = 1
    /\ d = [w \in Deliverers |-> Idle]

At(w, label) == d[w].pc = label
Becomes(w, local) == d' = [d EXCEPT ![w] = local]
Goto(w, label) == Becomes(w, [d[w] EXCEPT !.pc = label])
Run(w) == d[w].run

\* A deliverer leaves a channel, the locals of which go out of scope, and adds the states
\* that are failures to its report (isChannelDeliveryFailure).
LeaveWithAny(w, label, states) ==
    Becomes(w, [Idle EXCEPT !.pc = label, !.run = Run(w), !.failures = d[w].failures \cup states])
LeaveForgetting(w, label, states) ==
    Becomes(w, [Idle EXCEPT !.pc = label, !.run = Run(w), !.failures = states \cap FailureStates])
Leave(w, label, states) ==
    Becomes(w, [Idle EXCEPT !.pc = label, !.run = Run(w),
                            !.failures = d[w].failures \cup (states \cap FailureStates)])

Invoke(w) ==
    /\ At(w, "idle")
    /\ \E r \in Runs : Becomes(w, [Idle EXCEPT !.pc = "push", !.run = r])
    /\ UNCHANGED <<webpush, email>>

-----------------------------------------------------------------------------
(* Web push: notifyNewLeadsForRun *)

\* A row that is final is reported as it is; one in processing, or at the limit of its
\* attempts, is first closed if that is due.
ReadPush(w) ==
    LET row == push[Run(w)] IN
    /\ At(w, "push")
    /\ IF \/ row.status = "processing"
          \/ row.status = "failed_retryable" /\ row.attempts >= MaxPushAttempts
       THEN Becomes(w, [d[w] EXCEPT !.pc = "fencePush", !.prior = row.status])
       ELSE IF row.status \in {"absent", "failed_retryable"}
       THEN Becomes(w, [d[w] EXCEPT !.pc = "pushPrefs", !.prior = row.status])
       ELSE Leave(w, "mail", {row.status})
    /\ UNCHANGED <<webpush, email>>

\* A row is closed for good.
FenceAsRetryable(r) ==
    push' = [push EXCEPT ![r] = [@ EXCEPT !.status = "failed_retryable", !.token = None, !.late = FALSE]]
Fence(r) ==
    push' = [push EXCEPT ![r] = [@ EXCEPT !.status = "failed_terminal", !.token = None, !.late = FALSE]]

\* The outcome of a row in processing for two hours is not known.
FencePush(w) ==
    LET row == push[Run(w)]
        fences == /\ row.status = d[w].prior
                  /\ IF row.status = "processing" THEN row.late ELSE row.attempts >= MaxPushAttempts
    IN /\ At(w, "fencePush")
       /\ IF fences THEN Fence(Run(w)) ELSE UNCHANGED push
       /\ Leave(w, "mail", {IF fences \/ d[w].prior # "processing" THEN "failed_terminal"
                            ELSE "processing"})
       /\ UNCHANGED <<revoked, pushed, email>>

\* Push is switched off or has no subscription, is not configured, or goes ahead.
ReadPushPrefs(w) ==
    /\ At(w, "pushPrefs")
    /\ \/ Leave(w, "mail", {d[w].prior})
       \/ revoked # Subs /\ Goto(w, "pushOff")
       \/ revoked # Subs /\ Goto(w, "claimPush")
    /\ UNCHANGED <<webpush, email>>

\* Without configuration a row that waited for its retry is closed for good.
PushNotConfigured(w) ==
    /\ At(w, "pushOff")
    /\ IF d[w].prior = "failed_retryable" /\ push[Run(w)].status = "failed_retryable"
       THEN Fence(Run(w)) ELSE UNCHANGED push
    /\ Leave(w, "mail", {"failed_terminal"})
    /\ UNCHANGED <<revoked, pushed, email>>

PushClaimable(r) ==
    \/ push[r].status = "absent"
    \/ push[r].status = "failed_retryable" /\ push[r].late /\ push[r].attempts < MaxPushAttempts

ClaimPush(w) ==
    LET r == Run(w) IN
    /\ At(w, "claimPush")
    /\ \/ /\ PushClaimable(r)
          /\ push' = [push EXCEPT ![r] = [status |-> "processing", token |-> w,
                                          attempts |-> @.attempts + 1, late |-> FALSE]]
          /\ Goto(w, "sendPush") \/ Leave(w, "mail", {"failed_terminal"})  \* the answer is lost
       \/ /\ ~PushClaimable(r)
          /\ Goto(w, "denyPush")
          /\ UNCHANGED push
    /\ UNCHANGED <<revoked, pushed, email>>

\* The one without a claim reads the row once more.
DenyPush(w) ==
    /\ At(w, "denyPush")
    /\ Leave(w, "mail", {push[Run(w)].status})
    /\ UNCHANGED <<webpush, email>>

\* sendWebPushToProfile: what each subscription answers.  Only a rejection that says so
\* leaves no doubt that nothing was accepted.
Answers == {"accepted", "gone", "limited", "rejected", "lost"}
PushStatusWithLost(answers, attempts) ==
    LET got == {answers[s] : s \in DOMAIN answers}
        failed == got \cap {"limited", "rejected", "lost"}
    IN IF "accepted" \in got THEN IF failed = {} THEN "sent" ELSE "failed_terminal"
       ELSE IF failed \in SUBSET {"limited", "lost"} \ {{}} /\ attempts < MaxPushAttempts
            THEN "failed_retryable" ELSE "failed_terminal"
PushStatusOfPart(answers, attempts) ==
    LET got == {answers[s] : s \in DOMAIN answers}
        failed == got \cap {"limited", "rejected", "lost"}
    IN IF failed = {} /\ got # {} THEN "sent"
       ELSE IF failed = {"limited"} /\ attempts < MaxPushAttempts
            THEN "failed_retryable" ELSE "failed_terminal"
PushStatus(answers, attempts) ==
    LET got == {answers[s] : s \in DOMAIN answers}
        failed == got \cap {"limited", "rejected", "lost"}
    IN IF "accepted" \in got THEN IF failed = {} THEN "sent" ELSE "failed_terminal"
       ELSE IF failed = {"limited"} /\ attempts < MaxPushAttempts
            THEN "failed_retryable" ELSE "failed_terminal"

SendPush(w) ==
    LET r == Run(w)
        active == Subs \ revoked
    IN /\ At(w, "sendPush")
       /\ \E answers \in [active -> Answers] : \E reached \in SUBSET active :
             /\ \A s \in active : answers[s] = "accepted" => s \in reached
             /\ \A s \in reached : answers[s] \in {"accepted", "lost"}
             /\ pushed' = [pushed EXCEPT ![r] = [s \in Subs |-> IF s \in reached THEN @[s] + 1 ELSE @[s]]]
             /\ \E pruned \in SUBSET {s \in active : answers[s] = "gone"} :
                   revoked' = revoked \cup pruned
             /\ Becomes(w, [d[w] EXCEPT !.pc = "finishPush",
                                        !.outcome = PushStatus(answers, push[r].attempts)])
       /\ UNCHANGED <<push, email>>

\* WHERE id = $1 AND delivery_status = 'processing' AND processing_claim_token = $4
OwnsPush(w) == push[Run(w)].status = "processing" /\ push[Run(w)].token = w

FinishPush(w) ==
    /\ At(w, "finishPush")
    /\ \/ /\ OwnsPush(w)
          /\ push' = [push EXCEPT ![Run(w)] =
                         [@ EXCEPT !.status = d[w].outcome, !.token = None, !.late = FALSE]]
          /\ \/ Leave(w, "mail", {d[w].outcome})
             \/ Leave(w, "mail", {"failed_terminal"})       \* the answer is lost
       \/ /\ ~OwnsPush(w)
          /\ Leave(w, "mail", {"failed_terminal"})
          /\ UNCHANGED push
    /\ UNCHANGED <<revoked, pushed, email>>

-----------------------------------------------------------------------------
(* Email: sendDigestEmailForProfile *)

\* The email is switched off or without leads, cannot be sent, or goes ahead.
ReadMailPrefs(w) ==
    /\ At(w, "mail")
    /\ \/ \E states \in SUBSET {"failed_terminal"} : Leave(w, "done", states)
       \/ Becomes(w, [d[w] EXCEPT !.pc = "claimMail", !.day = today])
    /\ UNCHANGED <<webpush, email>>

\* ON CONFLICT (channel, client_profile_id, dedupe_key) DO NOTHING
MailClaimable(n) == mail[n].status = "absent"

ClaimMail(w) ==
    LET n == d[w].day IN
    /\ At(w, "claimMail")
    /\ \/ /\ MailClaimable(n)
          /\ mail' = [mail EXCEPT ![n] = [status |-> "processing", late |-> FALSE]]
          /\ Goto(w, "sendMail") \/ Leave(w, "done", {"failed_terminal"})  \* the answer is lost
       \/ /\ ~MailClaimable(n)
          /\ Goto(w, "fenceMail")
          /\ UNCHANGED mail
    /\ UNCHANGED <<webpush, mailed, today>>

Closed(status) == [status |-> status, late |-> FALSE]

FenceMail(w) ==
    LET n == d[w].day IN
    /\ At(w, "fenceMail")
    /\ mail' = [mail EXCEPT ![n] =
                   IF @.status = "processing" /\ @.late THEN Closed("failed_terminal") ELSE @]
    /\ Goto(w, "readMail")
    /\ UNCHANGED <<webpush, mailed, today>>

ReadMail(w) ==
    /\ At(w, "readMail")
    /\ Leave(w, "done", {mail[d[w].day].status})
    /\ UNCHANGED <<webpush, email>>

\* The transport accepts the email or not, and says so or not.
SendMail(w) ==
    /\ At(w, "sendMail")
    /\ \E accepted \in {0, 1}, outcome \in {"sent", "failed_terminal"} :
          /\ outcome = "sent" => accepted = 1
          /\ mailed' = [mailed EXCEPT ![d[w].day] = @ + accepted]
          /\ Becomes(w, [d[w] EXCEPT !.pc = "finishMail", !.outcome = outcome])
    /\ UNCHANGED <<webpush, mail, today>>

\* WHERE id = $1 AND delivery_status = 'processing': the id is that of the day.
OwnsMail(w) == mail[d[w].day].status = "processing"

\* A failure to persist is swallowed after a failure, and thrown after a success.
FinishMail(w) ==
    /\ At(w, "finishMail")
    /\ \/ /\ OwnsMail(w)
          /\ mail' = [mail EXCEPT ![d[w].day] = Closed(d[w].outcome)]
          /\ \/ Leave(w, "done", {d[w].outcome})
             \/ Leave(w, "done", {"failed_terminal"})       \* the answer is lost
       \/ /\ ~OwnsMail(w)
          /\ Leave(w, "done", {"failed_terminal"})
          /\ UNCHANGED mail
    /\ UNCHANGED <<webpush, mailed, today>>

-----------------------------------------------------------------------------
(* Faults, clocks and the customer *)

\* An await rejects without effect, and the catch of the channel reports it.
Throw(w) ==
    /\ \/ d[w].pc \in InPush /\ Leave(w, "mail", {"failed_terminal"})
       \/ d[w].pc \in InMail /\ Leave(w, "done", {"failed_terminal"})
    /\ UNCHANGED <<webpush, email>>

Crash(w) ==
    /\ d[w].pc \in InPush \cup InMail
    /\ Goto(w, "crashed")
    /\ UNCHANGED <<webpush, email>>

PushAges(r) ==
    /\ push[r].status \in {"processing", "failed_retryable"}
    /\ push' = [push EXCEPT ![r].late = TRUE]
    /\ UNCHANGED <<revoked, pushed, email, d>>

MailAges(n) ==
    /\ mail[n].status = "processing"
    /\ mail' = [mail EXCEPT ![n].late = TRUE]
    /\ UNCHANGED <<webpush, mailed, today, d>>

Midnight ==
    /\ today + 1 \in Days
    /\ today' = today + 1
    /\ UNCHANGED <<webpush, mail, mailed, d>>

\* saveSubscription brings a revoked subscription back.
Subscribe(s) ==
    /\ s \in revoked
    /\ revoked' = revoked \ {s}
    /\ UNCHANGED <<push, pushed, email, d>>

Unsubscribe(s) ==
    /\ s \notin revoked
    /\ revoked' = revoked \cup {s}
    /\ UNCHANGED <<push, pushed, email, d>>

-----------------------------------------------------------------------------

\* What a deliverer does by itself.
Step(w) ==
    \/ ReadPush(w) \/ FencePush(w) \/ ReadPushPrefs(w) \/ PushNotConfigured(w)
    \/ ClaimPush(w) \/ DenyPush(w) \/ SendPush(w) \/ FinishPush(w)
    \/ ReadMailPrefs(w) \/ ClaimMail(w) \/ FenceMail(w) \/ ReadMail(w) \/ SendMail(w) \/ FinishMail(w)

Next ==
    \/ \E w \in Deliverers : Invoke(w) \/ Step(w) \/ Throw(w) \/ Crash(w)
    \/ \E r \in Runs : PushAges(r)
    \/ \E n \in Days : MailAges(n)
    \/ Midnight
    \/ \E s \in Subs : Subscribe(s) \/ Unsubscribe(s)

Spec == Init /\ [][Next]_vars

-----------------------------------------------------------------------------
(* Properties *)

PushRows == [status : Statuses, token : Deliverers \cup {None}, attempts : 0..MaxPushAttempts,
             late : BOOLEAN]
Locals == [pc : Labels, run : Runs \cup {None}, prior : Statuses, outcome : Statuses, day : Days,
           failures : SUBSET FailureStates]

\* Every variable keeps its type; in particular no push row is attempted more often than
\* the limit, whoever counts its attempts (attempt_count < 5 in the claim).
TypeOK ==
    /\ push \in [Runs -> PushRows]
    /\ revoked \subseteq Subs
    /\ pushed \in [Runs -> [Subs -> Nat]]
    /\ mail \in [Days -> [status : Statuses \ {"failed_retryable"}, late : BOOLEAN]]
    /\ mailed \in [Days -> Nat]
    /\ today \in Days
    /\ d \in [Deliverers -> Locals]

\* However many deliverers, retries, crashes, lost answers and fences there are, no
\* subscription gets the push of a run twice and no day gets two emails ("replay would
\* duplicate successful subscriptions", "at-most-once").
OneCopyPerChannel ==
    /\ \A r \in Runs : \A s \in Subs : pushed[r][s] <= 1
    /\ \A n \in Days : mailed[n] <= 1

\* A push that will be tried again has reached no subscription and has an attempt left, so
\* that it does not wait for a retry that no claim grants (providerStatus, status).
RetryableIsUnsent ==
    \A r \in Runs : push[r].status = "failed_retryable" =>
        /\ push[r].attempts < MaxPushAttempts
        /\ \A s \in Subs : pushed[r][s] = 0

\* Web push and email keep the promise of SendOnce, for the runs and for the days: one copy,
\* although a push that was limited is sent again and an owner that was fenced may come back;
\* a row that says sent is true (deliveredAt of the two finalizing statements); and what a row
\* says in the end it says for good.
Verdict(row) ==
    IF row.status = "sent" THEN "sent" ELSE IF row.status = "failed_terminal" THEN "given_up" ELSE "open"

\* What the subscriptions have of a run: nothing, one copy each at most, or more.
Copies(r) ==
    IF \A s \in Subs : pushed[r][s] = 0 THEN 0
    ELSE IF \A s \in Subs : pushed[r][s] <= 1 THEN 1 ELSE 2

Pushes == INSTANCE SendOnce WITH
    Messages <- Runs, verdict <- [r \in Runs |-> Verdict(push[r])], copies <- [r \in Runs |-> Copies(r)]
Mails == INSTANCE SendOnce WITH
    Messages <- Days, verdict <- [n \in Days |-> Verdict(mail[n])], copies <- mailed

ChannelsSendOnce == Pushes!Spec /\ Mails!Spec

\* No late statement of a deliverer that was fenced rewrites a final row, and a push row in
\* processing is closed by its owner or, after two hours, as failed for good.
FinalRowsStay ==
    [][/\ \A r \in Runs :
             /\ push[r].status \in {"sent", "failed_terminal"} => push'[r] = push[r]
             /\ push[r].status = "processing" /\ push'[r].status # "processing" =>
                   \/ \E w \in Deliverers : push[r].token = w /\ At(w, "finishPush") /\ d'[w] # d[w]
                   \/ push[r].late /\ push'[r].status = "failed_terminal"
       /\ \A n \in Days : mail[n].status \in {"sent", "failed_terminal"} => mail'[n] = mail[n]]_vars

\* A delivery that reports no failure has not left a push row behind in its own name, not
\* even when the answer to its claim or to its last statement was lost ("callers cannot
\* report a fully successful daily run when an enabled channel failed").
OkReportIsTrue ==
    \A w \in Deliverers : At(w, "done") /\ d[w].failures = {} => push[Run(w)].token # w
=============================================================================
