---------------------- MODULE AggregateDelivery_proofs ----------------------
(***************************************************************************)
(* Proofs about AggregateDelivery, for every set of runs, deliverers,      *)
(* subscriptions and days, and any limit of attempts.                      *)
(***************************************************************************)
EXTENDS AggregateDelivery, TLAPS

-----------------------------------------------------------------------------
(* Typing *)

PushOutcomes == {"sent", "failed_retryable", "failed_terminal"}
MailOutcomes == {"sent", "failed_terminal"}

\* A deliverer that was invoked has a run; one that fences has found a row that is not final,
\* and one that finishes has an outcome.
GoodLocal(local) ==
    /\ local \in Locals
    /\ local.pc # "idle" => local.run \in Runs
    /\ local.pc = "fencePush" => local.prior \in {"processing", "failed_retryable"}
    /\ local.pc = "finishPush" => local.outcome \in PushOutcomes
    /\ local.pc = "finishMail" => local.outcome \in MailOutcomes

\* A row that was never claimed was never attempted.
PushTyped ==
    /\ push \in [Runs -> PushRows]
    /\ \A r \in Runs : push[r].status = "absent" => push[r].attempts = 0
MailTyped == mail \in [Days -> [status : Statuses \ {"failed_retryable"}, late : BOOLEAN]]
CountsTyped ==
    /\ revoked \subseteq Subs /\ pushed \in [Runs -> [Subs -> Nat]]
    /\ mailed \in [Days -> Nat] /\ today \in Days
LocalsTyped == d \in [Deliverers -> Locals] /\ \A w \in Deliverers : GoodLocal(d[w])
Typed == PushTyped /\ MailTyped /\ CountsTyped /\ LocalsTyped

\* The labels to which a deliverer may go without anything else to remember.
Plain == Labels \ {"idle", "fencePush", "finishPush", "finishMail"}

LEMMA LabelsAreLabels ==
    /\ InPush \subseteq Labels /\ InMail \subseteq Labels /\ Ended \subseteq Labels
    /\ "idle" \in Labels
    /\ {"mail", "done", "crashed", "push", "pushPrefs", "pushOff", "claimPush", "denyPush", "sendPush",
        "claimMail", "fenceMail", "readMail", "sendMail"} \subseteq Plain
    /\ "idle" \notin InPush /\ "idle" \notin InMail
BY DEF Labels, InPush, InMail, Ended, Plain

\* The statuses that are failures are statuses.
LEMMA StatusesAreStatuses ==
    /\ FailureStates \subseteq Statuses /\ PushOutcomes \subseteq Statuses
    /\ MailOutcomes \subseteq Statuses \ {"failed_retryable"}
BY DEF Statuses, FailureStates, PushOutcomes, MailOutcomes

\* A deliverer moves to a good local, and the others stay.
LEMMA Move ==
    ASSUME Typed, NEW w \in Deliverers, NEW local, GoodLocal(local), Becomes(w, local)
    PROVE  /\ LocalsTyped'
           /\ d'[w] = local
           /\ \A v \in Deliverers \ {w} : d'[v] = d[v]
BY DEF Typed, LocalsTyped, GoodLocal, Becomes

\* So it does when only its label changes.
LEMMA GotoMoves ==
    ASSUME Typed, NEW w \in Deliverers, d[w].pc # "idle", NEW label \in Plain, Goto(w, label)
    PROVE  /\ LocalsTyped'
           /\ d'[w] = [d[w] EXCEPT !.pc = label]
           /\ d'[w].pc = label /\ d'[w].run = d[w].run /\ d'[w].day = d[w].day
           /\ d'[w].failures = d[w].failures
           /\ \A v \in Deliverers \ {w} : d'[v] = d[v]
<1> DEFINE local == [d[w] EXCEPT !.pc = label]
<1>1. GoodLocal(d[w])
  BY DEF Typed, LocalsTyped
<1>2. /\ local \in Locals /\ local.pc = label /\ local.run = d[w].run /\ local.day = d[w].day
      /\ local.failures = d[w].failures
  BY <1>1 DEF GoodLocal, Locals, Plain
<1>3. GoodLocal(local)
  BY <1>1, <1>2 DEF GoodLocal, Plain
<1>4. Becomes(w, local)
  BY DEF Goto
<1> HIDE DEF local
<1>5. LocalsTyped' /\ d'[w] = local /\ \A v \in Deliverers \ {w} : d'[v] = d[v]
  BY <1>3, <1>4, Move
<1> QED BY <1>2, <1>5 DEF local

\* So it does when it leaves a channel.
LEMMA LeaveMoves ==
    ASSUME Typed, NEW w \in Deliverers, d[w].pc # "idle", NEW label \in Plain, NEW states,
           Leave(w, label, states)
    PROVE  /\ LocalsTyped'
           /\ d'[w].pc = label /\ d'[w].run = d[w].run /\ d'[w].day = 1
           /\ d'[w].failures = d[w].failures \cup (states \cap FailureStates)
           /\ \A v \in Deliverers \ {w} : d'[v] = d[v]
<1> DEFINE failures == d[w].failures \cup (states \cap FailureStates)
           local == [Idle EXCEPT !.pc = label, !.run = Run(w), !.failures = failures]
<1>1. GoodLocal(d[w])
  BY DEF Typed, LocalsTyped
<1>2. failures \in SUBSET FailureStates /\ Run(w) \in Runs
  BY <1>1 DEF GoodLocal, Locals, Run
<1>3. Becomes(w, local)
  BY DEF Leave
<1> HIDE DEF failures
<1>4. /\ local \in Locals /\ local.pc = label /\ local.run = d[w].run /\ local.day = 1
      /\ local.failures = failures
  BY <1>2, DaysAreCounted DEF Locals, Idle, Statuses, Run, Plain
<1>5. GoodLocal(local)
  BY <1>2, <1>4 DEF GoodLocal, Run, Plain
<1> HIDE DEF local
<1>6. LocalsTyped' /\ d'[w] = local /\ \A v \in Deliverers \ {w} : d'[v] = d[v]
  BY <1>3, <1>5, Move
<1> QED BY <1>4, <1>6 DEF failures

\* Sending a push leads to an outcome; to be tried again it must have been limited everywhere.
LEMMA PushOutcome ==
    ASSUME NEW active, NEW answers \in [active -> Answers], NEW attempts
    PROVE  /\ PushStatus(answers, attempts) \in PushOutcomes
           /\ PushStatus(answers, attempts) = "failed_retryable" =>
                 /\ attempts < MaxPushAttempts
                 /\ \A s \in active : answers[s] \notin {"accepted", "lost"}
           /\ PushStatus(answers, attempts) = "sent" => \E s \in active : answers[s] = "accepted"
<1> DEFINE got == {answers[s] : s \in DOMAIN answers}
<1>1. \A s \in active : answers[s] \in got
  OBVIOUS
<1>2. ASSUME "accepted" \in got PROVE \E s \in active : answers[s] = "accepted"
  BY <1>2
<1>3. PushStatus(answers, attempts) =
         IF "accepted" \in got
         THEN IF got \cap {"limited", "rejected", "lost"} = {} THEN "sent" ELSE "failed_terminal"
         ELSE IF got \cap {"limited", "rejected", "lost"} = {"limited"} /\ attempts < MaxPushAttempts
              THEN "failed_retryable" ELSE "failed_terminal"
  BY Zenon DEF PushStatus
<1> HIDE DEF got
<1> QED BY <1>1, <1>2, <1>3 DEF PushOutcomes

\* What a deliverer has become when it has sent the push.
LEMMA SendPushMoves ==
    ASSUME Typed, NEW w \in Deliverers, At(w, "sendPush"),
           NEW outcome \in PushOutcomes,
           Becomes(w, [d[w] EXCEPT !.pc = "finishPush", !.outcome = outcome])
    PROVE  /\ LocalsTyped'
           /\ d'[w].pc = "finishPush" /\ d'[w].outcome = outcome /\ d'[w].run = d[w].run
           /\ d'[w].failures = d[w].failures
           /\ \A v \in Deliverers \ {w} : d'[v] = d[v]
<1> DEFINE local == [d[w] EXCEPT !.pc = "finishPush", !.outcome = outcome]
<1>1. GoodLocal(d[w])
  BY DEF Typed, LocalsTyped
<1>2. /\ local \in Locals /\ local.pc = "finishPush" /\ local.outcome = outcome /\ local.run = d[w].run
      /\ local.failures = d[w].failures
  BY <1>1, StatusesAreStatuses DEF GoodLocal, Locals, Labels, InPush
<1>3. GoodLocal(local)
  BY <1>1, <1>2 DEF GoodLocal, At
<1> HIDE DEF local
<1>4. LocalsTyped' /\ d'[w] = local /\ \A v \in Deliverers \ {w} : d'[v] = d[v]
  BY <1>3, Move DEF local
<1> QED BY <1>2, <1>4

\* And when it has sent the email.
LEMMA SendMailMoves ==
    ASSUME Typed, NEW w \in Deliverers, At(w, "sendMail"),
           NEW outcome \in MailOutcomes,
           Becomes(w, [d[w] EXCEPT !.pc = "finishMail", !.outcome = outcome])
    PROVE  /\ LocalsTyped'
           /\ d'[w].pc = "finishMail" /\ d'[w].outcome = outcome /\ d'[w].run = d[w].run
           /\ d'[w].day = d[w].day /\ d'[w].failures = d[w].failures
           /\ \A v \in Deliverers \ {w} : d'[v] = d[v]
<1> DEFINE local == [d[w] EXCEPT !.pc = "finishMail", !.outcome = outcome]
<1>1. GoodLocal(d[w])
  BY DEF Typed, LocalsTyped
<1>2. /\ local \in Locals /\ local.pc = "finishMail" /\ local.outcome = outcome /\ local.run = d[w].run
      /\ local.day = d[w].day /\ local.failures = d[w].failures
  BY <1>1, StatusesAreStatuses DEF GoodLocal, Locals, Labels, InMail
<1>3. GoodLocal(local)
  BY <1>1, <1>2 DEF GoodLocal, At
<1> HIDE DEF local
<1>4. LocalsTyped' /\ d'[w] = local /\ \A v \in Deliverers \ {w} : d'[v] = d[v]
  BY <1>3, Move DEF local
<1> QED BY <1>2, <1>4

\* Every step keeps the locals typed.
LEMMA NextLocals == ASSUME Typed, [Next]_vars PROVE LocalsTyped'
<1>1. \A w \in Deliverers : GoodLocal(d[w])
  BY DEF Typed, LocalsTyped
<1>2. CASE UNCHANGED d
  BY <1>2 DEF Typed, LocalsTyped
<1>3. ASSUME NEW w \in Deliverers, Invoke(w) PROVE LocalsTyped'
  <2> PICK r \in Runs : Becomes(w, [Idle EXCEPT !.pc = "push", !.run = r])
    BY <1>3 DEF Invoke
  <2> DEFINE local == [Idle EXCEPT !.pc = "push", !.run = r]
  <2>1. GoodLocal(local)
    BY DaysAreCounted DEF GoodLocal, Idle, Locals, Statuses, Labels, InPush
  <2>2. Becomes(w, local)
    OBVIOUS
  <2> HIDE DEF local
  <2> QED BY <2>1, <2>2, Move
<1>4. ASSUME NEW w \in Deliverers, ReadPush(w) PROVE LocalsTyped'
  <2> DEFINE prior == push[Run(w)].status
  <2>1. Run(w) \in Runs /\ prior \in Statuses
    BY <1>1, <1>4 DEF ReadPush, At, GoodLocal, Run, Typed, PushTyped, PushRows
  <2>2. CASE prior \in {"processing", "failed_retryable"}
             /\ Becomes(w, [d[w] EXCEPT !.pc = "fencePush", !.prior = prior])
    <3> DEFINE local == [d[w] EXCEPT !.pc = "fencePush", !.prior = prior]
    <3>1. GoodLocal(local)
      BY <1>1, <1>4, <2>1, <2>2 DEF ReadPush, At, GoodLocal, Locals, Labels, InPush
    <3>2. Becomes(w, local)
      BY <2>2
    <3> HIDE DEF local
    <3> QED BY <3>1, <3>2, Move
  <2>3. CASE Becomes(w, [d[w] EXCEPT !.pc = "pushPrefs", !.prior = prior])
    <3> DEFINE local == [d[w] EXCEPT !.pc = "pushPrefs", !.prior = prior]
    <3>1. GoodLocal(local)
      BY <1>1, <1>4, <2>1 DEF ReadPush, At, GoodLocal, Locals, Labels, InPush
    <3>2. Becomes(w, local)
      BY <2>3
    <3> HIDE DEF local
    <3> QED BY <3>1, <3>2, Move
  <2>4. CASE Leave(w, "mail", {prior})
    BY <1>4, <2>4, LeaveMoves, LabelsAreLabels DEF ReadPush, At
  <2> HIDE DEF prior
  <2> QED BY <1>4, <2>2, <2>3, <2>4 DEF ReadPush, prior
<1>5. ASSUME NEW w \in Deliverers, FencePush(w) PROVE LocalsTyped'
  <2>1. PICK states : Leave(w, "mail", states)
    BY <1>5 DEF FencePush
  <2> QED BY <1>5, <2>1, LeaveMoves, LabelsAreLabels DEF FencePush, At
<1>6. ASSUME NEW w \in Deliverers, ReadPushPrefs(w) PROVE LocalsTyped'
  BY <1>6, LeaveMoves, GotoMoves, LabelsAreLabels DEF ReadPushPrefs, At
<1>7. ASSUME NEW w \in Deliverers, PushNotConfigured(w) PROVE LocalsTyped'
  BY <1>7, LeaveMoves, LabelsAreLabels DEF PushNotConfigured, At
<1>8. ASSUME NEW w \in Deliverers, ClaimPush(w) PROVE LocalsTyped'
  BY <1>8, LeaveMoves, GotoMoves, LabelsAreLabels DEF ClaimPush, At
<1>9. ASSUME NEW w \in Deliverers, DenyPush(w) PROVE LocalsTyped'
  BY <1>9, LeaveMoves, LabelsAreLabels DEF DenyPush, At
<1>10. ASSUME NEW w \in Deliverers, SendPush(w) PROVE LocalsTyped'
  <2> PICK answers \in [Subs \ revoked -> Answers] :
          Becomes(w, [d[w] EXCEPT !.pc = "finishPush", !.outcome = PushStatus(answers, push[Run(w)].attempts)])
    BY <1>10 DEF SendPush
  <2>1. PushStatus(answers, push[Run(w)].attempts) \in PushOutcomes
    BY PushOutcome
  <2> QED BY <1>10, <2>1, SendPushMoves DEF SendPush
<1>11. ASSUME NEW w \in Deliverers, FinishPush(w) PROVE LocalsTyped'
  BY <1>11, LeaveMoves, LabelsAreLabels DEF FinishPush, At
<1>12. ASSUME NEW w \in Deliverers, ReadMailPrefs(w) PROVE LocalsTyped'
  <2>1. CASE \E states \in SUBSET {"failed_terminal"} : Leave(w, "done", states)
    BY <1>12, <2>1, LeaveMoves, LabelsAreLabels DEF ReadMailPrefs, At
  <2>2. CASE Becomes(w, [d[w] EXCEPT !.pc = "claimMail", !.day = today])
    <3> DEFINE local == [d[w] EXCEPT !.pc = "claimMail", !.day = today]
    <3>1. GoodLocal(local)
      BY <1>1, <1>12 DEF ReadMailPrefs, At, GoodLocal, Locals, Labels, InMail, Typed, CountsTyped
    <3> HIDE DEF local
    <3> QED BY <2>2, <3>1, Move DEF local
  <2> QED BY <1>12, <2>1, <2>2 DEF ReadMailPrefs
<1>13. ASSUME NEW w \in Deliverers, ClaimMail(w) PROVE LocalsTyped'
  BY <1>13, LeaveMoves, GotoMoves, LabelsAreLabels DEF ClaimMail, At
<1>14. ASSUME NEW w \in Deliverers, FenceMail(w) PROVE LocalsTyped'
  BY <1>14, GotoMoves, LabelsAreLabels DEF FenceMail, At
<1>15. ASSUME NEW w \in Deliverers, ReadMail(w) PROVE LocalsTyped'
  BY <1>15, LeaveMoves, LabelsAreLabels DEF ReadMail, At
<1>16. ASSUME NEW w \in Deliverers, SendMail(w) PROVE LocalsTyped'
  BY <1>16, SendMailMoves DEF SendMail, MailOutcomes
<1>17. ASSUME NEW w \in Deliverers, FinishMail(w) PROVE LocalsTyped'
  BY <1>17, LeaveMoves, LabelsAreLabels DEF FinishMail, At
<1>18. ASSUME NEW w \in Deliverers, Throw(w) PROVE LocalsTyped'
  BY <1>18, LeaveMoves, LabelsAreLabels DEF Throw
<1>19. ASSUME NEW w \in Deliverers, Crash(w) PROVE LocalsTyped'
  BY <1>19, GotoMoves, LabelsAreLabels DEF Crash
<1> QED
  BY <1>2, <1>3, <1>4, <1>5, <1>6, <1>7, <1>8, <1>9, <1>10, <1>11, <1>12, <1>13, <1>14, <1>15,
     <1>16, <1>17, <1>18, <1>19
  DEF Next, Step, vars, PushAges, MailAges, Midnight, Subscribe, Unsubscribe

\* A row that is closed for good is a row, and the others stay.
LEMMA FenceMoves ==
    ASSUME Typed, NEW r \in Runs, push[r].status # "absent", Fence(r)
    PROVE  /\ PushTyped'
           /\ push'[r].status = "failed_terminal" /\ push'[r].token = None
           /\ push'[r].attempts = push[r].attempts
           /\ \A q \in Runs \ {r} : push'[q] = push[q]
<1> DEFINE row == [push[r] EXCEPT !.status = "failed_terminal", !.token = None, !.late = FALSE]
<1>1. /\ row \in PushRows /\ row.status = "failed_terminal" /\ row.token = None
      /\ row.attempts = push[r].attempts
  BY DEF Typed, PushTyped, PushRows, Statuses, FailureStates
<1>2. push' = [push EXCEPT ![r] = row]
  BY DEF Fence
<1> HIDE DEF row
<1> QED BY <1>1, <1>2 DEF Typed, PushTyped

\* A claim counts an attempt, within the limit.
LEMMA ClaimMoves ==
    ASSUME Typed, NEW r \in Runs, NEW w \in Deliverers, PushClaimable(r),
           push' = [push EXCEPT ![r] = [status |-> "processing", token |-> w,
                                        attempts |-> @.attempts + 1, late |-> FALSE]]
    PROVE  /\ PushTyped'
           /\ push'[r].status = "processing" /\ push'[r].token = w
           /\ \A q \in Runs \ {r} : push'[q] = push[q]
<1> DEFINE row == [status |-> "processing", token |-> w, attempts |-> push[r].attempts + 1, late |-> FALSE]
<1>1. push[r].attempts \in 0..MaxPushAttempts /\ push[r].attempts < MaxPushAttempts
  BY PushAttemptsArePositive DEF Typed, PushTyped, PushRows, PushClaimable
<1>2. row \in PushRows /\ row.status = "processing" /\ row.token = w
  BY <1>1, PushAttemptsArePositive DEF PushRows, Statuses, FailureStates
<1>3. push' = [push EXCEPT ![r] = row]
  OBVIOUS
<1> HIDE DEF row
<1> QED BY <1>2, <1>3 DEF Typed, PushTyped

\* What the owner of a row writes when it finishes.
LEMMA FinishMoves ==
    ASSUME Typed, NEW r \in Runs, NEW outcome \in PushOutcomes,
           push' = [push EXCEPT ![r] = [@ EXCEPT !.status = outcome, !.token = None, !.late = FALSE]]
    PROVE  /\ PushTyped'
           /\ push'[r].status = outcome /\ push'[r].token = None /\ push'[r].attempts = push[r].attempts
           /\ \A q \in Runs \ {r} : push'[q] = push[q]
<1> DEFINE row == [push[r] EXCEPT !.status = outcome, !.token = None, !.late = FALSE]
<1>1. /\ row \in PushRows /\ row.status = outcome /\ row.token = None /\ row.attempts = push[r].attempts
      /\ row.status # "absent"
  BY StatusesAreStatuses DEF Typed, PushTyped, PushRows, PushOutcomes
<1>2. push' = [push EXCEPT ![r] = row]
  OBVIOUS
<1> HIDE DEF row
<1> QED BY <1>1, <1>2 DEF Typed, PushTyped

\* Time changes a row's flag only.
LEMMA AgeMoves ==
    ASSUME Typed, NEW r \in Runs, PushAges(r)
    PROVE  /\ PushTyped'
           /\ push'[r].status = push[r].status /\ push'[r].token = push[r].token
           /\ push'[r].attempts = push[r].attempts
           /\ \A q \in Runs \ {r} : push'[q] = push[q]
<1> DEFINE row == [push[r] EXCEPT !.late = TRUE]
<1>1. /\ row \in PushRows /\ row.status = push[r].status /\ row.token = push[r].token
      /\ row.attempts = push[r].attempts
  BY DEF Typed, PushTyped, PushRows
<1>2. push' = [push EXCEPT ![r] = row]
  BY DEF PushAges
<1> HIDE DEF row
<1> QED BY <1>1, <1>2 DEF Typed, PushTyped

\* Only these steps write push rows.
LEMMA PushWriters ==
    ASSUME [Next]_vars
    PROVE  \/ UNCHANGED push
           \/ \E w \in Deliverers : FencePush(w) \/ PushNotConfigured(w) \/ ClaimPush(w) \/ FinishPush(w)
           \/ \E r \in Runs : PushAges(r)
BY DEF Next, Step, vars, webpush, Invoke, ReadPush, ReadPushPrefs, DenyPush, SendPush, ReadMailPrefs,
       ClaimMail, FenceMail, ReadMail, SendMail, FinishMail, Throw, Crash, MailAges, Midnight,
       Subscribe, Unsubscribe

\* And these write email rows.
LEMMA MailWriters ==
    ASSUME [Next]_vars
    PROVE  \/ UNCHANGED mail
           \/ \E w \in Deliverers : ClaimMail(w) \/ FenceMail(w) \/ FinishMail(w)
           \/ \E n \in Days : MailAges(n)
BY DEF Next, Step, vars, email, Invoke, ReadPush, FencePush, ReadPushPrefs, PushNotConfigured, ClaimPush,
       DenyPush, SendPush, FinishPush, ReadMailPrefs, ReadMail, SendMail, Throw, Crash, PushAges, Midnight,
       Subscribe, Unsubscribe

\* A deliverer that works has a run.
LEMMA WorkerHasRun ==
    ASSUME Typed, NEW w \in Deliverers, d[w].pc # "idle"
    PROVE  Run(w) \in Runs /\ d[w].day \in Days
BY DEF Typed, LocalsTyped, GoodLocal, Locals, Run

\* The push rows stay typed.
LEMMA NextPush == ASSUME Typed, [Next]_vars PROVE PushTyped'
<1>1. CASE UNCHANGED push
  BY <1>1 DEF Typed, PushTyped
<1>2. ASSUME NEW w \in Deliverers, FencePush(w) PROVE PushTyped'
  <2>1. Run(w) \in Runs /\ d[w].prior \in {"processing", "failed_retryable"}
    BY <1>2, WorkerHasRun DEF FencePush, At, Typed, LocalsTyped, GoodLocal
  <2>2. UNCHANGED push \/ (push[Run(w)].status = d[w].prior /\ Fence(Run(w)))
    BY <1>2 DEF FencePush
  <2> QED BY <1>1, <2>1, <2>2, FenceMoves
<1>3. ASSUME NEW w \in Deliverers, PushNotConfigured(w) PROVE PushTyped'
  <2>1. Run(w) \in Runs
    BY <1>3, WorkerHasRun DEF PushNotConfigured, At
  <2>2. UNCHANGED push \/ (push[Run(w)].status = "failed_retryable" /\ Fence(Run(w)))
    BY <1>3 DEF PushNotConfigured
  <2> QED BY <1>1, <2>1, <2>2, FenceMoves
<1>4. ASSUME NEW w \in Deliverers, ClaimPush(w) PROVE PushTyped'
  <2>1. Run(w) \in Runs
    BY <1>4, WorkerHasRun DEF ClaimPush, At
  <2> QED BY <1>1, <1>4, <2>1, ClaimMoves DEF ClaimPush
<1>5. ASSUME NEW w \in Deliverers, FinishPush(w) PROVE PushTyped'
  <2>1. Run(w) \in Runs /\ d[w].outcome \in PushOutcomes
    BY <1>5, WorkerHasRun DEF FinishPush, At, Typed, LocalsTyped, GoodLocal
  <2> QED BY <1>1, <1>5, <2>1, FinishMoves DEF FinishPush
<1>6. ASSUME NEW r \in Runs, PushAges(r) PROVE PushTyped'
  BY <1>6, AgeMoves
<1> QED BY <1>1, <1>2, <1>3, <1>4, <1>5, <1>6, PushWriters

\* What the steps on an email row make of it.
LEMMA MailMoves ==
    ASSUME Typed, NEW n \in Days, NEW row \in [status : Statuses \ {"failed_retryable"}, late : BOOLEAN],
           mail' = [mail EXCEPT ![n] = row]
    PROVE  /\ MailTyped'
           /\ mail'[n] = row
           /\ \A m \in Days \ {n} : mail'[m] = mail[m]
BY DEF Typed, MailTyped

\* The email rows stay typed.
LEMMA NextMail == ASSUME Typed, [Next]_vars PROVE MailTyped'
<1> DEFINE Rows == [status : Statuses \ {"failed_retryable"}, late : BOOLEAN]
<1>1. CASE UNCHANGED mail
  BY <1>1 DEF Typed, MailTyped
<1>2. \A n \in Days : mail[n] \in Rows
  BY DEF Typed, MailTyped
<1>3. \A status \in {"processing"} \cup MailOutcomes, late \in BOOLEAN :
          [status |-> status, late |-> late] \in Rows
  BY DEF Statuses, FailureStates, MailOutcomes
<1>4. ASSUME NEW w \in Deliverers, ClaimMail(w) PROVE MailTyped'
  <2>1. d[w].day \in Days
    BY <1>4, WorkerHasRun DEF ClaimMail, At
  <2>2. UNCHANGED mail \/ mail' = [mail EXCEPT ![d[w].day] = [status |-> "processing", late |-> FALSE]]
    BY <1>4 DEF ClaimMail
  <2> QED BY <1>1, <1>3, <2>1, <2>2, MailMoves
<1>5. ASSUME NEW w \in Deliverers, FenceMail(w) PROVE MailTyped'
  <2> DEFINE row == IF mail[d[w].day].status = "processing" /\ mail[d[w].day].late
                    THEN Closed("failed_terminal") ELSE mail[d[w].day]
  <2>1. d[w].day \in Days
    BY <1>5, WorkerHasRun DEF FenceMail, At
  <2>2. row \in Rows
    BY <1>2, <1>3, <2>1 DEF Closed, MailOutcomes
  <2>3. mail' = [mail EXCEPT ![d[w].day] = row]
    BY <1>5 DEF FenceMail
  <2> HIDE DEF row
  <2> QED BY <2>1, <2>2, <2>3, MailMoves
<1>6. ASSUME NEW w \in Deliverers, FinishMail(w) PROVE MailTyped'
  <2>1. d[w].day \in Days /\ d[w].outcome \in MailOutcomes
    BY <1>6, WorkerHasRun DEF FinishMail, At, Typed, LocalsTyped, GoodLocal
  <2>2. Closed(d[w].outcome) \in Rows
    BY <1>3, <2>1 DEF Closed
  <2>3. UNCHANGED mail \/ mail' = [mail EXCEPT ![d[w].day] = Closed(d[w].outcome)]
    BY <1>6 DEF FinishMail
  <2> QED BY <1>1, <2>1, <2>2, <2>3, MailMoves
<1>7. ASSUME NEW n \in Days, MailAges(n) PROVE MailTyped'
  BY <1>7 DEF MailAges, Typed, MailTyped
<1> QED BY <1>1, <1>4, <1>5, <1>6, <1>7, MailWriters

\* The counts and the subscriptions stay typed.
LEMMA NextCounts == ASSUME Typed, [Next]_vars PROVE CountsTyped'
<1>1. CASE UNCHANGED <<revoked, pushed, mailed, today>>
  BY <1>1 DEF Typed, CountsTyped
<1>2. ASSUME NEW w \in Deliverers, SendPush(w) PROVE CountsTyped'
  <2>1. Run(w) \in Runs
    BY <1>2, WorkerHasRun DEF SendPush, At
  <2>2. pushed[Run(w)] \in [Subs -> Nat]
    BY <2>1 DEF Typed, CountsTyped
  <2>3. PICK answers \in [Subs \ revoked -> Answers], reached \in SUBSET (Subs \ revoked) :
          /\ pushed' = [pushed EXCEPT ![Run(w)] =
                           [s \in Subs |-> IF s \in reached THEN @[s] + 1 ELSE @[s]]]
          /\ \E pruned \in SUBSET {s \in Subs \ revoked : answers[s] = "gone"} :
                revoked' = revoked \cup pruned
    BY <1>2, Zenon DEF SendPush
  <2> DEFINE copies == [s \in Subs |-> IF s \in reached THEN pushed[Run(w)][s] + 1 ELSE pushed[Run(w)][s]]
  <2>4. copies \in [Subs -> Nat]
    BY <2>2
  <2>5. pushed' = [pushed EXCEPT ![Run(w)] = copies]
    BY <2>3
  <2> HIDE DEF copies
  <2>6. pushed' \in [Runs -> [Subs -> Nat]]
    BY <2>4, <2>5 DEF Typed, CountsTyped
  <2>7. revoked' \subseteq Subs
    BY <2>3 DEF Typed, CountsTyped
  <2>8. UNCHANGED <<mailed, today>>
    BY <1>2, Zenon DEF SendPush, email
  <2> QED BY <2>6, <2>7, <2>8 DEF Typed, CountsTyped
<1>3. ASSUME NEW w \in Deliverers, SendMail(w) PROVE CountsTyped'
  <2> PICK accepted \in {0, 1} : mailed' = [mailed EXCEPT ![d[w].day] = @ + accepted]
    BY <1>3 DEF SendMail
  <2>1. d[w].day \in Days
    BY <1>3, WorkerHasRun DEF SendMail, At
  <2>2. mailed[d[w].day] + accepted \in Nat
    BY <2>1 DEF Typed, CountsTyped
  <2>3. mailed' \in [Days -> Nat]
    BY <2>1, <2>2 DEF Typed, CountsTyped
  <2>4. UNCHANGED <<webpush, today>>
    BY <1>3, Zenon DEF SendMail
  <2> QED BY <2>3, <2>4 DEF webpush, Typed, CountsTyped
<1>4. CASE Midnight
  BY <1>4 DEF Midnight, webpush, Typed, CountsTyped
<1>5. ASSUME NEW s \in Subs, Subscribe(s) \/ Unsubscribe(s) PROVE CountsTyped'
  BY <1>5 DEF Subscribe, Unsubscribe, email, Typed, CountsTyped
<1> QED
  BY <1>1, <1>2, <1>3, <1>4, <1>5
  DEF Next, Step, vars, webpush, email, Invoke, ReadPush, FencePush, ReadPushPrefs, PushNotConfigured,
      ClaimPush, DenyPush, FinishPush, ReadMailPrefs, ClaimMail, FenceMail, ReadMail, FinishMail,
      Throw, Crash, PushAges, MailAges

LEMMA InitTyped == ASSUME Init PROVE Typed
<1>1. PushTyped
  BY PushAttemptsArePositive DEF Init, PushTyped, PushRows, Statuses
<1>2. MailTyped /\ CountsTyped
  BY DaysAreCounted DEF Init, MailTyped, CountsTyped, Statuses
<1>3. GoodLocal(Idle)
  BY DaysAreCounted DEF GoodLocal, Idle, Locals, Labels, Statuses
<1>4. LocalsTyped
  BY <1>3 DEF Init, LocalsTyped, GoodLocal
<1> QED BY <1>1, <1>2, <1>4 DEF Typed

LEMMA NextTyped == ASSUME Typed, [Next]_vars PROVE Typed'
BY NextLocals, NextPush, NextMail, NextCounts DEF Typed

LEMMA AlwaysTyped == Spec => []Typed
<1>1. Init => Typed
  BY InitTyped
<1>2. Typed /\ [Next]_vars => Typed'
  BY NextTyped
<1> QED BY <1>1, <1>2, PTL DEF Spec

\* Every variable keeps its type; no push row is attempted more often than the limit of the
\* claim, however many deliverers there are.
THEOREM TypeCorrect == Spec => []TypeOK
<1>1. Typed => TypeOK
  BY DEF Typed, PushTyped, MailTyped, CountsTyped, LocalsTyped, TypeOK
<1> QED BY <1>1, AlwaysTyped, PTL

-----------------------------------------------------------------------------
(* What the steps do to web push *)

Pushing == {"sendPush", "finishPush"}

\* What a deliverer must be whose name is in a row that it cannot have closed.
Holding(local) == local.pc # "idle" /\ (local.pc \in Pushing \cup {"crashed"} \/ local.failures # {})

\* A deliverer neither begins nor goes on to send a push, and forgets no failure.
Quiet(w) ==
    /\ d'[w] = d[w] \/ d'[w].pc \notin Pushing
    /\ Holding(d[w]) => Holding(d'[w]) /\ d'[w].run = d[w].run
AllQuiet == \A w \in Deliverers : Quiet(w)

OthersStay(w) == \A v \in Deliverers \ {w} : d'[v] = d[v]
OtherRowsStay(r) == \A q \in Runs \ {r} : push'[q] = push[q]

Fences(r) ==
    /\ push[r].status \in {"processing", "failed_retryable"}
    /\ push[r].status = "processing" => push[r].late
    /\ push'[r].status = "failed_terminal" /\ push'[r].token = None
    /\ push'[r].attempts = push[r].attempts
    /\ OtherRowsStay(r) /\ UNCHANGED pushed /\ AllQuiet
Claims(w) ==
    /\ PushClaimable(Run(w))
    /\ push'[Run(w)].status = "processing" /\ push'[Run(w)].token = w
    /\ OtherRowsStay(Run(w)) /\ UNCHANGED pushed
    /\ d'[w].run = d[w].run /\ d'[w].pc \in {"sendPush", "mail"} /\ Holding(d'[w])
    /\ OthersStay(w)
Sends(w) ==
    /\ d[w].pc = "sendPush"
    /\ UNCHANGED push
    /\ \A q \in Runs \ {Run(w)} : pushed'[q] = pushed[q]
    /\ \A s \in Subs : pushed'[Run(w)][s] \in {pushed[Run(w)][s], pushed[Run(w)][s] + 1}
    /\ d'[w].pc = "finishPush" /\ d'[w].run = d[w].run
    /\ d'[w].outcome = "failed_retryable" =>
          /\ push[Run(w)].attempts < MaxPushAttempts
          /\ \A s \in Subs : pushed'[Run(w)][s] = pushed[Run(w)][s]
    /\ d'[w].outcome = "sent" => \E s \in Subs : pushed'[Run(w)][s] = pushed[Run(w)][s] + 1
    /\ OthersStay(w)
Finishes(w) ==
    /\ d[w].pc = "finishPush" /\ OwnsPush(w)
    /\ push'[Run(w)].status = d[w].outcome /\ push'[Run(w)].token = None
    /\ push'[Run(w)].attempts = push[Run(w)].attempts
    /\ OtherRowsStay(Run(w)) /\ UNCHANGED pushed
    /\ d'[w].pc = "mail" /\ d'[w].run = d[w].run
    /\ OthersStay(w)
Ages(r) ==
    /\ push[r].status \in {"processing", "failed_retryable"}
    /\ push'[r].status = push[r].status /\ push'[r].token = push[r].token
    /\ push'[r].attempts = push[r].attempts
    /\ OtherRowsStay(r) /\ UNCHANGED pushed /\ UNCHANGED d

\* Leaving a channel with a failure, or from a place where nothing is held, is quiet.
LEMMA LeaveIsQuiet ==
    ASSUME Typed, NEW w \in Deliverers, d[w].pc \in InPush \cup InMail, NEW label \in Plain \ Pushing,
           NEW states, Leave(w, label, states),
           d[w].pc \notin Pushing \/ states \cap FailureStates # {}
    PROVE  AllQuiet
<1>1. /\ d[w].pc # "idle" /\ d[w].pc # "crashed" /\ label # "idle"
  BY DEF InPush, InMail, Plain
<1>2. /\ d'[w].pc = label /\ d'[w].run = d[w].run
      /\ d'[w].failures = d[w].failures \cup (states \cap FailureStates)
      /\ \A v \in Deliverers \ {w} : d'[v] = d[v]
  BY <1>1, LeaveMoves
<1>3. Quiet(w)
  BY <1>1, <1>2 DEF Quiet, Holding
<1>4. ASSUME NEW v \in Deliverers \ {w} PROVE Quiet(v)
  BY <1>2 DEF Quiet
<1> QED BY <1>3, <1>4 DEF AllQuiet

\* So is going on without sending.
LEMMA GotoIsQuiet ==
    ASSUME Typed, NEW w \in Deliverers, d[w].pc \in InPush \cup InMail, NEW label \in Plain \ Pushing,
           Goto(w, label), d[w].pc \notin Pushing \/ label = "crashed"
    PROVE  AllQuiet
<1>1. /\ d[w].pc # "idle" /\ d[w].pc # "crashed" /\ label # "idle"
  BY DEF InPush, InMail, Plain
<1>2. /\ d'[w].pc = label /\ d'[w].run = d[w].run /\ d'[w].failures = d[w].failures
      /\ \A v \in Deliverers \ {w} : d'[v] = d[v]
  BY <1>1, GotoMoves
<1>3. Quiet(w)
  BY <1>1, <1>2 DEF Quiet, Holding
<1>4. ASSUME NEW v \in Deliverers \ {w} PROVE Quiet(v)
  BY <1>2 DEF Quiet
<1> QED BY <1>3, <1>4 DEF AllQuiet

\* And so is any other move that keeps the run and the failures.
LEMMA BecomeIsQuiet ==
    ASSUME Typed, NEW w \in Deliverers, d[w].pc \notin Pushing \cup {"crashed"}, NEW local,
           Becomes(w, local), local.pc \notin Pushing,
           d[w].pc = "idle" \/ (local.pc # "idle" /\ local.run = d[w].run /\ local.failures = d[w].failures)
    PROVE  AllQuiet
<1>1. d'[w] = local /\ \A v \in Deliverers \ {w} : d'[v] = d[v]
  BY DEF Becomes, Typed, LocalsTyped
<1>2. Quiet(w)
  BY <1>1 DEF Quiet, Holding
<1>3. ASSUME NEW v \in Deliverers \ {w} PROVE Quiet(v)
  BY <1>1 DEF Quiet
<1> QED BY <1>2, <1>3 DEF AllQuiet

LEMMA SameIsQuiet == ASSUME UNCHANGED d PROVE AllQuiet
BY DEF AllQuiet, Quiet

PushKind ==
    \/ UNCHANGED <<push, pushed>> /\ AllQuiet
    \/ \E r \in Runs : Fences(r) \/ Ages(r)
    \/ \E w \in Deliverers : Claims(w) \/ Sends(w) \/ Finishes(w)

\* The labels that matter to the moves.
LEMMA PlainLabels ==
    /\ {"mail", "done", "crashed", "pushPrefs", "pushOff", "claimPush", "denyPush", "claimMail",
        "fenceMail", "readMail", "sendMail"} \subseteq Plain \ Pushing
    /\ InPush \cup InMail = {"push", "fencePush", "pushPrefs", "pushOff", "claimPush", "denyPush",
           "sendPush", "finishPush", "mail", "claimMail", "fenceMail", "readMail", "sendMail", "finishMail"}
    /\ {"failed_terminal"} \cap FailureStates # {}
BY LabelsAreLabels DEF Pushing, InPush, InMail, FailureStates

\* A claim writes the name of the claimant into the row of its run.
LEMMA ClaimPushKind == ASSUME Typed, NEW w \in Deliverers, ClaimPush(w) PROVE PushKind
<1> USE PlainLabels
<1>1. At(w, "claimPush") /\ d[w].pc \in InPush \cup InMail /\ d[w].pc # "idle" /\ d[w].pc \notin Pushing
  BY DEF ClaimPush, At, Pushing
<1>2. Run(w) \in Runs
  BY <1>1, WorkerHasRun
<1>3. UNCHANGED pushed
  BY DEF ClaimPush
<1>4. CASE PushClaimable(Run(w)) /\ UNCHANGED email
           /\ push' = [push EXCEPT ![Run(w)] = [status |-> "processing", token |-> w,
                                                attempts |-> @.attempts + 1, late |-> FALSE]]
           /\ (Goto(w, "sendPush") \/ Leave(w, "mail", {"failed_terminal"}))
  <2>1. /\ push'[Run(w)].status = "processing" /\ push'[Run(w)].token = w
        /\ OtherRowsStay(Run(w))
    BY <1>2, <1>4, ClaimMoves DEF OtherRowsStay
  <2>2. CASE Goto(w, "sendPush")
    <3>1. d'[w].run = d[w].run /\ d'[w].pc = "sendPush" /\ OthersStay(w)
      BY <1>1, <2>2, GotoMoves, LabelsAreLabels DEF OthersStay
    <3> QED BY <1>3, <1>4, <2>1, <3>1 DEF PushKind, Claims, Holding, Pushing
  <2>3. CASE Leave(w, "mail", {"failed_terminal"})
    <3>1. /\ d'[w].run = d[w].run /\ d'[w].pc = "mail" /\ OthersStay(w)
          /\ d'[w].failures = d[w].failures \cup ({"failed_terminal"} \cap FailureStates)
      BY <1>1, <2>3, LeaveMoves, LabelsAreLabels DEF OthersStay
    <3> QED BY <1>3, <1>4, <2>1, <3>1 DEF PushKind, Claims, Holding
  <2> QED BY <1>4, <2>2, <2>3
<1>5. CASE Goto(w, "denyPush") /\ UNCHANGED push
  BY <1>1, <1>3, <1>5, GotoIsQuiet DEF PushKind
<1> QED BY <1>4, <1>5 DEF ClaimPush

\* What is sent is counted, and a push that may be tried again has reached nobody.
LEMMA SendPushKind == ASSUME Typed, NEW w \in Deliverers, SendPush(w) PROVE PushKind
<1> DEFINE r == Run(w)
<1>1. At(w, "sendPush") /\ UNCHANGED push /\ r \in Runs
  BY WorkerHasRun DEF SendPush, At
<1>2. PICK answers \in [Subs \ revoked -> Answers], reached \in SUBSET (Subs \ revoked) :
          /\ \A s \in Subs \ revoked : answers[s] = "accepted" => s \in reached
          /\ \A s \in reached : answers[s] \in {"accepted", "lost"}
          /\ pushed' = [pushed EXCEPT ![Run(w)] =
                           [s \in Subs |-> IF s \in reached THEN @[s] + 1 ELSE @[s]]]
          /\ Becomes(w, [d[w] EXCEPT !.pc = "finishPush",
                                     !.outcome = PushStatus(answers, push[Run(w)].attempts)])
  BY Zenon DEF SendPush
<1> DEFINE outcome == PushStatus(answers, push[Run(w)].attempts)
<1>3. /\ outcome \in PushOutcomes
      /\ outcome = "failed_retryable" =>
            push[r].attempts < MaxPushAttempts /\ \A s \in Subs \ revoked : answers[s] \notin {"accepted", "lost"}
      /\ outcome = "sent" => \E s \in Subs \ revoked : answers[s] = "accepted"
  BY PushOutcome
<1>4. Becomes(w, [d[w] EXCEPT !.pc = "finishPush", !.outcome = outcome])
  BY <1>2
<1>5. /\ \A q \in Runs \ {r} : pushed'[q] = pushed[q]
      /\ \A s \in Subs : pushed'[r][s] = IF s \in reached THEN pushed[r][s] + 1 ELSE pushed[r][s]
  BY <1>1, <1>2 DEF Typed, CountsTyped
<1> HIDE DEF outcome
<1>6. /\ d'[w].pc = "finishPush" /\ d'[w].outcome = outcome /\ d'[w].run = d[w].run /\ OthersStay(w)
  BY <1>1, <1>3, <1>4, SendPushMoves DEF OthersStay
<1>7. outcome = "failed_retryable" => reached = {}
  BY <1>2, <1>3
<1>8. outcome = "sent" => \E s \in Subs : pushed'[r][s] = pushed[r][s] + 1
  BY <1>2, <1>3, <1>5
<1>9. Sends(w)
  BY <1>1, <1>3, <1>5, <1>6, <1>7, <1>8 DEF Sends, At
<1> QED BY <1>9 DEF PushKind

\* The owner closes its row with its outcome; anyone else reports a failure.
LEMMA FinishPushKind == ASSUME Typed, NEW w \in Deliverers, FinishPush(w) PROVE PushKind
<1> USE PlainLabels
<1>1. At(w, "finishPush") /\ d[w].pc \in InPush \cup InMail /\ d[w].pc # "idle" /\ UNCHANGED pushed
  BY DEF FinishPush, At
<1>2. Run(w) \in Runs /\ d[w].outcome \in PushOutcomes
  BY <1>1, WorkerHasRun DEF At, Typed, LocalsTyped, GoodLocal
<1>3. CASE ~OwnsPush(w)
  <2>1. Leave(w, "mail", {"failed_terminal"}) /\ UNCHANGED push
    BY <1>3 DEF FinishPush
  <2> QED BY <1>1, <2>1, LeaveIsQuiet DEF PushKind
<1>4. CASE OwnsPush(w)
  <2>1. push' = [push EXCEPT ![Run(w)] =
                    [@ EXCEPT !.status = d[w].outcome, !.token = None, !.late = FALSE]]
    BY <1>4 DEF FinishPush
  <2>2. /\ push'[Run(w)].status = d[w].outcome /\ push'[Run(w)].token = None
        /\ push'[Run(w)].attempts = push[Run(w)].attempts /\ OtherRowsStay(Run(w))
    BY <1>2, <2>1, FinishMoves DEF OtherRowsStay
  <2>3. PICK states : Leave(w, "mail", states)
    BY <1>4 DEF FinishPush
  <2>4. d'[w].pc = "mail" /\ d'[w].run = d[w].run /\ OthersStay(w)
    BY <1>1, <2>3, LeaveMoves, LabelsAreLabels DEF OthersStay
  <2>5. Finishes(w)
    BY <1>1, <1>4, <2>2, <2>4 DEF Finishes, At
  <2> QED BY <2>5 DEF PushKind
<1> QED BY <1>3, <1>4

\* A row is closed after two hours, at its limit, or without configuration.
LEMMA FenceKind ==
    ASSUME Typed, NEW w \in Deliverers, FencePush(w) \/ PushNotConfigured(w) PROVE PushKind
<1> USE PlainLabels
<1>1. d[w].pc \in {"fencePush", "pushOff"} /\ UNCHANGED pushed
  BY DEF FencePush, PushNotConfigured, At
<1>2. d[w].pc \in InPush \cup InMail /\ d[w].pc # "idle" /\ d[w].pc \notin Pushing
  BY <1>1 DEF Pushing
<1>3. PICK states : Leave(w, "mail", states)
  BY DEF FencePush, PushNotConfigured
<1>4. AllQuiet
  BY <1>2, <1>3, LeaveIsQuiet
<1>5. Run(w) \in Runs /\ (At(w, "fencePush") => d[w].prior \in {"processing", "failed_retryable"})
  BY <1>2, WorkerHasRun DEF At, Typed, LocalsTyped, GoodLocal
<1>6. \/ UNCHANGED push
      \/ /\ Fence(Run(w))
         /\ push[Run(w)].status \in {"processing", "failed_retryable"}
         /\ push[Run(w)].status = "processing" => push[Run(w)].late
  BY <1>5 DEF FencePush, PushNotConfigured
<1>7. CASE UNCHANGED push
  BY <1>1, <1>4, <1>7 DEF PushKind
<1>8. CASE Fence(Run(w)) /\ push[Run(w)].status \in {"processing", "failed_retryable"}
           /\ (push[Run(w)].status = "processing" => push[Run(w)].late)
  <2>1. /\ push'[Run(w)].status = "failed_terminal" /\ push'[Run(w)].token = None
        /\ push'[Run(w)].attempts = push[Run(w)].attempts /\ OtherRowsStay(Run(w))
    BY <1>5, <1>8, FenceMoves DEF OtherRowsStay
  <2>2. Fences(Run(w))
    BY <1>1, <1>4, <1>8, <2>1 DEF Fences
  <2> QED BY <1>5, <2>2 DEF PushKind
<1> QED BY <1>6, <1>7, <1>8

\* The other steps on a run or on an email leave web push alone.
LEMMA ReadsAreQuiet ==
    ASSUME Typed, NEW w \in Deliverers, Invoke(w) \/ ReadPush(w) \/ ReadPushPrefs(w) \/ DenyPush(w)
    PROVE  UNCHANGED <<push, pushed>> /\ AllQuiet
<1> USE PlainLabels
<1>1. GoodLocal(d[w])
  BY DEF Typed, LocalsTyped
<1>2. UNCHANGED <<push, pushed>>
  BY DEF Invoke, ReadPush, ReadPushPrefs, DenyPush, webpush
<1>3. CASE Invoke(w)
  <2> PICK r \in Runs : Becomes(w, [Idle EXCEPT !.pc = "push", !.run = r])
    BY <1>3 DEF Invoke
  <2>1. [Idle EXCEPT !.pc = "push", !.run = r].pc = "push"
    BY DEF Idle
  <2>2. d[w].pc = "idle"
    BY <1>3 DEF Invoke, At
  <2> QED BY <1>2, <2>1, <2>2, BecomeIsQuiet DEF Pushing
<1>4. CASE ReadPush(w)
  <2>1. d[w].pc = "push" /\ d[w].pc \notin Pushing \cup {"crashed"} /\ d[w].pc \in InPush \cup InMail
    BY <1>4 DEF ReadPush, At, Pushing
  <2>2. ASSUME NEW label \in {"fencePush", "pushPrefs"},
               Becomes(w, [d[w] EXCEPT !.pc = label, !.prior = push[Run(w)].status])
        PROVE  AllQuiet
    <3> DEFINE local == [d[w] EXCEPT !.pc = label, !.prior = push[Run(w)].status]
    <3>1. local.pc = label /\ local.run = d[w].run /\ local.failures = d[w].failures
      BY <1>1 DEF GoodLocal, Locals
    <3>2. Becomes(w, local)
      BY <2>2
    <3> HIDE DEF local
    <3>3. label \notin Pushing /\ label # "idle"
      BY DEF Pushing
    <3> QED BY <2>1, <3>1, <3>2, <3>3, BecomeIsQuiet
  <2>3. ASSUME Leave(w, "mail", {push[Run(w)].status}) PROVE AllQuiet
    BY <2>1, <2>3, LeaveIsQuiet
  <2> QED BY <1>2, <1>4, <2>2, <2>3 DEF ReadPush
<1>5. CASE ReadPushPrefs(w)
  <2>1. d[w].pc \in InPush \cup InMail /\ d[w].pc \notin Pushing
    BY <1>5 DEF ReadPushPrefs, At, Pushing
  <2> QED BY <1>2, <1>5, <2>1, LeaveIsQuiet, GotoIsQuiet DEF ReadPushPrefs
<1>6. CASE DenyPush(w)
  <2>1. d[w].pc \in InPush \cup InMail /\ d[w].pc \notin Pushing
    BY <1>6 DEF DenyPush, At, Pushing
  <2> QED BY <1>2, <1>6, <2>1, LeaveIsQuiet DEF DenyPush
<1> QED BY <1>3, <1>4, <1>5, <1>6

LEMMA MailIsQuiet ==
    ASSUME Typed, NEW w \in Deliverers,
           ReadMailPrefs(w) \/ ClaimMail(w) \/ FenceMail(w) \/ ReadMail(w) \/ SendMail(w) \/ FinishMail(w)
    PROVE  UNCHANGED <<push, pushed>> /\ AllQuiet
<1> USE PlainLabels
<1>1. GoodLocal(d[w])
  BY DEF Typed, LocalsTyped
<1>2. UNCHANGED <<push, pushed>>
  BY DEF ReadMailPrefs, ClaimMail, FenceMail, ReadMail, SendMail, FinishMail, webpush
<1>3. d[w].pc \in {"mail", "claimMail", "fenceMail", "readMail", "sendMail", "finishMail"}
  BY DEF ReadMailPrefs, ClaimMail, FenceMail, ReadMail, SendMail, FinishMail, At
<1>4. d[w].pc \in InPush \cup InMail /\ d[w].pc \notin Pushing \cup {"crashed"}
  BY <1>3 DEF Pushing
<1>5. ASSUME NEW label \in Plain \ Pushing, Goto(w, label) PROVE AllQuiet
  BY <1>4, <1>5, GotoIsQuiet
<1>6. ASSUME NEW states, Leave(w, "done", states) PROVE AllQuiet
  BY <1>4, <1>6, LeaveIsQuiet
<1>7. ASSUME NEW outcome, Becomes(w, [d[w] EXCEPT !.pc = "finishMail", !.outcome = outcome]) PROVE AllQuiet
  <2> DEFINE local == [d[w] EXCEPT !.pc = "finishMail", !.outcome = outcome]
  <2>1. local.pc = "finishMail" /\ local.run = d[w].run /\ local.failures = d[w].failures
    BY <1>1 DEF GoodLocal, Locals
  <2>2. Becomes(w, local)
    BY <1>7
  <2> HIDE DEF local
  <2> QED BY <1>4, <2>1, <2>2, BecomeIsQuiet DEF Pushing
<1>8. ASSUME Becomes(w, [d[w] EXCEPT !.pc = "claimMail", !.day = today]) PROVE AllQuiet
  <2> DEFINE local == [d[w] EXCEPT !.pc = "claimMail", !.day = today]
  <2>1. local.pc = "claimMail" /\ local.run = d[w].run /\ local.failures = d[w].failures
    BY <1>1 DEF GoodLocal, Locals
  <2>2. Becomes(w, local)
    BY <1>8
  <2> HIDE DEF local
  <2> QED BY <1>4, <2>1, <2>2, BecomeIsQuiet DEF Pushing
<1>9. CASE ReadMailPrefs(w)
  BY <1>2, <1>6, <1>8, <1>9 DEF ReadMailPrefs
<1>10. CASE ClaimMail(w)
  BY <1>2, <1>5, <1>6, <1>10 DEF ClaimMail
<1>11. CASE FenceMail(w) \/ ReadMail(w)
  BY <1>2, <1>5, <1>6, <1>11 DEF FenceMail, ReadMail
<1>12. CASE SendMail(w)
  BY <1>2, <1>7, <1>12 DEF SendMail
<1>13. CASE FinishMail(w)
  BY <1>2, <1>6, <1>13 DEF FinishMail
<1> QED BY <1>9, <1>10, <1>11, <1>12, <1>13

LEMMA FaultsAreQuiet ==
    ASSUME Typed, NEW w \in Deliverers, Throw(w) \/ Crash(w)
    PROVE  UNCHANGED <<push, pushed>> /\ AllQuiet
<1> USE PlainLabels
<1>1. UNCHANGED <<push, pushed>>
  BY DEF Throw, Crash, webpush
<1>2. CASE Throw(w)
  BY <1>1, <1>2, LeaveIsQuiet DEF Throw
<1>3. CASE Crash(w)
  BY <1>1, <1>3, GotoIsQuiet DEF Crash
<1> QED BY <1>2, <1>3

\* Every step is one of these kinds.
LEMMA NextPushKind == ASSUME Typed, [Next]_vars PROVE PushKind
<1>1. CASE UNCHANGED vars
  BY <1>1, SameIsQuiet DEF vars, webpush, PushKind
<1>2. ASSUME NEW w \in Deliverers, Invoke(w) \/ Step(w) \/ Throw(w) \/ Crash(w) PROVE PushKind
  <2>1. CASE Invoke(w) \/ ReadPush(w) \/ ReadPushPrefs(w) \/ DenyPush(w)
    BY <2>1, ReadsAreQuiet DEF PushKind
  <2>2. CASE ReadMailPrefs(w) \/ ClaimMail(w) \/ FenceMail(w) \/ ReadMail(w) \/ SendMail(w) \/ FinishMail(w)
    BY <2>2, MailIsQuiet DEF PushKind
  <2>3. CASE Throw(w) \/ Crash(w)
    BY <2>3, FaultsAreQuiet DEF PushKind
  <2>4. CASE FencePush(w) \/ PushNotConfigured(w)
    BY <2>4, FenceKind
  <2>5. CASE ClaimPush(w)
    BY <2>5, ClaimPushKind
  <2>6. CASE SendPush(w)
    BY <2>6, SendPushKind
  <2>7. CASE FinishPush(w)
    BY <2>7, FinishPushKind
  <2> QED BY <1>2, <2>1, <2>2, <2>3, <2>4, <2>5, <2>6, <2>7 DEF Step
<1>3. ASSUME NEW r \in Runs, PushAges(r) PROVE PushKind
  <2>1. Ages(r)
    BY <1>3, AgeMoves DEF PushAges, Ages, OtherRowsStay
  <2> QED BY <2>1 DEF PushKind
<1>4. ASSUME NEW n \in Days, MailAges(n) PROVE PushKind
  BY <1>4, SameIsQuiet DEF MailAges, webpush, PushKind
<1>5. CASE Midnight \/ \E s \in Subs : Subscribe(s) \/ Unsubscribe(s)
  BY <1>5, SameIsQuiet DEF Midnight, Subscribe, Unsubscribe, webpush, PushKind
<1> QED BY <1>1, <1>2, <1>3, <1>4, <1>5 DEF Next

-----------------------------------------------------------------------------
(* The push is sent once *)

Sender(w) == d[w].pc \in Pushing
Unsent(r) == \A s \in Subs : pushed[r][s] = 0

\* While a row can be claimed nobody sends for its run and nobody has got its push; there is
\* one sender for a run; until it has sent nobody has got the push, and what it is about to
\* leave for another attempt has reached nobody.
ClaimableIsUnsent ==
    \A r \in Runs : push[r].status \in {"absent", "failed_retryable"} => Unsent(r)
RetryableIsBelow ==
    \A r \in Runs : push[r].status = "failed_retryable" => push[r].attempts < MaxPushAttempts
SenderHasClaim ==
    \A w \in Deliverers : Sender(w) => push[Run(w)].status \notin {"absent", "failed_retryable"}
OneSender ==
    \A v, w \in Deliverers : Sender(v) /\ Sender(w) /\ Run(v) = Run(w) => v = w
SenderIsFirst ==
    \A w \in Deliverers :
        /\ d[w].pc = "sendPush" => Unsent(Run(w))
        /\ d[w].pc = "finishPush" /\ d[w].outcome = "failed_retryable" =>
              Unsent(Run(w)) /\ push[Run(w)].attempts < MaxPushAttempts
PushedOnce == \A r \in Runs : \A s \in Subs : pushed[r][s] \in {0, 1}
PushInv ==
    /\ ClaimableIsUnsent /\ RetryableIsBelow
    /\ SenderHasClaim /\ OneSender /\ SenderIsFirst /\ PushedOnce

\* A sender has a run, now and after the step.
LEMMA SenderRuns ==
    ASSUME Typed, NEW w \in Deliverers
    PROVE  (Sender(w) => Run(w) \in Runs) /\ (~(Run(w) \in Runs) => ~Sender(w))
BY WorkerHasRun DEF Sender, Pushing

\* A quiet step makes no sender.
LEMMA QuietSenders ==
    ASSUME AllQuiet, NEW w \in Deliverers, Sender(w)'
    PROVE  d'[w] = d[w] /\ Sender(w)
BY DEF AllQuiet, Quiet, Sender

LEMMA QuietPush ==
    ASSUME Typed, PushInv, UNCHANGED <<push, pushed>>, AllQuiet PROVE PushInv'
<1>1. (ClaimableIsUnsent /\ RetryableIsBelow /\ PushedOnce)'
  BY DEF PushInv, ClaimableIsUnsent, RetryableIsBelow, PushedOnce, Unsent
<1>2. (SenderHasClaim /\ OneSender)'
  BY QuietSenders DEF PushInv, SenderHasClaim, OneSender, Run
<1>3. \A w \in Deliverers : d'[w].pc \in Pushing => d'[w] = d[w]
  BY DEF AllQuiet, Quiet
<1>4. SenderIsFirst'
  BY <1>3 DEF PushInv, SenderIsFirst, Run, Unsent, Pushing
<1> QED BY <1>1, <1>2, <1>4 DEF PushInv

LEMMA FencedPush ==
    ASSUME Typed, PushInv, NEW r \in Runs, Fences(r) PROVE PushInv'
<1> USE DEF Fences, OtherRowsStay
<1>1. (ClaimableIsUnsent /\ RetryableIsBelow /\ PushedOnce)'
  BY DEF PushInv, ClaimableIsUnsent, RetryableIsBelow, PushedOnce, Unsent
<1>2. \A w \in Deliverers : d'[w].pc \in Pushing => d'[w] = d[w] /\ Sender(w) /\ Run(w) \in Runs
  BY SenderRuns DEF AllQuiet, Quiet, Sender
<1>3. (SenderHasClaim /\ OneSender)'
  BY <1>2 DEF PushInv, SenderHasClaim, OneSender, Run, Sender
<1>4. SenderIsFirst'
  BY <1>2 DEF PushInv, SenderIsFirst, Run, Unsent, Pushing
<1> QED BY <1>1, <1>3, <1>4 DEF PushInv

LEMMA AgedPush ==
    ASSUME Typed, PushInv, NEW r \in Runs, Ages(r) PROVE PushInv'
<1> USE DEF Ages, OtherRowsStay
<1>1. (ClaimableIsUnsent /\ RetryableIsBelow /\ PushedOnce)'
  BY DEF PushInv, ClaimableIsUnsent, RetryableIsBelow, PushedOnce, Unsent
<1>2. \A w \in Deliverers : Sender(w) => Run(w) \in Runs
  BY SenderRuns
<1>3. (SenderHasClaim /\ OneSender)'
  BY <1>2 DEF PushInv, SenderHasClaim, OneSender, Run, Sender
<1>4. SenderIsFirst'
  BY <1>2 DEF PushInv, SenderIsFirst, Run, Unsent, Pushing, Sender
<1> QED BY <1>1, <1>3, <1>4 DEF PushInv

LEMMA ClaimedPush ==
    ASSUME Typed, PushInv, NEW w \in Deliverers, Run(w) \in Runs, Claims(w) PROVE PushInv'
<1> USE DEF Claims, OtherRowsStay, OthersStay
<1>0. push[Run(w)].status \in {"absent", "failed_retryable"}
  BY DEF PushClaimable
<1>1. (ClaimableIsUnsent /\ RetryableIsBelow /\ PushedOnce)'
  BY DEF PushInv, ClaimableIsUnsent, RetryableIsBelow, PushedOnce, Unsent
<1>2. \A v \in Deliverers : Sender(v) => Run(v) \in Runs /\ Run(v) # Run(w)
  BY <1>0, SenderRuns DEF PushInv, SenderHasClaim
<1>3. \A v \in Deliverers \ {w} : Sender(v)' => Sender(v) /\ d'[v] = d[v]
  BY DEF Sender
<1>4. d'[w].run = Run(w) /\ d'[w].pc # "finishPush"
  BY DEF Run
<1>5. SenderHasClaim'
  BY <1>2, <1>3, <1>4 DEF PushInv, SenderHasClaim, Run
<1>6. OneSender'
  BY <1>2, <1>3, <1>4 DEF PushInv, OneSender, Run
<1>7. Unsent(Run(w)) /\ UNCHANGED pushed
  BY <1>0 DEF PushInv, ClaimableIsUnsent
<1>8. ASSUME NEW v \in Deliverers \ {w}, d'[v].pc \in Pushing
      PROVE  /\ d'[v].pc = "sendPush" => Unsent(Run(v))'
             /\ d'[v].pc = "finishPush" /\ d'[v].outcome = "failed_retryable" =>
                   Unsent(Run(v))' /\ push'[Run(v)'].attempts < MaxPushAttempts
  BY <1>2, <1>3, <1>8 DEF PushInv, SenderIsFirst, Sender, Run, Unsent
<1>9. SenderIsFirst'
  BY <1>4, <1>7, <1>8 DEF SenderIsFirst, Run, Unsent, Pushing
<1> QED BY <1>1, <1>5, <1>6, <1>9 DEF PushInv

LEMMA SentPush ==
    ASSUME Typed, PushInv, NEW w \in Deliverers, Sends(w) PROVE PushInv'
<1> USE DEF Sends, OthersStay
<1>1. Sender(w) /\ Run(w) \in Runs /\ Unsent(Run(w)) /\ push[Run(w)].status \notin {"absent", "failed_retryable"}
  BY SenderRuns DEF Sender, Pushing, PushInv, SenderIsFirst, SenderHasClaim
<1>2. (ClaimableIsUnsent /\ RetryableIsBelow)'
  BY <1>1 DEF PushInv, ClaimableIsUnsent, RetryableIsBelow, Unsent
<1>3. \A s \in Subs : pushed'[Run(w)][s] \in {0, 1}
  BY <1>1 DEF Unsent
<1>4. PushedOnce'
  BY <1>3 DEF PushInv, PushedOnce
<1>5. \A v \in Deliverers : Sender(v)' => Sender(v) /\ Run(v)' = Run(v)
  BY <1>1 DEF Sender, Run
<1>6. (SenderHasClaim /\ OneSender)'
  BY <1>5 DEF PushInv, SenderHasClaim, OneSender
<1>7. ASSUME NEW v \in Deliverers \ {w}, d'[v].pc \in Pushing
      PROVE  /\ d'[v].pc = "sendPush" => Unsent(Run(v))'
             /\ d'[v].pc = "finishPush" /\ d'[v].outcome = "failed_retryable" =>
                   Unsent(Run(v))' /\ push'[Run(v)'].attempts < MaxPushAttempts
  <2>1. d'[v] = d[v] /\ Sender(v) /\ Run(v) \in Runs /\ Run(v) # Run(w)
    BY <1>1, <1>7, SenderRuns DEF PushInv, OneSender, Sender
  <2> QED BY <2>1 DEF PushInv, SenderIsFirst, Run, Unsent
<1>8. d'[w].outcome = "failed_retryable" =>
         Unsent(Run(w))' /\ push'[Run(w)'].attempts < MaxPushAttempts
  BY <1>1 DEF Unsent, Run
<1>9. SenderIsFirst'
  BY <1>7, <1>8 DEF SenderIsFirst, Pushing
<1> QED BY <1>2, <1>4, <1>6, <1>9 DEF PushInv

LEMMA FinishedPush ==
    ASSUME Typed, PushInv, NEW w \in Deliverers, Finishes(w) PROVE PushInv'
<1> USE DEF Finishes, OthersStay, OtherRowsStay
<1>1. Sender(w) /\ Run(w) \in Runs /\ d[w].outcome \in PushOutcomes
  BY SenderRuns DEF Sender, Pushing, Typed, LocalsTyped, GoodLocal
<1>2. d[w].outcome = "failed_retryable" => Unsent(Run(w)) /\ push[Run(w)].attempts < MaxPushAttempts
  BY DEF PushInv, SenderIsFirst
<1>3. (ClaimableIsUnsent /\ RetryableIsBelow /\ PushedOnce)'
  BY <1>1, <1>2 DEF PushInv, ClaimableIsUnsent, RetryableIsBelow, PushedOnce, Unsent, PushOutcomes
<1>4. ASSUME NEW v \in Deliverers, d'[v].pc \in Pushing
      PROVE  d'[v] = d[v] /\ Sender(v) /\ Run(v) \in Runs /\ Run(v) # Run(w)
  <2>1. v # w
    BY <1>4 DEF Pushing
  <2> QED BY <1>1, <1>4, <2>1, SenderRuns DEF PushInv, OneSender, Sender
<1>5. (SenderHasClaim /\ OneSender)'
  BY <1>4 DEF PushInv, SenderHasClaim, OneSender, Run, Sender
<1>6. SenderIsFirst'
  BY <1>4 DEF PushInv, SenderIsFirst, Run, Unsent, Pushing
<1> QED BY <1>3, <1>5, <1>6 DEF PushInv

LEMMA InitPush == ASSUME Init PROVE PushInv
BY DEF Init, PushInv, ClaimableIsUnsent, RetryableIsBelow, SenderHasClaim, OneSender, SenderIsFirst,
       PushedOnce, Unsent, Sender, Pushing, Idle

LEMMA NextPushInv == ASSUME Typed, PushInv, [Next]_vars PROVE PushInv'
<1>1. PushKind
  BY NextPushKind
<1>2. ASSUME NEW w \in Deliverers, Claims(w) PROVE Run(w) \in Runs
  <2>1. GoodLocal(d[w])' /\ d'[w].pc # "idle"
    BY <1>2, NextLocals DEF Claims, LocalsTyped
  <2> QED BY <1>2, <2>1 DEF GoodLocal, Claims, Run
<1> QED BY <1>1, <1>2, QuietPush, FencedPush, AgedPush, ClaimedPush, SentPush, FinishedPush DEF PushKind

LEMMA AlwaysPushInv == Spec => []PushInv
<1>1. Init => PushInv
  BY InitPush
<1>2. Typed /\ PushInv /\ [Next]_vars => PushInv'
  BY NextPushInv
<1> QED BY <1>1, <1>2, AlwaysTyped, PTL DEF Spec

\* A push that will be tried again has reached no subscription and has an attempt left.
THEOREM RetryableUnsent == Spec => []RetryableIsUnsent
<1>1. PushInv => RetryableIsUnsent
  BY DEF PushInv, ClaimableIsUnsent, RetryableIsBelow, RetryableIsUnsent, Unsent
<1> QED BY <1>1, AlwaysPushInv, PTL

-----------------------------------------------------------------------------
(* The email is sent once *)

Mailing == {"sendMail", "finishMail"}
Mailer(w) == d[w].pc \in Mailing
Day(w) == d[w].day

\* What the steps do to email: nothing, a claim, or a message.
MailQuiet ==
    /\ UNCHANGED mailed
    /\ \A n \in Days : mail[n].status # "absent" => mail'[n].status # "absent"
    /\ \A n \in Days : mail[n].status = "absent" => mail'[n].status = "absent"
    /\ \A w \in Deliverers : d'[w] = d[w] \/ d'[w].pc \notin Mailing
MailClaims(w) ==
    /\ Day(w) \in Days /\ mail[Day(w)].status = "absent" /\ mail'[Day(w)].status # "absent"
    /\ \A n \in Days \ {Day(w)} : mail'[n] = mail[n]
    /\ UNCHANGED mailed
    /\ d'[w].pc # "finishMail" /\ (d'[w].pc \in Mailing => d'[w].day = d[w].day)
    /\ OthersStay(w)
MailSends(w) ==
    /\ d[w].pc = "sendMail"
    /\ UNCHANGED mail
    /\ \A n \in Days \ {Day(w)} : mailed'[n] = mailed[n]
    /\ mailed'[Day(w)] \in {mailed[Day(w)], mailed[Day(w)] + 1}
    /\ d'[w].pc = "finishMail" /\ d'[w].day = d[w].day
    /\ d'[w].outcome = "sent" => mailed'[Day(w)] = mailed[Day(w)] + 1
    /\ OthersStay(w)
MailKind == MailQuiet \/ \E w \in Deliverers : MailClaims(w) \/ MailSends(w)

\* A claim takes the day of its deliverer.
LEMMA ClaimMailKind == ASSUME Typed, NEW w \in Deliverers, ClaimMail(w) PROVE MailKind
<1>1. d[w].pc = "claimMail" /\ Day(w) \in Days /\ UNCHANGED mailed
  BY WorkerHasRun DEF ClaimMail, At, Day
<1>2. CASE MailClaimable(Day(w))
           /\ mail' = [mail EXCEPT ![Day(w)] = [status |-> "processing", late |-> FALSE]]
           /\ (Goto(w, "sendMail") \/ Leave(w, "done", {"failed_terminal"}))
  <2>1. /\ mail'[Day(w)].status # "absent" /\ mail[Day(w)].status = "absent"
        /\ \A n \in Days \ {Day(w)} : mail'[n] = mail[n]
    BY <1>1, <1>2 DEF MailClaimable, Typed, MailTyped
  <2>2. CASE Goto(w, "sendMail")
    <3>1. d'[w].pc = "sendMail" /\ d'[w].day = d[w].day /\ OthersStay(w)
      BY <1>1, <2>2, GotoMoves, LabelsAreLabels DEF OthersStay
    <3> QED BY <1>1, <2>1, <3>1 DEF MailKind, MailClaims
  <2>3. CASE Leave(w, "done", {"failed_terminal"})
    <3>1. d'[w].pc = "done" /\ OthersStay(w)
      BY <1>1, <2>3, LeaveMoves, LabelsAreLabels DEF OthersStay
    <3> QED BY <1>1, <2>1, <3>1 DEF MailKind, MailClaims, Mailing
  <2> QED BY <1>2, <2>2, <2>3
<1>3. CASE Goto(w, "fenceMail") /\ UNCHANGED mail
  <2>1. d'[w].pc = "fenceMail" /\ OthersStay(w)
    BY <1>1, <1>3, GotoMoves, LabelsAreLabels DEF OthersStay
  <2> QED BY <1>1, <1>3, <2>1 DEF MailKind, MailQuiet, Mailing, OthersStay
<1> QED BY <1>2, <1>3 DEF ClaimMail, Day

LEMMA SendMailKind == ASSUME Typed, NEW w \in Deliverers, SendMail(w) PROVE MailKind
<1>1. At(w, "sendMail") /\ Day(w) \in Days /\ UNCHANGED mail
  BY WorkerHasRun DEF SendMail, At, Day
<1>2. PICK accepted \in {0, 1}, outcome \in {"sent", "failed_terminal"} :
          /\ outcome = "sent" => accepted = 1
          /\ mailed' = [mailed EXCEPT ![Day(w)] = @ + accepted]
          /\ Becomes(w, [d[w] EXCEPT !.pc = "finishMail", !.outcome = outcome])
  BY DEF SendMail, Day
<1>3. /\ mailed'[Day(w)] = mailed[Day(w)] + accepted
      /\ \A n \in Days \ {Day(w)} : mailed'[n] = mailed[n]
  BY <1>1, <1>2 DEF Typed, CountsTyped
<1>4. mailed[Day(w)] \in Nat
  BY <1>1 DEF Typed, CountsTyped
<1>5. d'[w].pc = "finishMail" /\ d'[w].outcome = outcome /\ d'[w].day = d[w].day /\ OthersStay(w)
  BY <1>1, <1>2, SendMailMoves DEF MailOutcomes, OthersStay
<1>6. MailSends(w)
  BY <1>1, <1>2, <1>3, <1>4, <1>5 DEF MailSends, At
<1> QED BY <1>6 DEF MailKind

\* A deliverer that leaves or goes elsewhere sends no email.
LEMMA LeaveIsMailQuiet ==
    ASSUME Typed, NEW w \in Deliverers, d[w].pc # "idle", NEW label \in Plain \ Mailing, NEW states,
           Leave(w, label, states) \/ Goto(w, label)
    PROVE  \A v \in Deliverers : d'[v] = d[v] \/ d'[v].pc \notin Mailing
<1>1. CASE Leave(w, label, states)
  <2>1. d'[w].pc = label /\ \A v \in Deliverers \ {w} : d'[v] = d[v]
    BY <1>1, LeaveMoves
  <2> QED BY <2>1
<1>2. CASE Goto(w, label)
  <2>1. d'[w].pc = label /\ \A v \in Deliverers \ {w} : d'[v] = d[v]
    BY <1>2, GotoMoves
  <2> QED BY <2>1
<1> QED BY <1>1, <1>2

LEMMA PlainIsNotMailing ==
    {"mail", "done", "crashed", "pushPrefs", "pushOff", "claimPush", "denyPush", "sendPush",
     "fenceMail", "readMail"} \subseteq Plain \ Mailing
BY LabelsAreLabels DEF Mailing

\* A row in processing, or one that is final, never becomes absent.
LEMMA MailRowKind ==
    ASSUME Typed, NEW w \in Deliverers, FenceMail(w) \/ FinishMail(w) \/ ReadMail(w) PROVE MailKind
<1>1. /\ d[w].pc \in {"fenceMail", "finishMail", "readMail"} /\ d[w].pc # "idle" /\ Day(w) \in Days
      /\ UNCHANGED mailed
  BY WorkerHasRun DEF FenceMail, FinishMail, ReadMail, At, Day, email
<1>2. \A v \in Deliverers : d'[v] = d[v] \/ d'[v].pc \notin Mailing
  BY <1>1, LeaveIsMailQuiet, PlainIsNotMailing DEF FenceMail, FinishMail, ReadMail
<1>3. d[w].pc = "finishMail" => d[w].outcome \in MailOutcomes
  BY DEF Typed, LocalsTyped, GoodLocal
<1>4. \/ UNCHANGED mail
      \/ \E status \in MailOutcomes :
            mail[Day(w)].status = "processing" /\ mail' = [mail EXCEPT ![Day(w)] = Closed(status)]
  <2>1. CASE FenceMail(w)
    <3>1. CASE mail[Day(w)].status = "processing" /\ mail[Day(w)].late
      BY <2>1, <3>1 DEF FenceMail, Day, MailOutcomes
    <3>2. CASE ~(mail[Day(w)].status = "processing" /\ mail[Day(w)].late)
      BY <1>1, <2>1, <3>2 DEF FenceMail, Day, Typed, MailTyped
    <3> QED BY <3>1, <3>2
  <2>2. CASE FinishMail(w)
    BY <1>3, <2>2 DEF FinishMail, OwnsMail, Day, At
  <2>3. CASE ReadMail(w)
    BY <2>3 DEF ReadMail, email
  <2> QED BY <2>1, <2>2, <2>3
<1>5. \A n \in Days : (mail'[n].status = "absent") = (mail[n].status = "absent")
  <2>1. \A status \in MailOutcomes : Closed(status).status # "absent"
    BY DEF Closed, MailOutcomes
  <2> QED BY <1>1, <1>4, <2>1 DEF Typed, MailTyped
<1> QED BY <1>1, <1>2, <1>5 DEF MailKind, MailQuiet

\* Web push, faults, clocks and the customer leave email alone.
LEMMA OtherMailKind ==
    ASSUME Typed, NEW w \in Deliverers,
           Invoke(w) \/ ReadPush(w) \/ FencePush(w) \/ ReadPushPrefs(w) \/ PushNotConfigured(w)
           \/ ClaimPush(w) \/ DenyPush(w) \/ SendPush(w) \/ FinishPush(w) \/ ReadMailPrefs(w)
           \/ Throw(w) \/ Crash(w)
    PROVE  MailKind
<1>1. UNCHANGED <<mail, mailed>>
  BY DEF Invoke, ReadPush, FencePush, ReadPushPrefs, PushNotConfigured, ClaimPush, DenyPush, SendPush,
         FinishPush, ReadMailPrefs, Throw, Crash, email
<1>2. GoodLocal(d[w])
  BY DEF Typed, LocalsTyped
<1>3. ASSUME NEW local, Becomes(w, local), local.pc \notin Mailing
      PROVE  \A v \in Deliverers : d'[v] = d[v] \/ d'[v].pc \notin Mailing
  BY <1>3 DEF Becomes, Typed, LocalsTyped
<1>4. \A v \in Deliverers : d'[v] = d[v] \/ d'[v].pc \notin Mailing
  <2>1. CASE Invoke(w)
    <3> PICK r \in Runs : Becomes(w, [Idle EXCEPT !.pc = "push", !.run = r])
      BY <2>1 DEF Invoke
    <3>1. [Idle EXCEPT !.pc = "push", !.run = r].pc \notin Mailing
      BY DEF Idle, Mailing
    <3> QED BY <1>3, <3>1
  <2>2. ASSUME NEW label \in {"fencePush", "pushPrefs"},
               Becomes(w, [d[w] EXCEPT !.pc = label, !.prior = push[Run(w)].status])
        PROVE  \A v \in Deliverers : d'[v] = d[v] \/ d'[v].pc \notin Mailing
    <3>1. [d[w] EXCEPT !.pc = label, !.prior = push[Run(w)].status].pc \notin Mailing
      BY <1>2 DEF GoodLocal, Locals, Mailing
    <3> QED BY <1>3, <2>2, <3>1
  <2>3. CASE ReadPush(w)
    BY <2>2, <2>3, LeaveIsMailQuiet, PlainIsNotMailing DEF ReadPush, At
  <2>4. CASE FencePush(w) \/ ReadPushPrefs(w) \/ PushNotConfigured(w) \/ DenyPush(w) \/ FinishPush(w)
    BY <2>4, LeaveIsMailQuiet, PlainIsNotMailing
    DEF FencePush, ReadPushPrefs, PushNotConfigured, DenyPush, FinishPush, At
  <2>5. CASE ClaimPush(w)
    BY <2>5, LeaveIsMailQuiet, PlainIsNotMailing DEF ClaimPush, At
  <2>6. ASSUME NEW outcome, Becomes(w, [d[w] EXCEPT !.pc = "finishPush", !.outcome = outcome])
        PROVE  \A v \in Deliverers : d'[v] = d[v] \/ d'[v].pc \notin Mailing
    <3>1. [d[w] EXCEPT !.pc = "finishPush", !.outcome = outcome].pc \notin Mailing
      BY <1>2 DEF GoodLocal, Locals, Mailing
    <3> QED BY <1>3, <2>6, <3>1
  <2>7. CASE SendPush(w)
    BY <2>6, <2>7, Zenon DEF SendPush
  <2>8. ASSUME Becomes(w, [d[w] EXCEPT !.pc = "claimMail", !.day = today])
        PROVE  \A v \in Deliverers : d'[v] = d[v] \/ d'[v].pc \notin Mailing
    <3>1. [d[w] EXCEPT !.pc = "claimMail", !.day = today].pc \notin Mailing
      BY <1>2 DEF GoodLocal, Locals, Mailing
    <3> QED BY <1>3, <2>8, <3>1
  <2>9. CASE ReadMailPrefs(w)
    BY <2>8, <2>9, LeaveIsMailQuiet, PlainIsNotMailing DEF ReadMailPrefs, At
  <2>10. CASE Throw(w) \/ Crash(w)
    <3>1. d[w].pc # "idle"
      BY <2>10, LabelsAreLabels DEF Throw, Crash
    <3> QED BY <2>10, <3>1, LeaveIsMailQuiet, PlainIsNotMailing DEF Throw, Crash
  <2> QED BY <2>1, <2>3, <2>4, <2>5, <2>7, <2>9, <2>10
<1> QED BY <1>1, <1>4 DEF MailKind, MailQuiet

\* Every step is one of these kinds.
LEMMA NextMailKind == ASSUME Typed, [Next]_vars PROVE MailKind
<1>1. CASE UNCHANGED vars
  BY <1>1 DEF vars, email, MailKind, MailQuiet
<1>2. ASSUME NEW w \in Deliverers, Invoke(w) \/ Step(w) \/ Throw(w) \/ Crash(w) PROVE MailKind
  BY <1>2, ClaimMailKind, SendMailKind, MailRowKind, OtherMailKind DEF Step
<1>3. ASSUME NEW r \in Runs, PushAges(r) PROVE MailKind
  BY <1>3 DEF PushAges, email, MailKind, MailQuiet
<1>4. ASSUME NEW n \in Days, MailAges(n) PROVE MailKind
  <2>1. \A m \in Days : mail'[m].status = mail[m].status
    BY <1>4 DEF MailAges, Typed, MailTyped
  <2> QED BY <1>4, <2>1 DEF MailAges, MailKind, MailQuiet
<1>5. CASE Midnight \/ \E s \in Subs : Subscribe(s) \/ Unsubscribe(s)
  BY <1>5 DEF Midnight, Subscribe, Unsubscribe, email, MailKind, MailQuiet
<1> QED BY <1>1, <1>2, <1>3, <1>4, <1>5 DEF Next

\* As for a push: the day is taken before its email is sent, by one deliverer.
MailInv ==
    /\ \A n \in Days : mail[n].status = "absent" => mailed[n] = 0
    /\ \A w \in Deliverers : Mailer(w) => mail[Day(w)].status # "absent"
    /\ \A v, w \in Deliverers : Mailer(v) /\ Mailer(w) /\ Day(v) = Day(w) => v = w
    /\ \A w \in Deliverers : d[w].pc = "sendMail" => mailed[Day(w)] = 0
    /\ \A n \in Days : mailed[n] \in {0, 1}

LEMMA NextMailInv == ASSUME Typed, MailInv, [Next]_vars PROVE MailInv'
<1>1. MailKind
  BY NextMailKind
<1>2. \A w \in Deliverers : d[w].pc # "idle" => Day(w) \in Days
  BY WorkerHasRun DEF Day
<1>3. CASE MailQuiet
  <2>1. \A w \in Deliverers : d'[w].pc \in Mailing => d'[w] = d[w]
    BY <1>3 DEF MailQuiet
  <2> QED BY <1>2, <1>3, <2>1 DEF MailQuiet, MailInv, Mailer, Day, Mailing
<1>4. ASSUME NEW w \in Deliverers, MailClaims(w) PROVE MailInv'
  <2>1. \A v \in Deliverers \ {w} : d'[v] = d[v] /\ (Mailer(v) => Day(v) \in Days \ {Day(w)})
    BY <1>2, <1>4 DEF MailClaims, OthersStay, MailInv, Mailer, Mailing
  <2> QED BY <1>4, <2>1 DEF MailClaims, MailInv, Mailer, Day, Mailing
<1>5. ASSUME NEW w \in Deliverers, MailSends(w) PROVE MailInv'
  <2>1. Mailer(w) /\ Day(w) \in Days /\ mailed[Day(w)] = 0 /\ mail[Day(w)].status # "absent"
    BY <1>2, <1>5 DEF MailSends, MailInv, Mailer, Mailing
  <2>2. \A v \in Deliverers \ {w} : d'[v] = d[v] /\ (Mailer(v) => Day(v) \in Days \ {Day(w)})
    BY <1>2, <1>5, <2>1 DEF MailSends, OthersStay, MailInv, Mailer, Mailing
  <2> QED BY <1>5, <2>1, <2>2 DEF MailSends, MailInv, Mailer, Day, Mailing
<1> QED BY <1>1, <1>3, <1>4, <1>5 DEF MailKind

LEMMA AlwaysMailInv == Spec => []MailInv
<1>1. Init => MailInv
  BY DEF Init, MailInv, Mailer, Mailing, Idle
<1>2. Typed /\ MailInv /\ [Next]_vars => MailInv'
  BY NextMailInv
<1> QED BY <1>1, <1>2, AlwaysTyped, PTL DEF Spec

\* No subscription gets the push of a run twice, and no day gets two emails.
THEOREM OneCopyAtMost == Spec => []OneCopyPerChannel
<1>1. PushInv /\ MailInv => OneCopyPerChannel
  BY DEF PushInv, PushedOnce, MailInv, OneCopyPerChannel
<1> QED BY <1>1, AlwaysPushInv, AlwaysMailInv, PTL

-----------------------------------------------------------------------------
(* Reports and final rows *)

\* A deliverer whose name is in a row has that run, and has failed or not gone beyond it.
TokensAreHeld ==
    \A r \in Runs, w \in Deliverers : push[r].token = w => Run(w) = r /\ Holding(d[w])

LEMMA NextTokens == ASSUME Typed, TokensAreHeld, [Next]_vars PROVE TokensAreHeld'
<1>1. PushKind
  BY NextPushKind
<1>2. CASE UNCHANGED <<push, pushed>> /\ AllQuiet
  BY <1>2 DEF TokensAreHeld, AllQuiet, Quiet, Run
<1>3. ASSUME NEW r \in Runs, Fences(r) PROVE TokensAreHeld'
  BY <1>3, NoneIsNothing DEF Fences, OtherRowsStay, TokensAreHeld, AllQuiet, Quiet, Run
<1>4. ASSUME NEW r \in Runs, Ages(r) PROVE TokensAreHeld'
  BY <1>4 DEF Ages, OtherRowsStay, TokensAreHeld, Run
<1>5. ASSUME NEW w \in Deliverers, Claims(w) PROVE TokensAreHeld'
  BY <1>5 DEF Claims, OtherRowsStay, OthersStay, TokensAreHeld, Run
<1>6. ASSUME NEW w \in Deliverers, Sends(w) PROVE TokensAreHeld'
  BY <1>6 DEF Sends, OthersStay, TokensAreHeld, Run, Holding, Pushing
<1>7. ASSUME NEW w \in Deliverers, Finishes(w) PROVE TokensAreHeld'
  BY <1>7, NoneIsNothing DEF Finishes, OtherRowsStay, OthersStay, TokensAreHeld, Run
<1> QED BY <1>1, <1>2, <1>3, <1>4, <1>5, <1>6, <1>7 DEF PushKind

\* A delivery that reports no failure leaves no push row behind in its own name.
THEOREM OkReportsAreTrue == Spec => []OkReportIsTrue
<1>1. Init => TokensAreHeld
  BY NoneIsNothing DEF Init, TokensAreHeld
<1>2. Typed /\ TokensAreHeld /\ [Next]_vars => TokensAreHeld'
  BY NextTokens
<1>3. Typed /\ TokensAreHeld => OkReportIsTrue
  <2> SUFFICES ASSUME Typed, TokensAreHeld, NEW w \in Deliverers, At(w, "done"), d[w].failures = {}
               PROVE  push[Run(w)].token # w
    BY DEF OkReportIsTrue
  <2>1. Run(w) \in Runs
    BY WorkerHasRun DEF At
  <2> QED BY <2>1 DEF TokensAreHeld, Holding, At, Pushing
<1> QED BY <1>1, <1>2, <1>3, AlwaysTyped, PTL DEF Spec

\* A final push row is never written; one in processing is closed by its owner or after two
\* hours.
LEMMA PushRowsStay ==
    ASSUME Typed, [Next]_vars, NEW r \in Runs
    PROVE  /\ push[r].status \in {"sent", "failed_terminal"} => push'[r] = push[r]
           /\ push[r].status = "processing" /\ push'[r].status # "processing" =>
                 \/ \E w \in Deliverers : push[r].token = w /\ At(w, "finishPush") /\ d'[w] # d[w]
                 \/ push[r].late /\ push'[r].status = "failed_terminal"
<1>1. PushKind
  BY NextPushKind
<1>2. CASE UNCHANGED <<push, pushed>> /\ AllQuiet
  BY <1>2
<1>4. CASE \E q \in Runs : Fences(q)
  BY <1>4 DEF Fences, OtherRowsStay
<1>5. CASE \E q \in Runs : Ages(q)
  BY <1>5 DEF Ages, OtherRowsStay
<1>6. CASE \E w \in Deliverers : Claims(w)
  BY <1>6 DEF Claims, OtherRowsStay, PushClaimable
<1>7. CASE \E w \in Deliverers : Sends(w)
  BY <1>7 DEF Sends
<1>8. ASSUME NEW w \in Deliverers, Finishes(w)
      PROVE  /\ push[r].status \in {"sent", "failed_terminal"} => push'[r] = push[r]
             /\ push[r].status = "processing" /\ push'[r].status # "processing" =>
                   push[r].token = w /\ At(w, "finishPush") /\ d'[w] # d[w]
  <2>1. CASE r = Run(w)
    BY <1>8, <2>1 DEF Finishes, OwnsPush, At
  <2>2. CASE r # Run(w)
    BY <1>8, <2>2 DEF Finishes, OtherRowsStay
  <2> QED BY <2>1, <2>2
<1> QED BY <1>1, <1>2, <1>4, <1>5, <1>6, <1>7, <1>8 DEF PushKind

\* A final email row is never written.
LEMMA MailRowsStay ==
    ASSUME Typed, [Next]_vars, NEW n \in Days, mail[n].status \in {"sent", "failed_terminal"}
    PROVE  mail'[n] = mail[n]
<1>1. CASE UNCHANGED mail
  BY <1>1
<1>2. ASSUME NEW w \in Deliverers, ClaimMail(w) PROVE mail'[n] = mail[n]
  BY <1>2 DEF ClaimMail, MailClaimable, Typed, MailTyped
<1>3. ASSUME NEW w \in Deliverers, FenceMail(w) PROVE mail'[n] = mail[n]
  BY <1>3 DEF FenceMail, Typed, MailTyped
<1>4. ASSUME NEW w \in Deliverers, FinishMail(w) PROVE mail'[n] = mail[n]
  BY <1>4 DEF FinishMail, OwnsMail, Typed, MailTyped
<1>5. ASSUME NEW m \in Days, MailAges(m) PROVE mail'[n] = mail[n]
  BY <1>5 DEF MailAges, Typed, MailTyped
<1> QED BY <1>1, <1>2, <1>3, <1>4, <1>5, MailWriters

\* No late statement rewrites a final row.
THEOREM FinalRowsAreFinal == Spec => FinalRowsStay
<1>1. Typed /\ [Next]_vars =>
         [/\ \A r \in Runs :
                /\ push[r].status \in {"sent", "failed_terminal"} => push'[r] = push[r]
                /\ push[r].status = "processing" /\ push'[r].status # "processing" =>
                      \/ \E w \in Deliverers : push[r].token = w /\ At(w, "finishPush") /\ d'[w] # d[w]
                      \/ push[r].late /\ push'[r].status = "failed_terminal"
          /\ \A n \in Days : mail[n].status \in {"sent", "failed_terminal"} => mail'[n] = mail[n]]_vars
  BY PushRowsStay, MailRowsStay
<1> QED BY <1>1, AlwaysTyped, PTL DEF Spec, FinalRowsStay

-----------------------------------------------------------------------------
(* Both channels implement SendOnce *)

\* Who is about to record that a message was sent has sent it.
SentTruly ==
    \A w \in Deliverers :
        /\ d[w].pc = "finishPush" /\ d[w].outcome = "sent" => ~Unsent(Run(w))
        /\ d[w].pc = "finishMail" /\ d[w].outcome = "sent" => mailed[Day(w)] = 1

LEMMA NextPushedTruly ==
    ASSUME Typed, PushInv, SentTruly, [Next]_vars,
           NEW w \in Deliverers, d'[w].pc = "finishPush", d'[w].outcome = "sent"
    PROVE  ~Unsent(Run(w))'
<1>1. PushKind
  BY NextPushKind
<1>2. ASSUME d'[w] = d[w] PROVE Run(w) \in Runs /\ ~Unsent(Run(w)) /\ Run(w)' = Run(w)
  BY <1>2, WorkerHasRun DEF SentTruly, Run
<1>3. CASE UNCHANGED <<push, pushed>> /\ AllQuiet
  BY <1>2, <1>3 DEF AllQuiet, Quiet, Pushing, Unsent
<1>4. CASE \E r \in Runs : Fences(r) \/ Ages(r)
  BY <1>2, <1>4 DEF Fences, Ages, AllQuiet, Quiet, Pushing, Unsent
<1>5. CASE \E v \in Deliverers : Claims(v) \/ Finishes(v)
  BY <1>2, <1>5 DEF Claims, Finishes, OthersStay, Unsent
<1>6. ASSUME NEW v \in Deliverers, Sends(v) PROVE ~Unsent(Run(w))'
  <2>1. Run(v) \in Runs /\ Unsent(Run(v))
    BY <1>6, WorkerHasRun DEF Sends, PushInv, SenderIsFirst
  <2>2. CASE w = v
    <3>1. PICK s \in Subs : pushed'[Run(v)][s] = pushed[Run(v)][s] + 1
      BY <1>6, <2>2 DEF Sends
    <3>2. pushed'[Run(v)][s] # 0 /\ Run(w)' = Run(v)
      BY <1>6, <2>1, <2>2, <3>1 DEF Sends, Run, Unsent
    <3> QED BY <3>2 DEF Unsent
  <2>3. CASE w # v
    <3>1. d'[w] = d[w]
      BY <1>6, <2>3 DEF Sends, OthersStay
    <3>2. Run(w) # Run(v)
      BY <1>2, <2>1, <3>1
    <3> QED BY <1>2, <1>6, <3>1, <3>2 DEF Sends, Unsent
  <2> QED BY <2>2, <2>3
<1> QED BY <1>1, <1>3, <1>4, <1>5, <1>6 DEF PushKind

LEMMA NextMailedTruly ==
    ASSUME Typed, MailInv, SentTruly, [Next]_vars,
           NEW w \in Deliverers, d'[w].pc = "finishMail", d'[w].outcome = "sent"
    PROVE  (mailed[Day(w)] = 1)'
<1>1. MailKind
  BY NextMailKind
<1>2. ASSUME d'[w] = d[w] PROVE Day(w) \in Days /\ mailed[Day(w)] = 1 /\ Day(w)' = Day(w)
  BY <1>2, WorkerHasRun DEF SentTruly, Day
<1>3. CASE MailQuiet
  BY <1>2, <1>3 DEF MailQuiet, Mailing
<1>4. CASE \E v \in Deliverers : MailClaims(v)
  BY <1>2, <1>4 DEF MailClaims, OthersStay
<1>5. ASSUME NEW v \in Deliverers, MailSends(v) PROVE (mailed[Day(w)] = 1)'
  <2>1. Day(v) \in Days /\ mailed[Day(v)] = 0
    BY <1>5, WorkerHasRun DEF MailSends, MailInv, Day
  <2>2. CASE w = v
    BY <1>5, <2>1, <2>2 DEF MailSends, Day
  <2>3. CASE w # v
    BY <1>2, <1>5, <2>1, <2>3 DEF MailSends, OthersStay
  <2> QED BY <2>2, <2>3
<1> QED BY <1>1, <1>3, <1>4, <1>5 DEF MailKind

LEMMA AlwaysTruly == Spec => [](Typed /\ PushInv /\ MailInv /\ SentTruly)
<1>1. Init => SentTruly
  BY DEF Init, SentTruly, Idle
<1>2. Typed /\ PushInv /\ MailInv /\ SentTruly /\ [Next]_vars => SentTruly'
  BY NextPushedTruly, NextMailedTruly DEF SentTruly
<1> QED BY <1>1, <1>2, AlwaysTyped, AlwaysPushInv, AlwaysMailInv, PTL DEF Spec

PushVerdicts == [r \in Runs |-> Verdict(push[r])]
PushCopies == [r \in Runs |-> Copies(r)]
MailVerdicts == [n \in Days |-> Verdict(mail[n])]

\* What the subscriptions have of a run.
LEMMA CopiesAreCounted ==
    ASSUME PushInv, NEW r \in Runs
    PROVE  Copies(r) = IF Unsent(r) THEN 0 ELSE 1
<1>1. \A s \in Subs : pushed[r][s] <= 1
  BY DEF PushInv, PushedOnce
<1> QED BY <1>1 DEF Copies, Unsent

\* A row that is closed.
LEMMA ClosedPush ==
    ASSUME NEW r \in Runs, NEW v \in {"sent", "given_up"}, UNCHANGED pushed,
           OtherRowsStay(r), Verdict(push[r]) = "open", Verdict(push'[r]) = v,
           v = "sent" => Copies(r) = 1
    PROVE  Pushes!Next
<1>1. PushVerdicts' = [q \in Runs |-> IF q \in {r} THEN v ELSE PushVerdicts[q]]
  BY DEF PushVerdicts, OtherRowsStay
<1>2. PushCopies' = PushCopies
  BY DEF PushCopies, Copies
<1>3. \A q \in {r} : PushVerdicts[q] = "open" /\ (v = "sent" => PushCopies[q] = 1)
  BY DEF PushVerdicts, PushCopies
<1>4. Pushes!Close({r}, v)
  BY <1>1, <1>2, <1>3 DEF Pushes!Close, PushVerdicts, PushCopies
<1> QED BY <1>4 DEF Pushes!Next

LEMMA PushStep ==
    ASSUME Typed, PushInv, PushInv', SentTruly, [Next]_vars
    PROVE  [Pushes!Next]_<<PushVerdicts, PushCopies>>
<1>1. PushKind
  BY NextPushKind
<1>2. ASSUME UNCHANGED pushed, \A r \in Runs : Verdict(push'[r]) = Verdict(push[r])
      PROVE  UNCHANGED <<PushVerdicts, PushCopies>>
  BY <1>2 DEF PushVerdicts, PushCopies, Copies
<1>3. CASE UNCHANGED <<push, pushed>>
  BY <1>2, <1>3
<1>4. ASSUME NEW r \in Runs, Fences(r) PROVE Pushes!Next
  <2>1. Verdict(push[r]) = "open" /\ Verdict(push'[r]) = "given_up"
    BY <1>4 DEF Fences, Verdict
  <2> QED BY <1>4, <2>1, ClosedPush DEF Fences
<1>5. ASSUME NEW r \in Runs, Ages(r) PROVE UNCHANGED <<PushVerdicts, PushCopies>>
  BY <1>2, <1>5 DEF Ages, OtherRowsStay, Verdict
<1>6. ASSUME NEW w \in Deliverers, Claims(w) PROVE UNCHANGED <<PushVerdicts, PushCopies>>
  BY <1>2, <1>6 DEF Claims, OtherRowsStay, Verdict, PushClaimable
<1>7. ASSUME NEW w \in Deliverers, Sends(w) PROVE [Pushes!Next]_<<PushVerdicts, PushCopies>>
  <2>0. Run(w) \in Runs /\ Unsent(Run(w))
    BY <1>7, WorkerHasRun DEF Sends, PushInv, SenderIsFirst
  <2>1. PICK r \in Runs : r = Run(w) /\ Unsent(r)
    BY <2>0
  <2>2. UNCHANGED push /\ \A q \in Runs \ {r} : pushed'[q] = pushed[q]
    BY <1>7, <2>1 DEF Sends
  <2>3. /\ UNCHANGED PushVerdicts
        /\ \A q \in Runs \ {r} : Copies(q)' = Copies(q)
        /\ Copies(r) = 0
    BY <2>1, <2>2, CopiesAreCounted DEF PushVerdicts, Copies
  <2>4. CASE Copies(r)' = 0
    <3>1. UNCHANGED PushCopies
      BY <2>3, <2>4 DEF PushCopies
    <3> QED BY <2>3, <3>1
  <2>5. CASE Copies(r)' = 1
    <3>1. PushCopies' = [PushCopies EXCEPT ![r] = 1] /\ PushCopies[r] = 0
      BY <2>1, <2>3, <2>5 DEF PushCopies
    <3>2. Pushes!Accept(r)
      BY <2>3, <3>1 DEF Pushes!Accept, PushVerdicts, PushCopies
    <3> QED BY <2>1, <3>2 DEF Pushes!Next
  <2>6. Copies(r)' \in {0, 1}
    <3>1. \A s \in Subs : pushed'[r][s] <= 1
      BY <2>1 DEF PushInv, PushedOnce
    <3> QED BY <3>1 DEF Copies
  <2> QED BY <2>4, <2>5, <2>6
<1>8. ASSUME NEW w \in Deliverers, Finishes(w) PROVE [Pushes!Next]_<<PushVerdicts, PushCopies>>
  <2>1. Run(w) \in Runs /\ d[w].outcome \in PushOutcomes
    BY <1>8, WorkerHasRun DEF Finishes, Typed, LocalsTyped, GoodLocal
  <2>2. /\ push[Run(w)].status = "processing" /\ push'[Run(w)].status = d[w].outcome
        /\ OtherRowsStay(Run(w)) /\ UNCHANGED pushed
    BY <1>8 DEF Finishes, OwnsPush
  <2>3. CASE d[w].outcome = "failed_retryable"
    BY <1>2, <2>2, <2>3 DEF OtherRowsStay, Verdict
  <2>4. CASE d[w].outcome = "failed_terminal"
    <3>1. Verdict(push[Run(w)]) = "open" /\ Verdict(push'[Run(w)]) = "given_up"
      BY <2>2, <2>4 DEF Verdict
    <3> QED BY <2>1, <2>2, <3>1, ClosedPush
  <2>5. CASE d[w].outcome = "sent"
    <3>1. Verdict(push[Run(w)]) = "open" /\ Verdict(push'[Run(w)]) = "sent"
      BY <2>2, <2>5 DEF Verdict
    <3>2. Copies(Run(w)) = 1
      BY <1>8, <2>1, <2>5, CopiesAreCounted DEF SentTruly, Finishes
    <3> QED BY <2>1, <2>2, <3>1, <3>2, ClosedPush
  <2> QED BY <2>1, <2>3, <2>4, <2>5 DEF PushOutcomes
<1> QED BY <1>1, <1>3, <1>4, <1>5, <1>6, <1>7, <1>8 DEF PushKind

LEMMA ClosedMail ==
    ASSUME Typed, NEW n \in Days, NEW status \in MailOutcomes, UNCHANGED mailed,
           mail[n].status = "processing", mail' = [mail EXCEPT ![n] = Closed(status)],
           status = "sent" => mailed[n] = 1
    PROVE  Mails!Next
<1> DEFINE v == IF status = "sent" THEN "sent" ELSE "given_up"
<1>1. mail'[n].status = status /\ \A m \in Days \ {n} : mail'[m] = mail[m]
  BY DEF Typed, MailTyped, Closed
<1>2. Verdict(mail[n]) = "open" /\ Verdict(mail'[n]) = v
  BY <1>1 DEF Verdict, MailOutcomes
<1> HIDE DEF v
<1>3. MailVerdicts' = [m \in Days |-> IF m \in {n} THEN v ELSE MailVerdicts[m]]
  BY <1>1, <1>2 DEF MailVerdicts
<1>4. \A m \in {n} : MailVerdicts[m] = "open" /\ (v = "sent" => mailed[m] = 1)
  BY <1>2 DEF MailVerdicts, v
<1>5. Mails!Close({n}, v)
  BY <1>3, <1>4 DEF Mails!Close, MailVerdicts
<1>6. v \in {"sent", "given_up"}
  BY DEF v
<1> QED BY <1>5, <1>6 DEF Mails!Next

LEMMA MailStep ==
    ASSUME Typed, MailInv, SentTruly, [Next]_vars
    PROVE  [Mails!Next]_<<MailVerdicts, mailed>>
<1>1. MailKind
  BY NextMailKind
<1>2. ASSUME \A n \in Days : mail'[n].status = mail[n].status PROVE UNCHANGED MailVerdicts
  BY <1>2 DEF MailVerdicts, Verdict
<1>3. ASSUME NEW w \in Deliverers, MailSends(w) PROVE [Mails!Next]_<<MailVerdicts, mailed>>
  <2>1. Day(w) \in Days /\ mailed[Day(w)] = 0
    BY <1>3, WorkerHasRun DEF MailSends, MailInv, Day
  <2>2. UNCHANGED MailVerdicts
    BY <1>2, <1>3 DEF MailSends
  <2>3. mailed \in [Days -> Nat] /\ mailed' \in [Days -> Nat]
    BY NextCounts DEF Typed, CountsTyped
  <2>4. /\ \A n \in Days \ {Day(w)} : mailed'[n] = mailed[n]
        /\ mailed'[Day(w)] \in {0, 1}
    BY <1>3, <2>1 DEF MailSends
  <2>5. CASE mailed'[Day(w)] = 0
    BY <2>1, <2>2, <2>3, <2>4, <2>5
  <2>6. CASE mailed'[Day(w)] = 1
    <3>1. mailed' = [mailed EXCEPT ![Day(w)] = 1]
      BY <2>1, <2>3, <2>4, <2>6
    <3>2. Mails!Accept(Day(w))
      BY <2>1, <2>2, <3>1 DEF Mails!Accept, MailVerdicts
    <3> QED BY <2>1, <3>2 DEF Mails!Next
  <2> QED BY <2>4, <2>5, <2>6
<1>4. ASSUME UNCHANGED mailed PROVE [Mails!Next]_<<MailVerdicts, mailed>>
  <2>1. CASE UNCHANGED mail
    BY <1>2, <1>4, <2>1
  <2>2. ASSUME NEW w \in Deliverers, ClaimMail(w) PROVE UNCHANGED MailVerdicts
    BY <2>2 DEF ClaimMail, MailClaimable, Typed, MailTyped, MailVerdicts, Verdict
  <2>3. ASSUME NEW w \in Deliverers, FenceMail(w) PROVE [Mails!Next]_<<MailVerdicts, mailed>>
    <3>1. Day(w) \in Days
      BY <2>3, WorkerHasRun DEF FenceMail, At, Day
    <3>2. CASE mail[Day(w)].status = "processing" /\ mail[Day(w)].late
      <4>1. mail' = [mail EXCEPT ![Day(w)] = Closed("failed_terminal")]
        BY <2>3, <3>2 DEF FenceMail, Day
      <4> QED BY <1>4, <3>1, <3>2, <4>1, ClosedMail DEF MailOutcomes
    <3>3. CASE ~(mail[Day(w)].status = "processing" /\ mail[Day(w)].late)
      <4>1. mail' = mail
        BY <2>3, <3>1, <3>3 DEF FenceMail, Day, Typed, MailTyped
      <4> QED BY <2>1, <4>1
    <3> QED BY <3>2, <3>3
  <2>4. ASSUME NEW w \in Deliverers, FinishMail(w) PROVE [Mails!Next]_<<MailVerdicts, mailed>>
    <3>1. d[w].pc = "finishMail" /\ Day(w) \in Days /\ d[w].outcome \in MailOutcomes
      BY <2>4, WorkerHasRun DEF FinishMail, At, Day, Typed, LocalsTyped, GoodLocal
    <3>2. CASE OwnsMail(w)
      <4>1. mail[Day(w)].status = "processing" /\ mail' = [mail EXCEPT ![Day(w)] = Closed(d[w].outcome)]
        BY <2>4, <3>2 DEF FinishMail, OwnsMail, Day
      <4>2. d[w].outcome = "sent" => mailed[Day(w)] = 1
        BY <3>1 DEF SentTruly
      <4> QED BY <1>4, <3>1, <4>1, <4>2, ClosedMail
    <3>3. CASE ~OwnsMail(w)
      BY <2>1, <2>4, <3>3 DEF FinishMail
    <3> QED BY <3>2, <3>3
  <2>5. ASSUME NEW n \in Days, MailAges(n) PROVE UNCHANGED MailVerdicts
    BY <1>2, <2>5 DEF MailAges, Typed, MailTyped
  <2> QED BY <1>4, <2>1, <2>2, <2>3, <2>4, <2>5, MailWriters
<1> QED BY <1>1, <1>3, <1>4 DEF MailKind, MailQuiet, MailClaims

\* Web push and email implement SendOnce: one copy, true and final verdicts.
THEOREM ChannelsImplementSendOnce == Spec => ChannelsSendOnce
<1>1. Init => Pushes!Init /\ Mails!Init
  <2> SUFFICES ASSUME Init PROVE Pushes!Init /\ Mails!Init
    OBVIOUS
  <2>1. \A r \in Runs : Verdict(push[r]) = "open" /\ Copies(r) = 0
    BY DEF Init, Verdict, Copies
  <2>2. \A n \in Days : Verdict(mail[n]) = "open"
    BY DEF Init, Verdict
  <2> QED BY <2>1, <2>2 DEF Init, Pushes!Init, Mails!Init
<1>2. /\ Typed /\ PushInv /\ MailInv /\ SentTruly /\ [Next]_vars /\ PushInv'
      => [Pushes!Next]_<<PushVerdicts, PushCopies>> /\ [Mails!Next]_<<MailVerdicts, mailed>>
  BY PushStep, MailStep
<1> QED BY <1>1, <1>2, AlwaysTruly, PTL
    DEF Spec, ChannelsSendOnce, Pushes!Spec, Mails!Spec, PushVerdicts, PushCopies, MailVerdicts
=============================================================================
