----------------------- MODULE TelegramDelivery_proofs -----------------------
(***************************************************************************)
(* Proofs about TelegramDelivery, for every set of runs, deliverers and    *)
(* bots.                                                                   *)
(***************************************************************************)
EXTENDS TelegramDelivery, TLAPS

-----------------------------------------------------------------------------
(* Typing *)

\* A deliverer that was invoked has a run, and only one whose shared bot is posting, or
\* that crashed while it was, has posted in vain, as often as it may at most.
GoodLocal(local) ==
    /\ local \in Locals
    /\ local.pc # "idle" => local.run \in Runs
    /\ local.pc \notin {"legacy", "crashed"} => local.posts = 0
    /\ local.pc = "legacy" => local.posts < MaxPosts

RowsTyped == tg \in [Runs -> [status : Statuses, token : Deliverers \cup {None}]]
BotsTyped ==
    /\ bot \in [Bots -> BotStatuses]
    /\ job \in [Keys -> JobStatuses]
    /\ retrying \subseteq Keys /\ others \subseteq Runs
    /\ custom \in [Keys -> Nat]
LocalsTyped == d \in [Deliverers -> Locals] /\ \A w \in Deliverers : GoodLocal(d[w])
SharedTyped == sends \in [Runs -> Nat] /\ legacy \in [Runs -> Nat]
Typed == RowsTyped /\ SharedTyped /\ BotsTyped /\ LocalsTyped

\* The labels, those of a dispatch in particular, are labels.
LEMMA LabelsAreLabels ==
    /\ Caught \subseteq Labels /\ Ended \subseteq Labels
    /\ {"idle", "claim", "catch", "others"} \subseteq Labels
    /\ "idle" \notin Caught /\ "idle" \notin Ended
BY DEF Labels, Caught, Ended

\* A deliverer that has not posted yet has a count like any other.
LEMMA ZeroPosts == 0 \in 0..MaxPosts
BY MaxPostsAssumption

\* A deliverer that was invoked moves to a good local, and the others stay.
LEMMA Move ==
    ASSUME Typed, NEW w \in Deliverers, NEW local, GoodLocal(local), Becomes(w, local)
    PROVE  /\ LocalsTyped'
           /\ d'[w] = local
           /\ \A v \in Deliverers \ {w} : d'[v] = d[v]
BY DEF Typed, LocalsTyped, GoodLocal, Becomes

\* So it does when only its label changes.
LEMMA GotoMoves ==
    ASSUME Typed, NEW w \in Deliverers, d[w].pc # "idle",
           NEW label \in Labels \ {"idle"}, Goto(w, label),
           d[w].pc \notin {"legacy", "crashed"} \/ label = "crashed"
    PROVE  /\ LocalsTyped'
           /\ d'[w] = [d[w] EXCEPT !.pc = label]
           /\ d'[w].pc = label /\ d'[w].run = d[w].run /\ d'[w].got = d[w].got
           /\ d'[w].posts = d[w].posts
           /\ \A v \in Deliverers \ {w} : d'[v] = d[v]
<1> DEFINE local == [d[w] EXCEPT !.pc = label]
<1>1. GoodLocal(d[w])
  BY DEF Typed, LocalsTyped
<1>2. /\ local \in Locals /\ local.pc = label /\ local.run = d[w].run /\ local.got = d[w].got
      /\ local.posts = d[w].posts
  BY <1>1 DEF GoodLocal, Locals
<1>3. GoodLocal(local)
  BY <1>1, <1>2, MaxPostsAssumption DEF GoodLocal
<1>4. Becomes(w, local)
  BY DEF Goto
<1> HIDE DEF local
<1>5. /\ LocalsTyped' /\ d'[w] = local /\ \A v \in Deliverers \ {w} : d'[v] = d[v]
  BY <1>3, <1>4, Move
<1> QED BY <1>2, <1>5 DEF local

\* So it does when it leaves the part of the delivery it was in.
LEMMA LeaveMoves ==
    ASSUME Typed, NEW w \in Deliverers, d[w].pc # "idle",
           NEW label \in Labels \ {"idle"}, NEW states, Leave(w, label, states)
    PROVE  /\ LocalsTyped'
           /\ d'[w].pc = label /\ d'[w].run = d[w].run /\ d'[w].got = {}
           /\ d'[w].failures = d[w].failures \cup (states \cap FailureStates)
           /\ \A v \in Deliverers \ {w} : d'[v] = d[v]
<1> DEFINE failures == d[w].failures \cup (states \cap FailureStates)
           local == [Idle EXCEPT !.pc = label, !.run = Run(w), !.failures = failures]
<1>1. GoodLocal(d[w])
  BY DEF Typed, LocalsTyped
<1>2. failures \in SUBSET FailureStates /\ Run(w) \in Runs
  BY <1>1 DEF GoodLocal, Locals, Run
<1>3. Becomes(w, local)
  BY DEF Leave
<1> HIDE DEF failures
<1>4. /\ local \in Locals /\ local.pc = label /\ local.run = d[w].run
      /\ local.got = {} /\ local.failures = failures /\ local.posts = 0
  BY <1>2, ZeroPosts DEF Locals, Idle, Statuses, Run
<1>5. GoodLocal(local)
  BY <1>2, <1>4, MaxPostsAssumption DEF GoodLocal, Run
<1> HIDE DEF local
<1>6. LocalsTyped' /\ d'[w] = local /\ \A v \in Deliverers \ {w} : d'[v] = d[v]
  BY <1>3, <1>5, Move
<1> QED BY <1>4, <1>6 DEF failures

\* What can come of a job when it is dispatched.
LEMMA DispatchOutcomes ==
    ASSUME Typed, NEW k \in Keys, NEW attempt \in Dispatches(k)
    PROVE  /\ attempt[1] \in JobStatuses /\ attempt[2] \in {0, 1} /\ attempt[3] \in Results
           /\ attempt[1] # job[k] => attempt[1] \in {"sent", "failed", "sending", "dead_letter"}
           /\ attempt[2] = 1 => job[k] \in {"absent", "failed"}
           /\ attempt[1] = "failed" => job[k] \in {"absent", "failed"} /\ attempt[2] = 0
           /\ attempt[1] = "absent" => FALSE
           /\ attempt[1] = "unmatched" <=> job[k] = "unmatched"
           /\ attempt[1] = "sent" => job[k] = "sent" \/ attempt[2] = 1
           /\ attempt[3] \in {"sent", "skipped"} => attempt[1] \in {"sent", "unmatched"}
<1>1. job[k] \in JobStatuses
  BY DEF Typed, BotsTyped
<1>2. \A a \in Attempts :
          /\ a[1] \in {"sent", "failed", "dead_letter", "sending"}
          /\ a[2] \in {0, 1} /\ a[3] \in {"sent", "retryable", "terminal"}
          /\ a[1] = "failed" => a[2] = 0
          /\ a[1] = "sent" => a[2] = 1
          /\ a[3] = "sent" => a[1] = "sent"
  BY DEF Attempts
<1>3. CASE job[k] = "unmatched"
  BY <1>3 DEF Dispatches, JobStatuses, Results
<1>4. CASE job[k] = "sent"
  BY <1>4 DEF Dispatches, JobStatuses, Results
<1>5. CASE job[k] = "dead_letter"
  BY <1>5 DEF Dispatches, JobStatuses, Results
<1>6. CASE job[k] = "sending"
  BY <1>6 DEF Dispatches, JobStatuses, Results
<1>7. CASE job[k] = "failed"
  <2>1. attempt \in Attempts \/ attempt = <<"failed", 0, "retryable">>
    BY <1>7 DEF Dispatches
  <2> QED BY <1>2, <1>7, <2>1 DEF JobStatuses, Results
<1>8. CASE job[k] = "absent"
  <2>1. attempt \in Attempts
    BY <1>8 DEF Dispatches
  <2> QED BY <1>2, <1>8, <2>1 DEF JobStatuses, Results
<1> QED BY <1>1, <1>3, <1>4, <1>5, <1>6, <1>7, <1>8 DEF JobStatuses

\* And when the retry queue attempts it.
LEMMA AttemptOutcomes ==
    ASSUME NEW attempt \in Attempts
    PROVE  /\ attempt[1] \in {"sent", "failed", "dead_letter", "sending"}
           /\ attempt[1] \in JobStatuses /\ attempt[2] \in {0, 1}
           /\ attempt[1] = "failed" => attempt[2] = 0
           /\ attempt[1] = "sent" => attempt[2] = 1
BY DEF Attempts, JobStatuses

\* An attempt changes one job and, perhaps, the endpoint of its bot.
LEMMA AttemptMoves ==
    ASSUME Typed, NEW k \in Keys, NEW attempt, attempt[1] \in JobStatuses,
           attempt[2] \in {0, 1}, AttemptJob(k, attempt)
    PROVE  /\ bot' \in [Bots -> BotStatuses]
           /\ job' \in [Keys -> JobStatuses] /\ custom' \in [Keys -> Nat]
           /\ job'[k] = attempt[1] /\ custom'[k] = custom[k] + attempt[2]
           /\ \A j \in Keys \ {k} : job'[j] = job[j] /\ custom'[j] = custom[j]
<1>1. k[2] \in Bots
  BY DEF Keys
<1>2. \A status : \A b \in Marked(k[2], status) : b \in [Bots -> BotStatuses]
  BY <1>1 DEF Typed, BotsTyped, Marked, BotStatuses
<1>3. bot' \in [Bots -> BotStatuses]
  BY <1>2 DEF AttemptJob, Typed, BotsTyped
<1>4. custom[k] \in Nat /\ custom[k] + attempt[2] \in Nat
  BY DEF Typed, BotsTyped
<1> QED BY <1>3, <1>4 DEF AttemptJob, Typed, BotsTyped

\* What becomes of a deliverer whose shared bot posts, and of the copies.
Posted(w, local) ==
    /\ GoodLocal(local) /\ local.run = d[w].run /\ local.got = d[w].got
    /\ \/ local.pc = "finish" /\ local.outcome = "sent" /\ legacy'[Run(w)] = legacy[Run(w)] + 1
       \/ local.pc = "finish" /\ local.outcome = "failed_terminal"
       \/ local.pc = "legacy" /\ local.posts = d[w].posts + 1

\* A post ends the sending, or is followed by another one.
LEMMA PostMoves ==
    ASSUME Typed, NEW w \in Deliverers, SendLegacy(w)
    PROVE  \E local : Becomes(w, local) /\ Posted(w, local)
<1>1. GoodLocal(d[w]) /\ d[w].pc = "legacy" /\ d[w].posts \in 0..MaxPosts /\ d[w].posts < MaxPosts
  BY DEF Typed, LocalsTyped, SendLegacy, At, GoodLocal, Locals
<1>2. Run(w) \in Runs /\ d[w].posts + 1 \in 0..MaxPosts
  BY <1>1, MaxPostsAssumption DEF GoodLocal, Run
<1>3. "finish" \in Labels /\ {"sent", "failed_terminal"} \subseteq Statuses
  BY LabelsAreLabels DEF Caught, Statuses, FailureStates
<1>4. ASSUME Becomes(w, [d[w] EXCEPT !.pc = "finish", !.posts = 0, !.outcome = "sent"]),
             legacy' = [legacy EXCEPT ![Run(w)] = @ + 1]
      PROVE  \E local : Becomes(w, local) /\ Posted(w, local)
  <2> DEFINE local == [d[w] EXCEPT !.pc = "finish", !.posts = 0, !.outcome = "sent"]
  <2>1. /\ local \in Locals /\ local.pc = "finish" /\ local.posts = 0 /\ local.run = d[w].run
        /\ local.got = d[w].got /\ local.outcome = "sent"
    BY <1>1, <1>3, ZeroPosts DEF GoodLocal, Locals
  <2>2. legacy'[Run(w)] = legacy[Run(w)] + 1
    BY <1>2, <1>4 DEF Typed, SharedTyped
  <2>3. Becomes(w, local)
    BY <1>4
  <2> HIDE DEF local
  <2>4. Posted(w, local)
    BY <1>2, <2>1, <2>2 DEF Posted, GoodLocal, Run
  <2> QED BY <2>3, <2>4
<1>5. ASSUME Becomes(w, [d[w] EXCEPT !.pc = "finish", !.posts = 0, !.outcome = "failed_terminal"])
      PROVE  \E local : Becomes(w, local) /\ Posted(w, local)
  <2> DEFINE local == [d[w] EXCEPT !.pc = "finish", !.posts = 0, !.outcome = "failed_terminal"]
  <2>1. /\ local \in Locals /\ local.pc = "finish" /\ local.posts = 0 /\ local.run = d[w].run
        /\ local.got = d[w].got /\ local.outcome = "failed_terminal"
    BY <1>1, <1>3, ZeroPosts DEF GoodLocal, Locals
  <2>2. Becomes(w, local)
    BY <1>5
  <2> HIDE DEF local
  <2>3. Posted(w, local)
    BY <1>2, <2>1 DEF Posted, GoodLocal, Run
  <2> QED BY <2>2, <2>3
<1>6. ASSUME Becomes(w, [d[w] EXCEPT !.posts = d[w].posts + 1]), d[w].posts + 1 # MaxPosts
      PROVE  \E local : Becomes(w, local) /\ Posted(w, local)
  <2> DEFINE local == [d[w] EXCEPT !.posts = d[w].posts + 1]
  <2>1. /\ local \in Locals /\ local.pc = "legacy" /\ local.posts = d[w].posts + 1
        /\ local.run = d[w].run /\ local.got = d[w].got
    BY <1>1, <1>2 DEF GoodLocal, Locals
  <2>2. Becomes(w, local)
    BY <1>6
  <2> HIDE DEF local
  <2>3. Posted(w, local)
    BY <1>1, <1>2, <1>6, <2>1, MaxPostsAssumption DEF Posted, GoodLocal, Run
  <2> QED BY <2>2, <2>3
<1> QED BY <1>4, <1>5, <1>6 DEF SendLegacy

\* Every step keeps the locals typed.
LEMMA NextLocals == ASSUME Typed, [Next]_vars PROVE LocalsTyped'
<1>1. \A w \in Deliverers : GoodLocal(d[w])
  BY DEF Typed, LocalsTyped
<1>2. CASE UNCHANGED d
  BY <1>2 DEF Typed, LocalsTyped
<1>3. ASSUME NEW w \in Deliverers, Invoke(w) PROVE LocalsTyped'
  <2> PICK r \in Runs : Becomes(w, [Idle EXCEPT !.pc = "claim", !.run = r])
    BY <1>3 DEF Invoke
  <2> DEFINE local == [Idle EXCEPT !.pc = "claim", !.run = r]
  <2>1. local \in Locals /\ local.pc = "claim" /\ local.run = r /\ local.posts = 0
    BY LabelsAreLabels, ZeroPosts DEF Idle, Locals, Statuses
  <2>2. GoodLocal(local) /\ Becomes(w, local)
    BY <2>1 DEF GoodLocal
  <2> HIDE DEF local
  <2> QED BY <2>2, Move
<1>4. ASSUME NEW w \in Deliverers, Claim(w) PROVE LocalsTyped'
  BY <1>4, GotoMoves, LabelsAreLabels DEF Claim, At, Caught, Ended
<1>5. ASSUME NEW w \in Deliverers, Deny(w) PROVE LocalsTyped'
  BY <1>5, LeaveMoves, LabelsAreLabels DEF Deny, At
<1>6. ASSUME NEW w \in Deliverers, ChooseSender(w) PROVE LocalsTyped'
  <2>1. PICK label \in {"loadBots", "legacy"} : Goto(w, label)
    BY <1>6 DEF ChooseSender
  <2> QED BY <1>6, <2>1, GotoMoves, LabelsAreLabels DEF ChooseSender, At, Caught
<1>7. ASSUME NEW w \in Deliverers, LoadBots(w) PROVE LocalsTyped'
  <2> DEFINE local == [d[w] EXCEPT !.pc = "custom", !.todo = Active]
  <2>1. GoodLocal(local) /\ Becomes(w, local)
    BY <1>1, <1>7, LabelsAreLabels DEF LoadBots, At, GoodLocal, Locals, Active, Caught
  <2> HIDE DEF local
  <2> QED BY <2>1, Move
<1>8. ASSUME NEW w \in Deliverers, DispatchToBot(w) PROVE LocalsTyped'
  <2> PICK b \in d[w].todo : \E attempt \in Dispatches(<<Run(w), b>>) :
          Becomes(w, [d[w] EXCEPT !.todo = @ \ {b}, !.got = @ \cup {attempt[3]}])
    BY <1>8 DEF DispatchToBot
  <2> PICK attempt \in Dispatches(<<Run(w), b>>) :
          Becomes(w, [d[w] EXCEPT !.todo = @ \ {b}, !.got = @ \cup {attempt[3]}])
    OBVIOUS
  <2> DEFINE local == [d[w] EXCEPT !.todo = @ \ {b}, !.got = @ \cup {attempt[3]}]
  <2>1. <<Run(w), b>> \in Keys
    BY <1>1, <1>8 DEF DispatchToBot, At, GoodLocal, Locals, Run, Keys
  <2>2. attempt[3] \in Results
    BY <2>1, DispatchOutcomes
  <2>3. GoodLocal(local) /\ Becomes(w, local)
    BY <1>1, <2>2 DEF GoodLocal, Locals
  <2> HIDE DEF local
  <2> QED BY <2>3, Move
<1>9. ASSUME NEW w \in Deliverers, EndCustom(w) PROVE LocalsTyped'
  <2> DEFINE outcome == CustomOutcome(d[w].got)
             local == [d[w] EXCEPT !.pc = "finish", !.outcome = outcome]
  <2>1. outcome \in Statuses
    BY DEF CustomOutcome, Statuses, FailureStates
  <2>2. Becomes(w, local)
    BY <1>9 DEF EndCustom
  <2> HIDE DEF outcome
  <2>3. GoodLocal(local)
    BY <1>1, <1>9, <2>1, LabelsAreLabels DEF EndCustom, At, GoodLocal, Locals, Caught
  <2> HIDE DEF local
  <2> QED BY <2>2, <2>3, Move
<1>10. ASSUME NEW w \in Deliverers, RefuseLegacy(w) PROVE LocalsTyped'
  <2> PICK outcome \in {"skipped_not_configured", "failed_terminal"} :
          Becomes(w, [d[w] EXCEPT !.pc = "finish", !.outcome = outcome])
    BY <1>10 DEF RefuseLegacy
  <2> DEFINE local == [d[w] EXCEPT !.pc = "finish", !.outcome = outcome]
  <2>1. outcome \in Statuses /\ d[w].posts = 0
    BY <1>10 DEF Statuses, FailureStates, RefuseLegacy
  <2>2. GoodLocal(local) /\ Becomes(w, local)
    BY <1>1, <1>10, <2>1, LabelsAreLabels DEF RefuseLegacy, At, GoodLocal, Locals, Caught
  <2> HIDE DEF local
  <2> QED BY <2>2, Move
<1>16. ASSUME NEW w \in Deliverers, SendLegacy(w) PROVE LocalsTyped'
  BY <1>16, PostMoves, Move DEF Posted
<1>11. ASSUME NEW w \in Deliverers, Finish(w) PROVE LocalsTyped'
  BY <1>11, LeaveMoves, LabelsAreLabels DEF Finish, At
<1>12. ASSUME NEW w \in Deliverers, Catch(w) PROVE LocalsTyped'
  BY <1>12, LeaveMoves, GotoMoves, LabelsAreLabels DEF Catch, At, Ended
<1>13. ASSUME NEW w \in Deliverers, DispatchOthers(w) PROVE LocalsTyped'
  <2>1. PICK states : Leave(w, "done", states)
    BY <1>13 DEF DispatchOthers
  <2> QED BY <1>13, <2>1, LeaveMoves, LabelsAreLabels DEF DispatchOthers, At, Ended
<1>14. ASSUME NEW w \in Deliverers, Throw(w) PROVE LocalsTyped'
  <2>1. CASE At(w, "claim") /\ Goto(w, "threw")
    BY <2>1, GotoMoves, LabelsAreLabels DEF At, Ended
  <2>2. CASE d[w].pc \in Caught /\ Leave(w, "catch", {})
    BY <2>2, LeaveMoves, LabelsAreLabels
  <2>3. CASE At(w, "others") /\ Leave(w, "done", {"failed_terminal"})
    BY <2>3, LeaveMoves, LabelsAreLabels DEF At, Ended
  <2> QED BY <1>14, <2>1, <2>2, <2>3 DEF Throw
<1>15. ASSUME NEW w \in Deliverers, Crash(w) PROVE LocalsTyped'
  BY <1>15, GotoMoves, LabelsAreLabels DEF Crash, Ended
<1> QED
  BY <1>2, <1>3, <1>4, <1>5, <1>6, <1>7, <1>8, <1>9, <1>10, <1>11, <1>12, <1>13, <1>14, <1>15,
     <1>16
  DEF Next, Step, vars, RetryClaims, RetryAttempts, RetrySweeps, RetrySettlesOthers, Bind,
      Disconnect

\* What closes a row, or leaves it to its owner.
LEMMA CloseMoves ==
    ASSUME Typed, NEW w \in Deliverers, NEW status \in Statuses, CloseRow(w, status)
    PROVE  /\ RowsTyped'
           /\ \A r \in Runs : tg'[r] = tg[r] \/ r = Run(w)
           /\ OwnsRow(w) /\ Run(w) \in Runs => tg'[Run(w)] = [status |-> status, token |-> None]
           /\ ~OwnsRow(w) => tg' = tg
<1>1. CASE OwnsRow(w)
  BY <1>1 DEF CloseRow, Typed, RowsTyped
<1>2. CASE ~OwnsRow(w)
  BY <1>2 DEF CloseRow, Typed, RowsTyped
<1> QED BY <1>1, <1>2

\* The batch rows stay typed.
LEMMA NextRows == ASSUME Typed, [Next]_vars PROVE RowsTyped'
<1>1. CASE UNCHANGED tg
  BY <1>1 DEF Typed, RowsTyped
<1>2. ASSUME NEW w \in Deliverers, Claim(w) PROVE RowsTyped'
  <2>1. [status |-> "processing", token |-> w] \in [status : Statuses, token : Deliverers \cup {None}]
    BY DEF Statuses, FailureStates
  <2> QED BY <1>2, <2>1 DEF Claim, Typed, RowsTyped
<1>3. ASSUME NEW w \in Deliverers, Finish(w) PROVE RowsTyped'
  <2>1. d[w].outcome \in Statuses
    BY DEF Typed, LocalsTyped, GoodLocal, Locals
  <2> QED BY <1>3, <2>1, CloseMoves DEF Finish
<1>4. ASSUME NEW w \in Deliverers, Catch(w) PROVE RowsTyped'
  <2>1. "failed_terminal" \in Statuses
    BY DEF Statuses, FailureStates
  <2> QED BY <1>4, <2>1, CloseMoves DEF Catch
<1> QED
  BY <1>1, <1>2, <1>3, <1>4
  DEF Next, Step, vars, bots, Invoke, Deny, ChooseSender, LoadBots, DispatchToBot, EndCustom,
      RefuseLegacy, SendLegacy, DispatchOthers, Throw, Crash, RetryClaims, RetryAttempts,
      RetrySweeps, RetrySettlesOthers, Bind, Disconnect

\* One more attempt and one more copy of the shared bot keep the counts counts.
LEMMA NextLegacy == ASSUME Typed, [Next]_vars PROVE SharedTyped'
<1>1. CASE UNCHANGED <<sends, legacy>>
  BY <1>1 DEF Typed, SharedTyped
<1>2. ASSUME NEW w \in Deliverers, SendLegacy(w) PROVE SharedTyped'
  <2>1. Run(w) \in Runs
    BY <1>2 DEF SendLegacy, At, Typed, LocalsTyped, GoodLocal, Run
  <2>2. sends[Run(w)] + 1 \in Nat /\ legacy[Run(w)] + 0 \in Nat /\ legacy[Run(w)] + 1 \in Nat
    BY <2>1 DEF Typed, SharedTyped
  <2>3. sends' \in [Runs -> Nat]
    BY <1>2, <2>2 DEF SendLegacy, Typed, SharedTyped
  <2>4. legacy' \in [Runs -> Nat]
    BY <1>2, <2>2 DEF SendLegacy, Typed, SharedTyped
  <2> QED BY <2>3, <2>4 DEF SharedTyped
<1> QED
  BY <1>1, <1>2
  DEF Next, Step, vars, bots, Invoke, Claim, Deny, ChooseSender, LoadBots, DispatchToBot,
      EndCustom, RefuseLegacy, Finish, Catch, DispatchOthers, Throw, Crash, RetryClaims,
      RetryAttempts, RetrySweeps, RetrySettlesOthers, Bind, Disconnect

\* The bots and their jobs stay typed.
LEMMA NextBots == ASSUME Typed, [Next]_vars PROVE BotsTyped'
<1>1. CASE UNCHANGED bots
  BY <1>1 DEF bots, Typed, BotsTyped
<1>2. ASSUME NEW w \in Deliverers, DispatchToBot(w) PROVE BotsTyped'
  <2> PICK b \in d[w].todo : \E attempt \in Dispatches(<<Run(w), b>>) :
          AttemptJob(<<Run(w), b>>, attempt)
    BY <1>2 DEF DispatchToBot
  <2> PICK attempt \in Dispatches(<<Run(w), b>>) : AttemptJob(<<Run(w), b>>, attempt)
    OBVIOUS
  <2>1. <<Run(w), b>> \in Keys
    BY <1>2 DEF DispatchToBot, At, Typed, LocalsTyped, GoodLocal, Locals, Run, Keys
  <2>2. attempt[1] \in JobStatuses /\ attempt[2] \in {0, 1}
    BY <2>1, DispatchOutcomes
  <2> QED BY <1>2, <2>1, <2>2, AttemptMoves DEF DispatchToBot, Typed, BotsTyped
<1>3. ASSUME NEW w \in Deliverers, DispatchOthers(w) PROVE BotsTyped'
  <2>1. Run(w) \in Runs
    BY <1>3 DEF DispatchOthers, At, Typed, LocalsTyped, GoodLocal, Run
  <2> QED BY <1>3, <2>1 DEF DispatchOthers, Typed, BotsTyped
<1>4. ASSUME NEW k \in Keys, RetryClaims(k) PROVE BotsTyped'
  BY <1>4 DEF RetryClaims, Typed, BotsTyped, JobStatuses
<1>5. ASSUME NEW k \in Keys, RetryAttempts(k) PROVE BotsTyped'
  <2>1. CASE job[k] = "sending" /\ \E attempt \in Attempts : AttemptJob(k, attempt)
    BY <1>5, <2>1, AttemptOutcomes, AttemptMoves DEF RetryAttempts, Typed, BotsTyped
  <2>2. ASSUME NEW accepted \in {0, 1}, custom' = [custom EXCEPT ![k] = @ + accepted],
               UNCHANGED <<job, bot>>
        PROVE  BotsTyped'
    BY <1>5, <2>2 DEF RetryAttempts, Typed, BotsTyped
  <2> QED BY <1>5, <2>1, <2>2 DEF RetryAttempts
<1>6. ASSUME NEW k \in Keys, RetrySweeps(k) PROVE BotsTyped'
  BY <1>6 DEF RetrySweeps, Typed, BotsTyped, JobStatuses
<1>7. ASSUME NEW r \in Runs, RetrySettlesOthers(r) PROVE BotsTyped'
  BY <1>7 DEF RetrySettlesOthers, Typed, BotsTyped
<1>8. ASSUME NEW b \in Bots, Bind(b) \/ Disconnect(b) PROVE BotsTyped'
  BY <1>8 DEF Bind, Disconnect, Typed, BotsTyped, BotStatuses
<1> QED
  BY <1>1, <1>2, <1>3, <1>4, <1>5, <1>6, <1>7, <1>8
  DEF Next, Step, vars, Invoke, Claim, Deny, ChooseSender, LoadBots, EndCustom,
      RefuseLegacy, SendLegacy, Finish, Catch, Throw, Crash

\* The initial state is typed.
LEMMA InitTyped == Init => Typed
<1> SUFFICES ASSUME Init PROVE Typed
  OBVIOUS
<1>1. GoodLocal(Idle)
  <2>1. Idle \in Locals
    BY LabelsAreLabels, MaxPostsAssumption DEF Idle, Locals, Statuses
  <2> QED BY <2>1 DEF GoodLocal, Idle
<1>2. LocalsTyped
  BY <1>1 DEF Init, LocalsTyped, GoodLocal
<1>3. RowsTyped /\ SharedTyped
  BY DEF Init, RowsTyped, SharedTyped, Statuses
<1>4. BotsTyped
  BY DEF Init, BotsTyped, BotStatuses, JobStatuses
<1> QED BY <1>2, <1>3, <1>4 DEF Typed

\* The typing with the runs of the deliverers is an invariant.
LEMMA TypingHolds == Spec => []Typed
<1>1. Typed /\ [Next]_vars => Typed'
  BY NextLocals, NextRows, NextLegacy, NextBots DEF Typed
<1> QED BY InitTyped, <1>1, PTL DEF Spec

\* Type correctness: a batch row takes no status but those that the migration names.
THEOREM TypeCorrect == Spec => []TypeOK
<1>1. Typed => TypeOK
  BY DEF Typed, TypeOK, RowsTyped, SharedTyped, BotsTyped, LocalsTyped
<1> QED BY TypingHolds, <1>1, PTL

-----------------------------------------------------------------------------
(* One deliverer per run *)

\* A deliverer in the try holds the row of its run by its token.
Held == \A w \in Deliverers : d[w].pc \in Caught => OwnsRow(w)

\* What a deliverer closes its row with.
Closes(w, status) ==
    \/ d[w].pc = "finish" /\ status = d[w].outcome
    \/ d[w].pc = "catch" /\ status = "failed_terminal"

\* What a step does to the rows: it leaves them, claims one that was not held, or closes
\* one for its owner, who leaves the try.
LEMMA RowsMove ==
    ASSUME Typed, [Next]_vars
    PROVE  \/ UNCHANGED tg
           \/ \E w \in Deliverers : Claim(w)
           \/ \E w \in Deliverers, status \in Statuses :
                 /\ Closes(w, status) /\ d'[w].pc \notin Caught
                 /\ d'[w] # d[w] /\ OwnsRow(w) /\ CloseRow(w, status)
<1>1. ASSUME NEW w \in Deliverers, Finish(w)
      PROVE  \/ UNCHANGED tg
             \/ \E status \in Statuses :
                   /\ Closes(w, status) /\ d'[w].pc \notin Caught
                   /\ d'[w] # d[w] /\ OwnsRow(w) /\ CloseRow(w, status)
  <2>1. d[w].outcome \in Statuses /\ d[w].pc = "finish" /\ CloseRow(w, d[w].outcome)
    BY <1>1 DEF Finish, At, Typed, LocalsTyped, GoodLocal, Locals
  <2>2. d'[w].pc \in {"others", "catch"}
    BY <1>1, <2>1, LeaveMoves, LabelsAreLabels DEF Finish
  <2>3. d'[w].pc \notin Caught /\ d'[w] # d[w]
    BY <2>1, <2>2 DEF Caught
  <2> QED BY <2>1, <2>3, CloseMoves DEF Closes
<1>2. ASSUME NEW w \in Deliverers, Catch(w)
      PROVE  \/ UNCHANGED tg
             \/ \E status \in Statuses :
                   /\ Closes(w, status) /\ d'[w].pc \notin Caught
                   /\ d'[w] # d[w] /\ OwnsRow(w) /\ CloseRow(w, status)
  <2>1. "failed_terminal" \in Statuses /\ d[w].pc = "catch" /\ CloseRow(w, "failed_terminal")
    BY <1>2 DEF Catch, At, Statuses, FailureStates
  <2>2. d'[w].pc \in {"others", "threw"}
    BY <1>2, <2>1, LeaveMoves, GotoMoves, LabelsAreLabels DEF Catch, Ended
  <2>3. d'[w].pc \notin Caught /\ d'[w] # d[w]
    BY <2>1, <2>2 DEF Caught
  <2> QED BY <2>1, <2>3, CloseMoves DEF Closes
<1> QED
  BY <1>1, <1>2
  DEF Next, Step, vars, bots, Invoke, Deny, ChooseSender, LoadBots, DispatchToBot, EndCustom,
      RefuseLegacy, SendLegacy, DispatchOthers, Throw, Crash, RetryClaims, RetryAttempts,
      RetrySweeps, RetrySettlesOthers, Bind, Disconnect

\* Where the label of a deliverer in the try comes from: its claim, or the try itself.
LEMMA CaughtFrom ==
    ASSUME Typed, [Next]_vars, NEW w \in Deliverers, d'[w].pc \in Caught
    PROVE  d'[w].run = d[w].run /\ (Claim(w) \/ d[w].pc \in Caught)
<1>1. \A v \in Deliverers : GoodLocal(d[v])
  BY DEF Typed, LocalsTyped
<1>2. CASE d'[w] = d[w]
  BY <1>2
<1>3. ASSUME NEW v \in Deliverers, NEW local, Becomes(v, local)
      PROVE  \/ d'[w] = d[w]
             \/ w = v /\ d'[w] = local
  BY <1>3 DEF Becomes, Typed, LocalsTyped
<1>4. ASSUME NEW v \in Deliverers, NEW label, NEW states, Leave(v, label, states), label \notin Caught
      PROVE  d'[w] = d[w]
  <2> DEFINE local == [Idle EXCEPT !.pc = label, !.run = Run(v),
                                   !.failures = d[v].failures \cup (states \cap FailureStates)]
  <2>1. Becomes(v, local) /\ local.pc = label
    BY <1>4 DEF Leave, Idle
  <2> HIDE DEF local
  <2> QED BY <1>3, <1>4, <2>1
<1>5. ASSUME NEW v \in Deliverers, NEW label, Goto(v, label)
      PROVE  \/ d'[w] = d[w]
             \/ w = v /\ d'[w].pc = label /\ d'[w].run = d[w].run
  <2> DEFINE local == [d[v] EXCEPT !.pc = label]
  <2>1. Becomes(v, local) /\ local.pc = label /\ local.run = d[v].run
    BY <1>1, <1>5 DEF Goto, GoodLocal, Locals
  <2> HIDE DEF local
  <2> QED BY <1>3, <2>1
<1>6. ASSUME NEW v \in Deliverers, Step(v) PROVE d'[w] = d[w] \/ Claim(w) \/
          (w = v /\ d[w].pc \in Caught /\ d'[w].run = d[w].run)
  <2>1. CASE Claim(v)
    BY <1>5, <2>1 DEF Claim
  <2>2. CASE Deny(v)
    BY <1>4, <2>2 DEF Deny, Caught
  <2>3. CASE ChooseSender(v)
    BY <1>5, <2>3 DEF ChooseSender, At, Caught
  <2>4. CASE LoadBots(v)
    <3> DEFINE local == [d[v] EXCEPT !.pc = "custom", !.todo = Active]
    <3>1. Becomes(v, local) /\ local.run = d[v].run /\ d[v].pc \in Caught
      BY <1>1, <2>4 DEF LoadBots, At, Caught, GoodLocal, Locals
    <3> HIDE DEF local
    <3> QED BY <1>3, <3>1
  <2>5. CASE DispatchToBot(v)
    <3> PICK todo, got : Becomes(v, [d[v] EXCEPT !.todo = todo, !.got = got])
      BY <2>5 DEF DispatchToBot
    <3> DEFINE local == [d[v] EXCEPT !.todo = todo, !.got = got]
    <3>1. Becomes(v, local) /\ local.run = d[v].run /\ d[v].pc \in Caught
      BY <1>1, <2>5 DEF DispatchToBot, At, Caught, GoodLocal, Locals
    <3> HIDE DEF local
    <3> QED BY <1>3, <3>1
  <2>6. CASE EndCustom(v) \/ RefuseLegacy(v)
    <3> PICK outcome : Becomes(v, [d[v] EXCEPT !.pc = "finish", !.outcome = outcome])
      BY <2>6 DEF EndCustom, RefuseLegacy
    <3> DEFINE local == [d[v] EXCEPT !.pc = "finish", !.outcome = outcome]
    <3>1. Becomes(v, local) /\ local.run = d[v].run /\ d[v].pc \in Caught
      BY <1>1, <2>6 DEF EndCustom, RefuseLegacy, At, Caught, GoodLocal, Locals
    <3> HIDE DEF local
    <3> QED BY <1>3, <3>1
  <2>10. CASE SendLegacy(v)
    <3>1. PICK local : Becomes(v, local) /\ Posted(v, local)
      BY <2>10, PostMoves
    <3> QED BY <1>3, <2>10, <3>1 DEF Posted, SendLegacy, At, Caught
  <2>7. CASE Finish(v)
    BY <1>4, <2>7 DEF Finish, Caught
  <2>8. CASE Catch(v)
    BY <1>4, <1>5, <2>8 DEF Catch, Caught
  <2>9. CASE DispatchOthers(v)
    BY <1>4, <2>9 DEF DispatchOthers, Caught
  <2> QED BY <1>6, <2>1, <2>2, <2>3, <2>4, <2>5, <2>6, <2>7, <2>8, <2>9, <2>10 DEF Step
<1>7. ASSUME NEW v \in Deliverers, Invoke(v) PROVE d'[w] = d[w]
  <2> PICK r \in Runs : Becomes(v, [Idle EXCEPT !.pc = "claim", !.run = r])
    BY <1>7 DEF Invoke
  <2> DEFINE local == [Idle EXCEPT !.pc = "claim", !.run = r]
  <2>1. Becomes(v, local) /\ local.pc = "claim"
    BY DEF Idle
  <2> HIDE DEF local
  <2> QED BY <1>3, <2>1 DEF Caught
<1>8. ASSUME NEW v \in Deliverers, Throw(v) \/ Crash(v) PROVE d'[w] = d[w]
  BY <1>4, <1>5, <1>8 DEF Throw, Crash, Caught
<1>9. CASE UNCHANGED d
  BY <1>2, <1>9
<1>10. UNCHANGED d \/ \E v \in Deliverers : Invoke(v) \/ Step(v) \/ Throw(v) \/ Crash(v)
  BY DEF Next, vars, RetryClaims, RetryAttempts, RetrySweeps, RetrySettlesOthers, Bind, Disconnect
<1>11. d'[w] = d[w] \/ Claim(w) \/ (d[w].pc \in Caught /\ d'[w].run = d[w].run)
  BY <1>6, <1>7, <1>8, <1>9, <1>10
<1>12. ASSUME Claim(w) PROVE d'[w].run = d[w].run
  <2>1. Goto(w, "route") \/ Goto(w, "threw")
    BY <1>12 DEF Claim
  <2> QED BY <1>5, <2>1
<1> QED BY <1>2, <1>11, <1>12

\* The claim puts the deliverer's own token into the row.
LEMMA ClaimHolds ==
    ASSUME Typed, NEW w \in Deliverers, Claim(w)
    PROVE  /\ Run(w) \in Runs
           /\ tg'[Run(w)] = [status |-> "processing", token |-> w]
           /\ \A r \in Runs : r # Run(w) => tg'[r] = tg[r]
           /\ Claimable(Run(w))
BY DEF Claim, At, Typed, RowsTyped, LocalsTyped, GoodLocal, Run

\* Nobody takes the row from the one who holds it.
LEMMA HeldStays == ASSUME Typed, Held, [Next]_vars PROVE Held'
<1> SUFFICES ASSUME NEW w \in Deliverers, d'[w].pc \in Caught PROVE OwnsRow(w)'
  BY DEF Held
<1>1. d'[w].run = d[w].run /\ (Claim(w) \/ d[w].pc \in Caught)
  BY CaughtFrom
<1>2. CASE Claim(w)
  BY <1>1, <1>2, ClaimHolds DEF OwnsRow, Run
<1>3. CASE d[w].pc \in Caught
  <2>1. OwnsRow(w) /\ d[w].run \in Runs
    BY <1>3, LabelsAreLabels DEF Held, Typed, LocalsTyped, GoodLocal
  <2>2. CASE UNCHANGED tg
    BY <1>1, <2>1, <2>2 DEF OwnsRow, Run
  <2>3. ASSUME NEW v \in Deliverers, Claim(v) PROVE OwnsRow(w)'
    <3>1. tg[Run(w)].status = "processing"
      BY <2>1 DEF OwnsRow
    <3>2. tg[Run(v)].status # "processing" /\ Run(v) \in Runs
      BY <2>3, ClaimHolds DEF Claimable
    <3>3. Run(v) # Run(w)
      BY <3>1, <3>2
    <3>4. tg'[Run(w)] = tg[Run(w)]
      BY <2>1, <2>3, <3>3, ClaimHolds DEF Run
    <3> QED BY <1>1, <2>1, <3>4 DEF OwnsRow, Run
  <2>4. ASSUME NEW v \in Deliverers, NEW status \in Statuses, d'[v].pc \notin Caught,
               OwnsRow(v), CloseRow(v, status)
        PROVE  OwnsRow(w)'
    <3>1. v # w
      BY <2>4
    <3>2. Run(v) # Run(w)
      BY <2>1, <2>4, <3>1 DEF OwnsRow
    <3>3. tg'[Run(w)] = tg[Run(w)]
      BY <2>1, <2>4, <3>2, CloseMoves DEF Run
    <3> QED BY <1>1, <2>1, <3>3 DEF OwnsRow, Run
  <2> QED BY <2>2, <2>3, <2>4, RowsMove
<1> QED BY <1>1, <1>2, <1>3

\* The row of a run is held from the claim to the statement that closes it.
LEMMA HeldHolds == Spec => [](Typed /\ Held)
<1>1. Init => Held
  BY DEF Init, Held, Idle, Caught
<1>2. Typed /\ Held /\ [Next]_vars => Held'
  BY HeldStays
<1> QED BY TypingHolds, <1>1, <1>2, PTL DEF Spec

\* No two deliverers send a run at the same time, since a row has one token only.
THEOREM OneDeliverer == Spec => []OneDelivererPerRun
<1>1. Typed /\ Held => OneDelivererPerRun
  <2> SUFFICES ASSUME Held, NEW v \in Deliverers, NEW w \in Deliverers, v # w,
                      d[v].pc \in Caught, d[w].pc \in Caught
               PROVE  Run(v) # Run(w)
    BY DEF OneDelivererPerRun
  <2>1. OwnsRow(v) /\ OwnsRow(w)
    BY DEF Held
  <2> QED BY <2>1 DEF OwnsRow
<1> QED BY HeldHolds, <1>1, PTL

\* The final rows are final, and a row in processing is closed by its owner: this follows
\* from the token that the closing statements compare.
THEOREM FinalRowsAreFinal == Spec => FinalRowsStay
<1> DEFINE Stay == \A r \in Runs :
          /\ tg[r].status \in {"sent", "skipped_not_configured", "failed_terminal"} => tg'[r] = tg[r]
          /\ tg[r].status = "processing" =>
                tg'[r] = tg[r] \/ \E w \in Deliverers : d[w] # d'[w] /\ tg[r].token = w
<1>1. Typed /\ [Next]_vars => Stay
  <2> SUFFICES ASSUME Typed, [Next]_vars PROVE Stay
    OBVIOUS
  <2>1. CASE UNCHANGED tg
    BY <2>1
  <2>2. ASSUME NEW w \in Deliverers, Claim(w) PROVE Stay
    BY <2>2, ClaimHolds DEF Claimable
  <2>3. ASSUME NEW w \in Deliverers, NEW status \in Statuses, d'[w] # d[w], OwnsRow(w),
               CloseRow(w, status)
        PROVE  Stay
    <3>1. tg[Run(w)].status = "processing" /\ tg[Run(w)].token = w
      BY <2>3 DEF OwnsRow
    <3>2. \A r \in Runs : r # Run(w) => tg'[r] = tg[r]
      BY <2>3, CloseMoves
    <3> QED BY <2>3, <3>1, <3>2
  <2> QED BY <2>1, <2>2, <2>3, RowsMove
<1>2. Stay => [Stay]_vars
  OBVIOUS
<1> QED BY TypingHolds, <1>1, PTL DEF Spec, FinalRowsStay

-----------------------------------------------------------------------------
(* One copy *)

\* Only its own actions change the locals of a deliverer.
LEMMA OwnMoves ==
    ASSUME Typed, [Next]_vars, NEW w \in Deliverers
    PROVE  d'[w] = d[w] \/ Invoke(w) \/ Step(w) \/ Throw(w) \/ Crash(w)
<1>1. ASSUME NEW v \in Deliverers, NEW local, Becomes(v, local), v # w PROVE d'[w] = d[w]
  BY <1>1 DEF Becomes, Typed, LocalsTyped
<1>2. ASSUME NEW v \in Deliverers, v # w, Invoke(v) \/ Throw(v) \/ Crash(v) PROVE d'[w] = d[w]
  BY <1>1, <1>2 DEF Invoke, Throw, Crash, Goto, Leave
<1>3. ASSUME NEW v \in Deliverers, v # w, Step(v) PROVE d'[w] = d[w]
  BY <1>1, <1>3
  DEF Step, Claim, Deny, ChooseSender, LoadBots, DispatchToBot, EndCustom, RefuseLegacy,
      SendLegacy, Finish, Catch, DispatchOthers, Goto, Leave
<1>4. UNCHANGED d \/ \E v \in Deliverers : Invoke(v) \/ Step(v) \/ Throw(v) \/ Crash(v)
  BY DEF Next, vars, RetryClaims, RetryAttempts, RetrySweeps, RetrySettlesOthers, Bind, Disconnect
<1> QED BY <1>2, <1>3, <1>4

\* The actions that bring a deliverer from one label of the try to another.
Advances(w) ==
    \/ Claim(w) \/ ChooseSender(w) \/ LoadBots(w) \/ DispatchToBot(w) \/ EndCustom(w)
    \/ RefuseLegacy(w) \/ SendLegacy(w)

\* All the other actions leave the try.
LEMMA CaughtMoves ==
    ASSUME Typed, [Next]_vars, NEW w \in Deliverers, d'[w].pc \in Caught
    PROVE  d'[w] = d[w] \/ Advances(w)
<1>1. CASE Invoke(w)
  <2> PICK r \in Runs : Becomes(w, [Idle EXCEPT !.pc = "claim", !.run = r])
    BY <1>1 DEF Invoke
  <2>1. d'[w].pc = "claim"
    BY DEF Becomes, Idle, Typed, LocalsTyped
  <2> QED BY <2>1 DEF Caught
<1>2. CASE Deny(w) \/ DispatchOthers(w)
  <2>1. PICK label, states : label \in {"others", "done"} /\ Leave(w, label, states)
    BY <1>2 DEF Deny, DispatchOthers
  <2>2. d'[w].pc = label
    BY <1>2, <2>1, LeaveMoves, LabelsAreLabels DEF Deny, DispatchOthers, At, Ended
  <2> QED BY <2>1, <2>2 DEF Caught
<1>3. CASE Finish(w) \/ Catch(w)
  <2>1. d[w].pc # "idle"
    BY <1>3 DEF Finish, Catch, At
  <2>2. d'[w].pc \in {"others", "catch", "threw"}
    BY <1>3, <2>1, LeaveMoves, GotoMoves, LabelsAreLabels DEF Finish, Catch, Ended, At
  <2> QED BY <2>2 DEF Caught
<1>4. CASE Throw(w) \/ Crash(w)
  <2>1. d[w].pc # "idle"
    BY <1>4, LabelsAreLabels DEF Throw, Crash, At
  <2>2. d'[w].pc \in {"threw", "catch", "done", "crashed"}
    BY <1>4, <2>1, LeaveMoves, GotoMoves, LabelsAreLabels DEF Throw, Crash, Ended, At
  <2> QED BY <2>2 DEF Caught
<1> QED BY <1>1, <1>2, <1>3, <1>4, OwnMoves DEF Step, Advances

\* The bots: a job that may be attempted was not sent, nor is one that a retry queue is
\* about to attempt.
Copies ==
    \A k \in Keys :
        /\ custom[k] \in {0, 1}
        /\ job[k] \in {"unmatched", "absent", "failed"} => custom[k] = 0
        /\ k \in retrying => custom[k] = 0 /\ job[k] \in {"sending", "dead_letter"}
        /\ job[k] = "sent" => custom[k] = 1

\* A dispatch to a bot attempts one job.
LEMMA DispatchMoves ==
    ASSUME Typed, NEW w \in Deliverers, DispatchToBot(w)
    PROVE  \E b, attempt :
              /\ b \in Bots
              /\ <<Run(w), b>> \in Keys /\ attempt \in Dispatches(<<Run(w), b>>)
              /\ AttemptJob(<<Run(w), b>>, attempt)
              /\ d'[w].pc = "custom" /\ d'[w].run = d[w].run
              /\ d'[w].got = d[w].got \cup {attempt[3]}
<1>1. GoodLocal(d[w]) /\ At(w, "custom")
  BY DEF Typed, LocalsTyped, DispatchToBot
<1>2. PICK b, attempt :
          /\ b \in d[w].todo /\ attempt \in Dispatches(<<Run(w), b>>) /\ AttemptJob(<<Run(w), b>>, attempt)
          /\ Becomes(w, [d[w] EXCEPT !.todo = @ \ {b}, !.got = @ \cup {attempt[3]}])
  BY DEF DispatchToBot
<1>3. b \in Bots /\ <<Run(w), b>> \in Keys
  BY <1>1, <1>2 DEF At, GoodLocal, Locals, Run, Keys
<1> DEFINE local == [d[w] EXCEPT !.todo = @ \ {b}, !.got = @ \cup {attempt[3]}]
<1>4. local.pc = d[w].pc /\ local.run = d[w].run /\ local.got = d[w].got \cup {attempt[3]}
  BY <1>1 DEF GoodLocal, Locals
<1>5. d'[w] = local
  BY <1>2 DEF Becomes, Typed, LocalsTyped
<1> QED BY <1>1, <1>2, <1>3, <1>4, <1>5 DEF At

\* A dispatch does not attempt a job that somebody has taken or that is dead.
LEMMA DispatchKeepsTaken ==
    ASSUME NEW k, job[k] \in {"sending", "dead_letter"}, NEW attempt \in Dispatches(k)
    PROVE  attempt[1] \in {"sending", "dead_letter"} /\ attempt[2] = 0
BY DEF Dispatches

\* No attempt sends what was sent before.
LEMMA CopiesStay == ASSUME Typed, Copies, [Next]_vars PROVE Copies'
<1>1. CASE UNCHANGED bots
  BY <1>1 DEF Copies, bots
<1>2. ASSUME NEW w \in Deliverers, DispatchToBot(w) PROVE Copies'
  <2>1. PICK b, attempt :
            /\ <<Run(w), b>> \in Keys /\ attempt \in Dispatches(<<Run(w), b>>)
            /\ AttemptJob(<<Run(w), b>>, attempt)
    BY <1>2, DispatchMoves
  <2> DEFINE k == <<Run(w), b>>
  <2>2. k \in Keys /\ attempt \in Dispatches(k) /\ AttemptJob(k, attempt)
    BY <2>1
  <2> HIDE DEF k
  <2>3. /\ attempt[1] \in JobStatuses /\ attempt[2] \in {0, 1}
        /\ attempt[1] # job[k] => attempt[1] \in {"sent", "failed", "sending", "dead_letter"}
        /\ attempt[2] = 1 => job[k] \in {"absent", "failed"}
        /\ attempt[1] = "failed" => job[k] \in {"absent", "failed"} /\ attempt[2] = 0
        /\ attempt[1] # "absent"
        /\ attempt[1] = "unmatched" <=> job[k] = "unmatched"
        /\ attempt[1] = "sent" => job[k] = "sent" \/ attempt[2] = 1
    BY <2>2, DispatchOutcomes
  <2>4. /\ job'[k] = attempt[1] /\ custom'[k] = custom[k] + attempt[2]
        /\ \A j \in Keys \ {k} : job'[j] = job[j] /\ custom'[j] = custom[j]
    BY <2>2, <2>3, AttemptMoves
  <2>5. retrying' = retrying /\ job[k] \in JobStatuses
    BY <1>2, <2>2 DEF DispatchToBot, Typed, BotsTyped
  <2>6. k \in retrying => attempt[1] \in {"sending", "dead_letter"} /\ attempt[2] = 0
    BY <2>2, DispatchKeepsTaken DEF Copies
  <2> QED BY <2>2, <2>3, <2>4, <2>5, <2>6 DEF Copies
<1>3. ASSUME NEW k \in Keys, RetryClaims(k) PROVE Copies'
  BY <1>3 DEF RetryClaims, Copies, Typed, BotsTyped
<1>4. ASSUME NEW k \in Keys, RetryAttempts(k) PROVE Copies'
  <2>1. custom[k] = 0 /\ retrying' = retrying \ {k} /\ k \in retrying
    BY <1>4 DEF RetryAttempts, Copies
  <2>2. ASSUME NEW attempt \in Attempts, AttemptJob(k, attempt) PROVE Copies'
    BY <2>1, <2>2, AttemptOutcomes, AttemptMoves DEF Copies
  <2>3. ASSUME NEW accepted \in {0, 1}, custom' = [custom EXCEPT ![k] = @ + accepted],
               UNCHANGED job, job[k] = "dead_letter"
        PROVE  Copies'
    BY <2>1, <2>3 DEF Copies, Typed, BotsTyped
  <2> QED BY <1>4, <2>2, <2>3 DEF RetryAttempts
<1>5. ASSUME NEW k \in Keys, RetrySweeps(k) PROVE Copies'
  BY <1>5 DEF RetrySweeps, Copies, Typed, BotsTyped
<1>6. CASE UNCHANGED <<job, custom, retrying>>
  BY <1>6 DEF Copies
<1> QED
  BY <1>1, <1>2, <1>3, <1>4, <1>5, <1>6
  DEF Next, Step, vars, Invoke, Claim, Deny, ChooseSender, LoadBots, EndCustom,
      RefuseLegacy, SendLegacy, Finish, Catch, DispatchOthers, Throw, Crash, RetrySettlesOthers,
      Bind, Disconnect

Unsent == {"absent", "failed_retryable", "skipped_not_configured"}

\* The shared bot: it did not set out to send a run whose row may be claimed, nor one whose
\* deliverer has not posted yet, and it has delivered no more copies than it has posted.
Counted ==
    /\ \A r \in Runs :
          /\ sends[r] \in {0, 1}
          /\ sends[r] = 0 => legacy[r] = 0
          /\ legacy[r] <= MaxPosts
          /\ tg[r].status \in Unsent => sends[r] = 0
    /\ \A w \in Deliverers :
          /\ d[w].pc \in Caught \ {"legacy", "finish"} => sends[Run(w)] = 0
          /\ d[w].pc = "legacy" =>
                /\ sends[Run(w)] = (IF d[w].posts = 0 THEN 0 ELSE 1)
                /\ legacy[Run(w)] <= d[w].posts
          /\ d[w].pc = "finish" /\ d[w].outcome \in Unsent => sends[Run(w)] = 0

\* Two deliverers in the try have different runs.
LEMMA HeldApart == Held => OneDelivererPerRun
<1> SUFFICES ASSUME Held, NEW v \in Deliverers, NEW w \in Deliverers, v # w,
                    d[v].pc \in Caught, d[w].pc \in Caught
             PROVE  Run(v) # Run(w)
  BY DEF OneDelivererPerRun
<1>1. OwnsRow(v) /\ OwnsRow(w)
  BY DEF Held
<1> QED BY <1>1 DEF OwnsRow

\* The shared bot posts for the deliverer that holds the row.
LEMMA LegacyMoves ==
    ASSUME Typed, NEW w \in Deliverers, SendLegacy(w)
    PROVE  /\ Run(w) \in Runs /\ d[w].pc = "legacy" /\ UNCHANGED tg
           /\ d[w].posts \in 0..MaxPosts /\ d[w].posts + 1 <= MaxPosts
           /\ sends'[Run(w)] = (IF d[w].posts = 0 THEN sends[Run(w)] + 1 ELSE sends[Run(w)])
           /\ legacy'[Run(w)] \in {legacy[Run(w)], legacy[Run(w)] + 1}
           /\ \A r \in Runs \ {Run(w)} : sends'[r] = sends[r] /\ legacy'[r] = legacy[r]
           /\ GoodLocal(d'[w]) /\ Posted(w, d'[w])
<1>1. GoodLocal(d[w]) /\ d[w].pc = "legacy" /\ d[w].posts \in 0..MaxPosts /\ d[w].posts < MaxPosts
  BY DEF Typed, LocalsTyped, SendLegacy, At, GoodLocal, Locals
<1>2. Run(w) \in Runs /\ UNCHANGED tg /\ d[w].posts + 1 <= MaxPosts
  BY <1>1, MaxPostsAssumption DEF GoodLocal, Run, SendLegacy
<1>3. PICK local : Becomes(w, local) /\ Posted(w, local)
  BY PostMoves
<1>4. d'[w] = local
  BY <1>3 DEF Becomes, Typed, LocalsTyped
<1>5. /\ sends'[Run(w)] = (IF d[w].posts = 0 THEN sends[Run(w)] + 1 ELSE sends[Run(w)])
      /\ \A r \in Runs \ {Run(w)} : sends'[r] = sends[r]
  <2>1. d[w].posts + 1 = 1 <=> d[w].posts = 0
    BY <1>1, MaxPostsAssumption
  <2> QED BY <1>2, <2>1 DEF SendLegacy, Typed, SharedTyped
<1>6. /\ legacy'[Run(w)] \in {legacy[Run(w)], legacy[Run(w)] + 1}
      /\ \A r \in Runs \ {Run(w)} : legacy'[r] = legacy[r]
  <2>1. PICK n \in {0, 1} : legacy' = [legacy EXCEPT ![Run(w)] = @ + n]
    BY DEF SendLegacy
  <2> QED BY <1>2, <2>1 DEF Typed, SharedTyped
<1> QED BY <1>1, <1>2, <1>3, <1>4, <1>5, <1>6 DEF Posted

\* Nothing else changes what the shared bot has sent.
LEMMA LegacyChanges ==
    ASSUME [Next]_vars
    PROVE  UNCHANGED <<sends, legacy>> \/ \E w \in Deliverers : SendLegacy(w)
BY DEF Next, Step, vars, bots, Invoke, Claim, Deny, ChooseSender, LoadBots, DispatchToBot,
       EndCustom, RefuseLegacy, Finish, Catch, DispatchOthers, Throw, Crash, RetryClaims,
       RetryAttempts, RetrySweeps, RetrySettlesOthers, Bind, Disconnect

\* The shared bot is not asked to post.
LEMMA RefuseMoves ==
    ASSUME Typed, NEW w \in Deliverers, RefuseLegacy(w)
    PROVE  /\ d[w].pc = "legacy" /\ d[w].posts = 0
           /\ d'[w].pc = "finish" /\ d'[w].run = d[w].run /\ d'[w].got = d[w].got
           /\ d'[w].outcome \in {"skipped_not_configured", "failed_terminal"}
<1>1. GoodLocal(d[w]) /\ d[w].pc = "legacy" /\ d[w].posts = 0
  BY DEF Typed, LocalsTyped, RefuseLegacy, At
<1>2. PICK outcome \in {"skipped_not_configured", "failed_terminal"} :
          Becomes(w, [d[w] EXCEPT !.pc = "finish", !.outcome = outcome])
  BY DEF RefuseLegacy
<1> DEFINE local == [d[w] EXCEPT !.pc = "finish", !.outcome = outcome]
<1>3. /\ local.pc = "finish" /\ local.run = d[w].run /\ local.got = d[w].got
      /\ local.outcome = outcome
  BY <1>1 DEF GoodLocal, Locals
<1>4. d'[w] = local
  BY <1>2 DEF Becomes, Typed, LocalsTyped
<1> HIDE DEF local
<1> QED BY <1>1, <1>3, <1>4

\* The dispatch to the bots ends with an outcome.
LEMMA EndMoves ==
    ASSUME Typed, NEW w \in Deliverers, EndCustom(w)
    PROVE  /\ d[w].pc = "custom" /\ d'[w].pc = "finish" /\ d'[w].run = d[w].run
           /\ d'[w].outcome = CustomOutcome(d[w].got) /\ d'[w].got = d[w].got
<1>1. GoodLocal(d[w]) /\ d[w].pc = "custom"
  BY DEF Typed, LocalsTyped, EndCustom, At
<1> DEFINE local == [d[w] EXCEPT !.pc = "finish", !.outcome = CustomOutcome(d[w].got)]
<1>2. /\ local.pc = "finish" /\ local.run = d[w].run /\ local.got = d[w].got
      /\ local.outcome = CustomOutcome(d[w].got)
  BY <1>1 DEF GoodLocal, Locals
<1>3. d'[w] = local
  BY DEF EndCustom, Becomes, Typed, LocalsTyped
<1> QED BY <1>1, <1>2, <1>3

\* What is counted of a run.
RunCounted(r) ==
    /\ sends[r] \in {0, 1}
    /\ sends[r] = 0 => legacy[r] = 0
    /\ legacy[r] <= MaxPosts
    /\ tg[r].status \in Unsent => sends[r] = 0

\* A post is the first of the only attempt, or one of its repetitions.
LEMMA PostCounts ==
    ASSUME Typed, SharedTyped', Held, Counted, NEW w \in Deliverers, SendLegacy(w)
    PROVE  /\ sends[Run(w)] = (IF d[w].posts = 0 THEN 0 ELSE 1) /\ sends'[Run(w)] = 1
           /\ legacy[Run(w)] \in Nat /\ legacy'[Run(w)] \in Nat
           /\ legacy'[Run(w)] <= d[w].posts + 1 /\ legacy'[Run(w)] <= MaxPosts
           /\ tg[Run(w)].status = "processing" /\ Run(w) \in Runs
<1>1. /\ Run(w) \in Runs /\ d[w].pc = "legacy"
      /\ d[w].posts \in 0..MaxPosts /\ d[w].posts + 1 <= MaxPosts
      /\ sends'[Run(w)] = (IF d[w].posts = 0 THEN sends[Run(w)] + 1 ELSE sends[Run(w)])
      /\ legacy'[Run(w)] \in {legacy[Run(w)], legacy[Run(w)] + 1}
  BY LegacyMoves
<1>2. sends[Run(w)] = (IF d[w].posts = 0 THEN 0 ELSE 1) /\ legacy[Run(w)] <= d[w].posts
  BY <1>1 DEF Counted
<1>3. legacy[Run(w)] \in Nat /\ legacy'[Run(w)] \in Nat
  BY <1>1 DEF Typed, SharedTyped
<1>4. sends'[Run(w)] = 1
  BY <1>1, <1>2
<1>5. legacy'[Run(w)] <= d[w].posts + 1 /\ legacy'[Run(w)] <= MaxPosts
  BY <1>1, <1>2, <1>3, MaxPostsAssumption
<1>6. OwnsRow(w)
  BY <1>1 DEF Held, Caught
<1> QED BY <1>1, <1>2, <1>3, <1>4, <1>5, <1>6 DEF OwnsRow

\* The run was not sent when it is claimed, and only the owner of its row sends it.
LEMMA CountedStays == ASSUME Typed, Typed', Held, Counted, [Next]_vars PROVE Counted'
<1>1. ASSUME NEW r \in Runs PROVE RunCounted(r)'
  <2>0. RunCounted(r)
    BY DEF Counted, RunCounted
  <2>1. CASE UNCHANGED <<sends, legacy>>
    <3>1. CASE UNCHANGED tg
      BY <2>0, <2>1, <3>1 DEF RunCounted
    <3>2. ASSUME NEW w \in Deliverers, Claim(w)
          PROVE  tg'[r].status \in Unsent => sends[r] = 0
      <4>1. /\ tg'[Run(w)] = [status |-> "processing", token |-> w]
            /\ r # Run(w) => tg'[r] = tg[r]
        BY <3>2, ClaimHolds
      <4>2. CASE r = Run(w)
        BY <4>1, <4>2 DEF Unsent
      <4>3. CASE r # Run(w)
        BY <4>1, <4>3 DEF Counted
      <4> QED BY <4>2, <4>3
    <3>3. ASSUME NEW w \in Deliverers, NEW status \in Statuses, Closes(w, status),
                 OwnsRow(w), CloseRow(w, status)
          PROVE  tg'[r].status \in Unsent => sends[r] = 0
      <4>1. CASE r # Run(w)
        <5>1. tg'[r] = tg[r]
          BY <3>3, <4>1, CloseMoves
        <5> QED BY <5>1 DEF Counted
      <4>2. CASE r = Run(w)
        <5>1. tg'[r] = [status |-> status, token |-> None]
          BY <3>3, <4>2, CloseMoves
        <5> QED BY <3>3, <4>2, <5>1 DEF Closes, Counted, Unsent
      <4> QED BY <4>1, <4>2
    <3>4. tg'[r].status \in Unsent => sends[r] = 0
      BY <3>1, <3>2, <3>3, RowsMove DEF Counted
    <3> QED BY <2>0, <2>1, <3>4 DEF RunCounted
  <2>2. ASSUME NEW w \in Deliverers, SendLegacy(w) PROVE RunCounted(r)'
    <3>1. /\ sends'[Run(w)] = 1 /\ legacy'[Run(w)] <= MaxPosts
          /\ tg[Run(w)].status = "processing"
      BY <2>2, PostCounts DEF Typed
    <3>2. /\ UNCHANGED tg
          /\ r # Run(w) => sends'[r] = sends[r] /\ legacy'[r] = legacy[r]
      BY <2>2, LegacyMoves
    <3>3. CASE r = Run(w)
      BY <3>1, <3>2, <3>3 DEF RunCounted, Unsent
    <3>4. CASE r # Run(w)
      BY <2>0, <3>2, <3>4 DEF RunCounted
    <3> QED BY <3>3, <3>4
  <2> QED BY <2>1, <2>2, LegacyChanges
<1>2. ASSUME NEW w \in Deliverers, d'[w].pc \in Caught
      PROVE  /\ d'[w].pc \in Caught \ {"legacy", "finish"} => sends'[Run(w)'] = 0
             /\ d'[w].pc = "legacy" =>
                   /\ sends'[Run(w)'] = (IF d'[w].posts = 0 THEN 0 ELSE 1)
                   /\ legacy'[Run(w)'] <= d'[w].posts
             /\ d'[w].pc = "finish" /\ d'[w].outcome \in Unsent => sends'[Run(w)'] = 0
  <2>1. Run(w)' = Run(w) /\ Run(w) \in Runs
    BY <1>2, CaughtFrom, LabelsAreLabels DEF Run, Typed, LocalsTyped, GoodLocal
  <2>2. CASE SendLegacy(w)
    <3>1. /\ sends'[Run(w)] = 1 /\ legacy'[Run(w)] <= d[w].posts + 1
      BY <2>2, PostCounts DEF Typed
    <3>2. Posted(w, d'[w]) /\ d[w].posts \in 0..MaxPosts
      BY <2>2, LegacyMoves
    <3>3. CASE d'[w].pc = "finish"
      <4>1. d'[w].outcome \in {"sent", "failed_terminal"}
        BY <3>2, <3>3 DEF Posted
      <4> QED BY <3>3, <4>1 DEF Unsent
    <3>4. CASE d'[w].pc = "legacy"
      <4>1. d'[w].posts = d[w].posts + 1
        BY <3>2, <3>4 DEF Posted
      <4>2. d'[w].posts # 0
        BY <3>2, <4>1, MaxPostsAssumption
      <4> QED BY <2>1, <3>1, <3>4, <4>1, <4>2
    <3> QED BY <3>2, <3>3, <3>4 DEF Posted
  <2>3. CASE Claim(w)
    <3>1. sends[Run(w)] = 0 /\ UNCHANGED <<sends, legacy>>
      BY <2>3, ClaimHolds DEF Claim, Claimable, Counted, Unsent
    <3>2. d'[w].pc \in {"route", "threw"}
      BY <2>3, GotoMoves, LabelsAreLabels DEF Claim, At, Caught, Ended
    <3> QED BY <2>1, <3>1, <3>2
  <2>4. CASE ChooseSender(w) \/ LoadBots(w) \/ DispatchToBot(w) \/ EndCustom(w)
    <3>1. d[w].pc \in Caught \ {"legacy", "finish"}
      BY <2>4 DEF ChooseSender, LoadBots, DispatchToBot, EndCustom, At, Caught
    <3>2. UNCHANGED <<sends, legacy>>
      BY <2>4 DEF ChooseSender, LoadBots, DispatchToBot, EndCustom
    <3>3. sends[Run(w)] = 0 /\ legacy[Run(w)] = 0
      BY <2>1, <3>1 DEF Counted
    <3>4. CASE d'[w].pc = "legacy"
      <4>1. ChooseSender(w)
        <5>1. CASE LoadBots(w)
          <6> DEFINE local == [d[w] EXCEPT !.pc = "custom", !.todo = Active]
          <6>1. d[w] \in Locals
            BY DEF Typed, LocalsTyped
          <6>2. local.pc = "custom" /\ d'[w] = local
            BY <5>1, <6>1 DEF Locals, LoadBots, Becomes, Typed, LocalsTyped
          <6> HIDE DEF local
          <6>3. FALSE
            BY <3>4, <6>2
          <6> QED BY <6>3
        <5> QED BY <2>4, <3>4, <5>1, DispatchMoves, EndMoves
      <4>2. d'[w].posts = d[w].posts
        <5>1. PICK label \in {"loadBots", "legacy"} : Goto(w, label)
          BY <4>1 DEF ChooseSender
        <5> QED BY <4>1, <5>1, GotoMoves, LabelsAreLabels DEF ChooseSender, At, Caught
      <4>3. d[w].posts = 0
        BY <4>1 DEF ChooseSender, At, Typed, LocalsTyped, GoodLocal
      <4> QED BY <2>1, <3>2, <3>3, <3>4, <4>2, <4>3
    <3> QED BY <2>1, <3>2, <3>3, <3>4
  <2>6. CASE RefuseLegacy(w)
    <3>1. d[w].pc = "legacy" /\ d[w].posts = 0 /\ d'[w].pc = "finish"
      BY <2>6, RefuseMoves
    <3>2. sends[Run(w)] = 0 /\ UNCHANGED <<sends, legacy>>
      BY <2>6, <3>1 DEF Counted, RefuseLegacy
    <3> QED BY <2>1, <3>1, <3>2
  <2>5. CASE d'[w] = d[w]
    <3>1. CASE SendLegacy(w)
      BY <2>2, <3>1
    <3>2. ASSUME NEW v \in Deliverers, SendLegacy(v), v # w
          PROVE  sends'[Run(w)] = sends[Run(w)] /\ legacy'[Run(w)] = legacy[Run(w)]
      <4>1. d[v].pc = "legacy"
        BY <3>2, LegacyMoves
      <4>2. Run(v) # Run(w)
        BY <1>2, <2>5, <3>2, <4>1, HeldApart DEF OneDelivererPerRun, Caught
      <4> QED BY <2>1, <3>2, <4>2, LegacyMoves
    <3>3. CASE sends'[Run(w)] = sends[Run(w)] /\ legacy'[Run(w)] = legacy[Run(w)]
      BY <2>1, <2>5, <3>3 DEF Counted
    <3> QED BY <3>1, <3>2, <3>3, LegacyChanges
  <2> QED BY <1>2, <2>2, <2>3, <2>4, <2>5, <2>6, CaughtMoves DEF Advances
<1> QED BY <1>1, <1>2 DEF Counted, RunCounted, Caught

\* The copies of the bots and of the shared bot are counted.
LEMMA CountsHold == Spec => [](Typed /\ Held /\ Copies /\ Counted)
<1>1. Init => Copies /\ Counted
  BY MaxPostsAssumption DEF Init, Copies, Counted, Idle, Caught
<1>2. Typed /\ Typed' /\ Held /\ Copies /\ Counted /\ [Next]_vars => Copies' /\ Counted'
  BY CopiesStay, CountedStays
<1> QED BY HeldHolds, <1>1, <1>2, PTL DEF Spec

\* No bot of the customer delivers a run twice, and the shared bot makes one attempt at
\* most, since whatever may be claimed has not been sent; within that attempt it delivers
\* no more copies than callTelegramApiWithRetry posts.
THEOREM CopiesBounded == Spec => []CopiesAreBounded
<1>1. Typed /\ Copies /\ Counted => CopiesAreBounded
  <2> SUFFICES ASSUME Typed, Copies, Counted PROVE CopiesAreBounded
    OBVIOUS
  <2>1. \A k \in Keys : custom[k] <= 1
    BY DEF Copies
  <2>2. ASSUME NEW r \in Runs PROVE sends[r] <= 1 /\ legacy[r] <= MaxPosts * sends[r]
    <3>1. CASE sends[r] = 0
      <4>1. MaxPosts * 0 = 0
        BY MaxPostsAssumption
      <4> QED BY <3>1, <4>1 DEF Counted
    <3>2. CASE sends[r] = 1
      <4>1. MaxPosts * 1 = MaxPosts
        BY MaxPostsAssumption
      <4> QED BY <3>2, <4>1 DEF Counted
    <3> QED BY <3>1, <3>2 DEF Counted
  <2> QED BY <2>1, <2>2 DEF CopiesAreBounded
<1> QED BY CountsHold, <1>1, PTL

-----------------------------------------------------------------------------
(* The verdicts *)

\* What a batch row that says sent claims.
WasSent(r) ==
    \/ legacy[r] > 0
    \/ \E b \in Bots : job[<<r, b>>] = "unmatched" \/ custom[<<r, b>>] = 1

\* The results, the outcome and the row that say sent are true.
Told ==
    /\ \A w \in Deliverers :
          /\ d[w].pc \in Caught /\ d[w].got \cap {"sent", "skipped"} # {} => WasSent(Run(w))
          /\ d[w].pc = "finish" /\ d[w].outcome = "sent" => WasSent(Run(w))
          /\ d[w].pc = "claim" => d[w].got = {}
    /\ \A r \in Runs : tg[r].status = "sent" => WasSent(r)

\* No job is matched later or taken back.
LEMMA JobsLast ==
    ASSUME Typed, Copies, [Next]_vars, NEW k \in Keys
    PROVE  /\ job[k] = "unmatched" => job'[k] = "unmatched"
           /\ custom[k] = 1 => custom'[k] = 1
<1>1. CASE UNCHANGED <<job, custom>>
  BY <1>1
<1>2. ASSUME NEW w \in Deliverers, DispatchToBot(w), job[k] = "unmatched"
      PROVE  job'[k] = "unmatched"
  <2>1. PICK b, attempt :
            /\ <<Run(w), b>> \in Keys /\ attempt \in Dispatches(<<Run(w), b>>)
            /\ AttemptJob(<<Run(w), b>>, attempt)
    BY <1>2, DispatchMoves
  <2> DEFINE j == <<Run(w), b>>
  <2>2. j \in Keys /\ attempt \in Dispatches(j) /\ AttemptJob(j, attempt)
    BY <2>1
  <2> HIDE DEF j
  <2>3. /\ attempt[1] \in JobStatuses /\ attempt[2] \in {0, 1}
        /\ attempt[1] = "unmatched" <=> job[j] = "unmatched"
    BY <2>2, DispatchOutcomes
  <2> QED BY <1>2, <2>2, <2>3, AttemptMoves
<1>3. ASSUME NEW w \in Deliverers, DispatchToBot(w), custom[k] = 1
      PROVE  custom'[k] = 1
  <2>1. PICK b, attempt :
            /\ <<Run(w), b>> \in Keys /\ attempt \in Dispatches(<<Run(w), b>>)
            /\ AttemptJob(<<Run(w), b>>, attempt)
    BY <1>3, DispatchMoves
  <2> DEFINE j == <<Run(w), b>>
  <2>2. j \in Keys /\ attempt \in Dispatches(j) /\ AttemptJob(j, attempt)
    BY <2>1
  <2> HIDE DEF j
  <2>3. /\ attempt[1] \in JobStatuses /\ attempt[2] \in {0, 1}
        /\ attempt[2] = 1 => job[j] \in {"absent", "failed"}
    BY <2>2, DispatchOutcomes
  <2>4. k = j => attempt[2] = 0
    BY <1>3, <2>3 DEF Copies
  <2> QED BY <1>3, <2>2, <2>3, <2>4, AttemptMoves
<1>4. ASSUME NEW j \in Keys, RetryClaims(j) \/ RetrySweeps(j)
      PROVE  /\ job[k] = "unmatched" => job'[k] = "unmatched"
             /\ custom[k] = 1 => custom'[k] = 1
  BY <1>4 DEF RetryClaims, RetrySweeps, Typed, BotsTyped
<1>5. ASSUME NEW j \in Keys, RetryAttempts(j)
      PROVE  /\ job[k] = "unmatched" => job'[k] = "unmatched"
             /\ custom[k] = 1 => custom'[k] = 1
  <2>1. custom[j] = 0 /\ job[j] # "unmatched"
    BY <1>5 DEF RetryAttempts, Copies
  <2>2. ASSUME NEW attempt \in Attempts, AttemptJob(j, attempt)
        PROVE  \A i \in Keys \ {j} : job'[i] = job[i] /\ custom'[i] = custom[i]
    BY <2>2, AttemptOutcomes, AttemptMoves
  <2>3. \A i \in Keys \ {j} : job'[i] = job[i] /\ custom'[i] = custom[i]
    BY <1>5, <2>2 DEF RetryAttempts, Typed, BotsTyped
  <2> QED BY <2>1, <2>3
<1> QED
  BY <1>1, <1>2, <1>3, <1>4, <1>5
  DEF Next, Step, vars, bots, Invoke, Claim, Deny, ChooseSender, LoadBots, EndCustom,
      RefuseLegacy, SendLegacy, Finish, Catch, DispatchOthers, Throw, Crash, RetrySettlesOthers,
      Bind, Disconnect

\* A run that was sent stays sent.
LEMMA SentLasts ==
    ASSUME Typed, Held, Copies, Counted, Counted', [Next]_vars, NEW r \in Runs, WasSent(r)
    PROVE  WasSent(r)'
<1>1. ASSUME legacy[r] > 0 PROVE legacy'[r] > 0
  <2>1. ASSUME NEW w \in Deliverers, SendLegacy(w) PROVE legacy'[r] > 0
    <3>1. legacy'[r] \in {legacy[r], legacy[r] + 1}
      BY <2>1, LegacyMoves
    <3> QED BY <1>1, <3>1 DEF Typed, SharedTyped
  <2> QED BY <1>1, <2>1, LegacyChanges
<1>2. \A b \in Bots : <<r, b>> \in Keys
  BY DEF Keys
<1>3. ASSUME NEW b \in Bots, job[<<r, b>>] = "unmatched" \/ custom[<<r, b>>] = 1
      PROVE  job'[<<r, b>>] = "unmatched" \/ custom'[<<r, b>>] = 1
  BY <1>2, <1>3, JobsLast
<1> QED BY <1>1, <1>3 DEF WasSent

\* A result that counts as sent is a job that was sent, now or before, or is unmatched.
LEMMA ResultIsTrue ==
    ASSUME Typed, Copies', NEW w \in Deliverers, DispatchToBot(w)
    PROVE  \E result :
              /\ d'[w].got = d[w].got \cup {result} /\ d'[w].run = d[w].run
              /\ result \in {"sent", "skipped"} => WasSent(Run(w))'
<1>1. PICK b, attempt :
          /\ b \in Bots
          /\ <<Run(w), b>> \in Keys /\ attempt \in Dispatches(<<Run(w), b>>)
          /\ AttemptJob(<<Run(w), b>>, attempt)
          /\ d'[w].run = d[w].run
          /\ d'[w].got = d[w].got \cup {attempt[3]}
  BY DispatchMoves
<1> DEFINE k == <<Run(w), b>>
<1>2. k \in Keys /\ attempt \in Dispatches(k) /\ AttemptJob(k, attempt)
  BY <1>1
<1> HIDE DEF k
<1>3. /\ attempt[1] \in JobStatuses /\ attempt[2] \in {0, 1}
      /\ attempt[3] \in {"sent", "skipped"} => attempt[1] \in {"sent", "unmatched"}
  BY <1>2, DispatchOutcomes
<1>4. job'[k] = attempt[1]
  BY <1>2, <1>3, AttemptMoves
<1>5. attempt[3] \in {"sent", "skipped"} => job'[k] = "unmatched" \/ custom'[k] = 1
  BY <1>2, <1>3, <1>4 DEF Copies
<1>6. attempt[3] \in {"sent", "skipped"} => WasSent(Run(w))'
  BY <1>1, <1>5 DEF WasSent, k, Run
<1> QED BY <1>1, <1>6

\* A deliverer is about to claim when it has just been invoked.
LEMMA ClaimFrom ==
    ASSUME Typed, [Next]_vars, NEW w \in Deliverers, d'[w].pc = "claim"
    PROVE  d'[w] = d[w] \/ d'[w].got = {}
<1>1. CASE Invoke(w)
  <2> PICK r \in Runs : Becomes(w, [Idle EXCEPT !.pc = "claim", !.run = r])
    BY <1>1 DEF Invoke
  <2> QED BY DEF Becomes, Idle, Typed, LocalsTyped
<1>2. CASE Claim(w) \/ ChooseSender(w)
  <2>1. PICK label : label \in {"route", "threw", "loadBots", "legacy"} /\ Goto(w, label)
    BY <1>2 DEF Claim, ChooseSender
  <2>2. d'[w].pc = label
    BY <1>2, <2>1, GotoMoves, LabelsAreLabels DEF Claim, ChooseSender, At, Caught, Ended
  <2> QED BY <2>1, <2>2
<1>3. CASE LoadBots(w)
  <2> DEFINE local == [d[w] EXCEPT !.pc = "custom", !.todo = Active]
  <2>1. d[w] \in Locals
    BY DEF Typed, LocalsTyped
  <2>2. local.pc = "custom" /\ Becomes(w, local)
    BY <1>3, <2>1 DEF Locals, LoadBots
  <2> HIDE DEF local
  <2>3. d'[w].pc = "custom"
    BY <2>2 DEF Becomes, Typed, LocalsTyped
  <2> QED BY <2>3
<1>4. CASE DispatchToBot(w) \/ EndCustom(w) \/ RefuseLegacy(w) \/ SendLegacy(w)
  BY <1>4, DispatchMoves, EndMoves, RefuseMoves, LegacyMoves DEF Posted
<1>5. CASE Deny(w) \/ DispatchOthers(w)
  <2>1. PICK label, states : label \in {"others", "done"} /\ Leave(w, label, states)
    BY <1>5 DEF Deny, DispatchOthers
  <2> QED BY <1>5, <2>1, LeaveMoves, LabelsAreLabels DEF Deny, DispatchOthers, At, Ended
<1>6. CASE Finish(w) \/ Catch(w)
  <2>1. d[w].pc # "idle"
    BY <1>6 DEF Finish, Catch, At
  <2>2. d'[w].pc \in {"others", "catch", "threw"}
    BY <1>6, <2>1, LeaveMoves, GotoMoves, LabelsAreLabels DEF Finish, Catch, Ended, At
  <2> QED BY <2>2
<1>7. CASE Throw(w) \/ Crash(w)
  <2>1. d[w].pc # "idle"
    BY <1>7, LabelsAreLabels DEF Throw, Crash, At
  <2>2. d'[w].pc \in {"threw", "catch", "done", "crashed"}
    BY <1>7, <2>1, LeaveMoves, GotoMoves, LabelsAreLabels DEF Throw, Crash, Ended, At
  <2> QED BY <2>2
<1> QED BY <1>1, <1>2, <1>3, <1>4, <1>5, <1>6, <1>7, OwnMoves DEF Step

\* The bots are loaded, and the sender chosen, with the results as they were.
LEMMA ResultsKept ==
    ASSUME Typed, NEW w \in Deliverers, Claim(w) \/ ChooseSender(w) \/ LoadBots(w)
    PROVE  d'[w].got = d[w].got /\ d'[w].pc # "finish"
<1>1. CASE Claim(w) \/ ChooseSender(w)
  <2>1. PICK label : label \in {"route", "threw", "loadBots", "legacy"} /\ Goto(w, label)
    BY <1>1 DEF Claim, ChooseSender
  <2> QED
    BY <1>1, <2>1, GotoMoves, LabelsAreLabels DEF Claim, ChooseSender, At, Caught, Ended
<1>2. CASE LoadBots(w)
  <2> DEFINE local == [d[w] EXCEPT !.pc = "custom", !.todo = Active]
  <2>1. d[w] \in Locals
    BY DEF Typed, LocalsTyped
  <2>2. local.pc = "custom" /\ local.got = d[w].got /\ Becomes(w, local)
    BY <1>2, <2>1 DEF Locals, LoadBots
  <2> HIDE DEF local
  <2>3. d'[w] = local
    BY <2>2 DEF Becomes, Typed, LocalsTyped
  <2> QED BY <2>2, <2>3
<1> QED BY <1>1, <1>2

\* A result is told when it is true, and what was sent stays sent.
LEMMA ToldStays ==
    ASSUME Typed, Typed', Held, Copies, Copies', Counted, Counted', Told, [Next]_vars
    PROVE  Told'
<1>1. ASSUME NEW r \in Runs, tg'[r].status = "sent" PROVE WasSent(r)'
  <2>1. CASE tg'[r] = tg[r]
    BY <1>1, <2>1, SentLasts DEF Told
  <2>2. ASSUME NEW w \in Deliverers, Claim(w) PROVE tg'[r] = tg[r]
    <3>1. /\ tg'[Run(w)] = [status |-> "processing", token |-> w]
          /\ r # Run(w) => tg'[r] = tg[r]
      BY <2>2, ClaimHolds
    <3>2. r # Run(w)
      BY <1>1, <3>1
    <3> QED BY <3>1, <3>2
  <2>3. ASSUME NEW w \in Deliverers, NEW status \in Statuses, Closes(w, status), OwnsRow(w),
               CloseRow(w, status), tg'[r] # tg[r]
        PROVE  WasSent(r)
    <3>1. r = Run(w) /\ tg'[r] = [status |-> status, token |-> None]
      BY <2>3, CloseMoves
    <3>2. status = "sent"
      BY <1>1, <3>1
    <3> QED BY <2>3, <3>1, <3>2 DEF Closes, Told
  <2> QED BY <2>1, <2>2, <2>3, RowsMove, SentLasts
<1>2. ASSUME NEW w \in Deliverers, d'[w].pc \in Caught
      PROVE  /\ d'[w].got \cap {"sent", "skipped"} # {} => WasSent(Run(w))'
             /\ d'[w].pc = "finish" /\ d'[w].outcome = "sent" => WasSent(Run(w))'
  <2>1. Run(w)' = Run(w) /\ Run(w) \in Runs /\ Run(w)' \in Runs
    BY <1>2, CaughtFrom, LabelsAreLabels DEF Run, Typed, LocalsTyped, GoodLocal
  <2>2. WasSent(Run(w)) => WasSent(Run(w))'
    <3>1. ASSUME NEW q \in Runs, q = Run(w), WasSent(q) PROVE WasSent(Run(w))'
      <4>1. legacy'[q] > 0 \/ \E b \in Bots : job'[<<q, b>>] = "unmatched" \/ custom'[<<q, b>>] = 1
        BY <3>1, SentLasts DEF WasSent
      <4>2. Run(w)' = q
        BY <2>1, <3>1
      <4> QED BY <4>1, <4>2 DEF WasSent
    <3> QED BY <2>1, <3>1
  <2>3. CASE d'[w] = d[w]
    BY <1>2, <2>2, <2>3 DEF Told
  <2>4. CASE Claim(w) \/ ChooseSender(w) \/ LoadBots(w)
    <3>1. d'[w].got = d[w].got /\ d'[w].pc # "finish"
      BY <2>4, ResultsKept
    <3>2. d[w].pc \in Caught \/ d[w].got = {}
      BY <2>4 DEF Claim, ChooseSender, LoadBots, At, Caught, Told
    <3> QED BY <2>2, <3>1, <3>2 DEF Told
  <2>5. CASE DispatchToBot(w)
    <3>1. PICK result :
              /\ d'[w].got = d[w].got \cup {result}
              /\ result \in {"sent", "skipped"} => WasSent(Run(w))'
      BY <2>5, ResultIsTrue
    <3>2. d[w].pc \in Caught /\ d'[w].pc = "custom"
      BY <2>5, DispatchMoves DEF DispatchToBot, At, Caught
    <3> QED BY <2>2, <3>1, <3>2 DEF Told
  <2>6. CASE EndCustom(w)
    <3>1. d[w].pc \in Caught /\ d'[w].outcome = CustomOutcome(d[w].got) /\ d'[w].got = d[w].got
      BY <2>6, EndMoves DEF Caught
    <3>2. CustomOutcome(d[w].got) = "sent" => d[w].got \cap {"sent", "skipped"} # {}
      BY DEF CustomOutcome
    <3> QED BY <2>2, <3>1, <3>2 DEF Told
  <2>7. CASE SendLegacy(w)
    <3>1. /\ d[w].pc = "legacy" /\ Posted(w, d'[w])
          /\ legacy'[Run(w)] \in {legacy[Run(w)], legacy[Run(w)] + 1}
      BY <2>7, LegacyMoves
    <3>2. d'[w].pc = "finish" /\ d'[w].outcome = "sent" => legacy'[Run(w)] > 0
      <4>1. legacy[Run(w)] \in Nat
        BY <2>1 DEF Typed, SharedTyped
      <4> QED BY <3>1, <4>1 DEF Posted
    <3>3. legacy'[Run(w)] > 0 => WasSent(Run(w))'
      BY <2>1 DEF WasSent
    <3>4. d'[w].got = d[w].got
      BY <3>1 DEF Posted
    <3> QED BY <2>2, <3>1, <3>2, <3>3, <3>4 DEF Told, Caught
  <2>8. CASE RefuseLegacy(w)
    <3>1. d[w].pc = "legacy" /\ d'[w].got = d[w].got /\ d'[w].outcome # "sent"
      BY <2>8, RefuseMoves
    <3> QED BY <2>2, <3>1 DEF Told, Caught
  <2> QED BY <1>2, <2>3, <2>4, <2>5, <2>6, <2>7, <2>8, CaughtMoves DEF Advances
<1>3. ASSUME NEW w \in Deliverers, d'[w].pc = "claim" PROVE d'[w].got = {}
  BY <1>3, ClaimFrom DEF Told
<1> QED BY <1>1, <1>2, <1>3 DEF Told, Caught

\* What is told is true in every state.
LEMMA ToldHolds == Spec => [](Typed /\ Held /\ Copies /\ Counted /\ Told)
<1>1. Init => Told
  BY DEF Init, Told, Idle, Caught
<1>2. /\ Typed /\ Held /\ Copies /\ Counted /\ Told /\ [Next]_vars
      /\ Typed' /\ Copies' /\ Counted'
      => Told'
  BY ToldStays
<1> QED BY CountsHold, <1>1, <1>2, PTL DEF Spec

\* A batch row that says sent is true, unless a route has no leads in the run, and what will
\* be tried again, or was skipped, was not delivered by the shared bot.
THEOREM VerdictsHold == Spec => []VerdictsAreTrue
<1>1. Counted /\ Told => VerdictsAreTrue
  BY DEF Counted, Told, WasSent, Unsent, VerdictsAreTrue
<1> QED BY ToldHolds, <1>1, PTL

-----------------------------------------------------------------------------
(* The report *)

\* A deliverer without a failure to report after the batch row left it final.
Final == {"sent", "skipped_not_configured"}
Reported ==
    \A w \in Deliverers :
        d[w].pc \in {"others", "done"} /\ d[w].failures = {} => tg[Run(w)].status \in Final

\* The outcomes that a deliverer may persist are not the absence of one.
Chosen == \A w \in Deliverers : d[w].pc = "finish" => d[w].outcome # "absent"

\* An outcome is chosen before it is persisted.
LEMMA ChosenStays == ASSUME Typed, Chosen, [Next]_vars PROVE Chosen'
<1> SUFFICES ASSUME NEW w \in Deliverers, d'[w].pc = "finish" PROVE d'[w].outcome # "absent"
  BY DEF Chosen
<1>1. CASE d'[w] = d[w]
  BY <1>1 DEF Chosen
<1>2. CASE Claim(w) \/ ChooseSender(w) \/ LoadBots(w)
  BY <1>2, ResultsKept
<1>3. CASE DispatchToBot(w)
  BY <1>3, DispatchMoves
<1>4. CASE EndCustom(w)
  BY <1>4, EndMoves DEF CustomOutcome
<1>5. CASE SendLegacy(w) \/ RefuseLegacy(w)
  BY <1>5, LegacyMoves, RefuseMoves DEF Posted
<1> QED BY <1>1, <1>2, <1>3, <1>4, <1>5, CaughtMoves DEF Advances, Caught

\* A report is begun when the row is final, or with a failure.
LEMMA ReportBegins ==
    ASSUME Typed, Chosen, NEW w \in Deliverers, Deny(w) \/ Finish(w) \/ Catch(w) \/ Throw(w),
           d'[w].pc \in {"others", "done"}, d'[w].failures = {}
    PROVE  tg'[Run(w)].status \in Final
<1>1. d[w].pc # "idle"
  BY LabelsAreLabels DEF Deny, Finish, Catch, Throw, At
<1>2. Run(w) \in Runs /\ d[w].outcome \in Statuses
  BY <1>1 DEF Typed, LocalsTyped, GoodLocal, Locals, Run
<1>3. CASE Deny(w)
  <2>1. tg[Run(w)].status \in Statuses \ {"absent", "failed_retryable"}
    BY <1>2, <1>3 DEF Deny, Claimable, Typed, RowsTyped
  <2>2. d'[w].failures = d[w].failures \cup ({tg[Run(w)].status} \cap FailureStates)
    BY <1>1, <1>3, LeaveMoves, LabelsAreLabels DEF Deny
  <2> QED BY <1>3, <2>1, <2>2 DEF Deny, Statuses, FailureStates, Final
<1>4. CASE Finish(w)
  <2>1. CASE Leave(w, "catch", {})
    BY <1>1, <2>1, LeaveMoves, LabelsAreLabels
  <2>2. CASE Leave(w, "others", {d[w].outcome})
    <3>1. d'[w].failures = d[w].failures \cup ({d[w].outcome} \cap FailureStates)
      BY <1>1, <2>2, LeaveMoves, LabelsAreLabels
    <3>2. d[w].outcome \in Final
      BY <1>2, <1>4, <3>1 DEF Chosen, Finish, At, Statuses, FailureStates, Final
    <3>3. CASE OwnsRow(w)
      <4>1. tg'[Run(w)] = [status |-> d[w].outcome, token |-> None]
        BY <1>2, <1>4, <3>3, CloseMoves DEF Finish
      <4> QED BY <3>2, <4>1
    <3>4. CASE d'[w].pc = "catch"
      BY <3>4
    <3>5. OwnsRow(w) \/ Leave(w, "catch", {})
      BY <1>4, <3>2 DEF Finish, Final
    <3>6. Leave(w, "catch", {}) => d'[w].pc = "catch"
      BY <1>1, LeaveMoves, LabelsAreLabels
    <3> QED BY <3>3, <3>4, <3>5, <3>6
  <2> QED BY <1>4, <2>1, <2>2 DEF Finish
<1>5. CASE Catch(w)
  <2>1. CASE Leave(w, "others", {"failed_terminal"})
    BY <1>1, <2>1, LeaveMoves, LabelsAreLabels DEF FailureStates
  <2>2. CASE Goto(w, "threw")
    <3>1. d'[w].pc = "threw"
      BY <1>1, <1>5, <2>2, GotoMoves, LabelsAreLabels DEF Catch, At, Ended
    <3> QED BY <3>1
  <2> QED BY <1>5, <2>1, <2>2 DEF Catch
<1>6. CASE Throw(w)
  <2>1. CASE At(w, "claim") /\ Goto(w, "threw")
    <3>1. d'[w].pc = "threw"
      BY <1>1, <2>1, GotoMoves, LabelsAreLabels DEF Ended, At
    <3> QED BY <3>1
  <2>2. CASE Leave(w, "catch", {})
    BY <1>1, <2>2, LeaveMoves, LabelsAreLabels
  <2>3. CASE Leave(w, "done", {"failed_terminal"})
    BY <1>1, <2>3, LeaveMoves, LabelsAreLabels DEF Ended, FailureStates
  <2> QED BY <1>6, <2>1, <2>2, <2>3 DEF Throw
<1> QED BY <1>3, <1>4, <1>5, <1>6

\* Where the label of a report comes from.
LEMMA ReportFrom ==
    ASSUME Typed, [Next]_vars, NEW w \in Deliverers, d'[w].pc \in {"others", "done"}
    PROVE  d'[w] = d[w] \/ Deny(w) \/ Finish(w) \/ Catch(w) \/ Throw(w) \/ DispatchOthers(w)
<1>1. CASE Invoke(w)
  <2> PICK r \in Runs : Becomes(w, [Idle EXCEPT !.pc = "claim", !.run = r])
    BY <1>1 DEF Invoke
  <2>1. d'[w].pc = "claim"
    BY DEF Becomes, Idle, Typed, LocalsTyped
  <2> QED BY <2>1
<1>2. CASE Claim(w) \/ ChooseSender(w)
  <2>1. PICK label : label \in {"route", "threw", "loadBots", "legacy"} /\ Goto(w, label)
    BY <1>2 DEF Claim, ChooseSender
  <2>2. d'[w].pc = label
    BY <1>2, <2>1, GotoMoves, LabelsAreLabels DEF Claim, ChooseSender, At, Caught, Ended
  <2> QED BY <2>1, <2>2
<1>3. CASE LoadBots(w)
  <2> DEFINE local == [d[w] EXCEPT !.pc = "custom", !.todo = Active]
  <2>1. d[w] \in Locals
    BY DEF Typed, LocalsTyped
  <2>2. local.pc = "custom" /\ Becomes(w, local)
    BY <1>3, <2>1 DEF Locals, LoadBots
  <2> HIDE DEF local
  <2>3. d'[w].pc = "custom"
    BY <2>2 DEF Becomes, Typed, LocalsTyped
  <2> QED BY <2>3
<1>4. CASE DispatchToBot(w) \/ EndCustom(w) \/ RefuseLegacy(w) \/ SendLegacy(w)
  BY <1>4, DispatchMoves, EndMoves, RefuseMoves, LegacyMoves DEF Posted
<1>5. CASE Crash(w)
  <2>1. d'[w].pc = "crashed"
    BY <1>5, GotoMoves, LabelsAreLabels DEF Crash, Ended
  <2> QED BY <2>1
<1> QED BY <1>1, <1>2, <1>3, <1>4, <1>5, OwnMoves DEF Step

\* A row that is final stays so.
LEMMA FinalStays ==
    ASSUME Typed, [Next]_vars, NEW r \in Runs, tg[r].status \in Final
    PROVE  tg'[r] = tg[r]
<1>1. ASSUME NEW w \in Deliverers, Claim(w) PROVE tg'[r] = tg[r]
  <2>1. /\ tg[Run(w)].status \in {"absent", "failed_retryable"}
        /\ \A q \in Runs : q # Run(w) => tg'[q] = tg[q]
    BY <1>1, ClaimHolds DEF Claimable
  <2>2. r # Run(w)
    BY <2>1 DEF Final
  <2> QED BY <2>1, <2>2
<1>2. ASSUME NEW w \in Deliverers, NEW status \in Statuses, OwnsRow(w), CloseRow(w, status)
      PROVE  tg'[r] = tg[r]
  <2>1. /\ tg[Run(w)].status = "processing"
        /\ \A q \in Runs : tg'[q] = tg[q] \/ q = Run(w)
    <3>1. \A q \in Runs : tg'[q] = tg[q] \/ q = Run(w)
      BY <1>2, CloseMoves
    <3> QED BY <1>2, <3>1 DEF OwnsRow
  <2>2. r # Run(w)
    BY <2>1 DEF Final
  <2> QED BY <2>1, <2>2
<1> QED BY <1>1, <1>2, RowsMove

\* The failures of a report only grow, and its row stays final.
LEMMA ReportedStays == ASSUME Typed, Chosen, Reported, [Next]_vars PROVE Reported'
<1> SUFFICES ASSUME NEW w \in Deliverers, d'[w].pc \in {"others", "done"}, d'[w].failures = {}
             PROVE  (tg[Run(w)].status \in Final)'
  BY DEF Reported
<1>1. CASE d'[w] = d[w]
  <2>1. tg[Run(w)].status \in Final /\ Run(w) \in Runs
    BY <1>1 DEF Reported, Typed, LocalsTyped, GoodLocal, Run
  <2> QED BY <1>1, <2>1, FinalStays DEF Run
<1>2. CASE Deny(w) \/ Finish(w) \/ Catch(w) \/ Throw(w)
  <2>1. tg'[Run(w)].status \in Final
    BY <1>2, ReportBegins
  <2>2. d[w].pc # "idle"
    BY <1>2, LabelsAreLabels DEF Deny, Finish, Catch, Throw, At
  <2>3. Run(w)' = Run(w)
    BY <1>2, <2>2, LeaveMoves, GotoMoves, LabelsAreLabels
    DEF Deny, Finish, Catch, Throw, Run, Ended, At
  <2> QED BY <2>1, <2>3
<1>3. CASE DispatchOthers(w)
  <2>1. PICK states : Leave(w, "done", states)
    BY <1>3 DEF DispatchOthers
  <2>2. d[w].failures \subseteq d'[w].failures /\ d'[w].run = d[w].run /\ d[w].pc = "others"
    BY <1>3, <2>1, LeaveMoves, LabelsAreLabels DEF DispatchOthers, At, Ended
  <2>3. tg[Run(w)].status \in Final /\ tg' = tg
    BY <1>3, <2>2 DEF Reported, DispatchOthers
  <2> QED BY <2>2, <2>3 DEF Run
<1> QED BY <1>1, <1>2, <1>3, ReportFrom

\* A delivery that reports no failure leaves the batch row in a successful final state.
THEOREM ReportsHold == Spec => []OkReportIsTrue
<1>1. Init => Chosen /\ Reported
  BY DEF Init, Chosen, Reported, Idle
<1>2. Typed /\ Chosen /\ Reported /\ [Next]_vars => Chosen' /\ Reported'
  BY ChosenStays, ReportedStays
<1>3. Reported => OkReportIsTrue
  BY DEF Reported, OkReportIsTrue, At, Final
<1> QED BY TypingHolds, <1>1, <1>2, <1>3, PTL DEF Spec

-----------------------------------------------------------------------------
(* The shared bot and the bots of the customer implement SendOnce *)

RowVerdicts == [r \in Runs |-> RowVerdict(r)]
JobVerdicts == [k \in Keys |-> JobVerdict(k)]

\* A job that is closed stays what it is, whatever dispatches it.
LEMMA DispatchKeepsClosed ==
    ASSUME NEW k, job[k] \in {"sent", "dead_letter"}, NEW attempt \in Dispatches(k)
    PROVE  attempt[1] = job[k] /\ attempt[2] = 0
BY DEF Dispatches

\* What may become of the copy and the verdict of one job in one step: n copies more, of a
\* job of which no copy was delivered, and a verdict that is kept or recorded for good.
JobStep(k, n) ==
    /\ n \in {0, 1} /\ custom'[k] = custom[k] + n /\ (n = 1 => custom[k] = 0)
    /\ \A j \in Keys \ {k} : custom'[j] = custom[j] /\ job'[j] = job[j]
    /\ \/ JobVerdict(k)' = JobVerdict(k)
       \/ /\ JobVerdict(k) = "open" /\ JobVerdict(k)' \in {"sent", "given_up"}
          /\ JobVerdict(k)' = "sent" => n = 1

\* Each of these is a step of SendOnce or changes nothing of it.
LEMMA JobStepRefines ==
    ASSUME Typed, BotsTyped', NEW k \in Keys, NEW n, JobStep(k, n)
    PROVE  [Own!Next]_<<JobVerdicts, custom>>
<1>1. custom \in [Keys -> Nat] /\ custom' \in [Keys -> Nat]
  BY DEF Typed, BotsTyped
<1>2. PICK v : v = JobVerdict(k)'
  OBVIOUS
<1>3. \A j \in Keys \ {k} : JobVerdict(j)' = JobVerdict(j)
  BY DEF JobStep, JobVerdict
<1>4. JobVerdicts' = [j \in Keys |-> IF j \in {k} THEN v ELSE JobVerdicts[j]]
  BY <1>2, <1>3 DEF JobVerdicts
<1>5. JobVerdicts[k] = JobVerdict(k) /\ JobVerdicts \in [Keys -> {JobVerdicts[j] : j \in Keys}]
  BY DEF JobVerdicts
<1>6. CASE n = 0
  <2>1. UNCHANGED custom
    BY <1>1, <1>6 DEF JobStep
  <2>2. CASE v = JobVerdict(k)
    <3>1. UNCHANGED JobVerdicts
      BY <1>2, <1>3, <2>2 DEF JobVerdicts
    <3> QED BY <2>1, <3>1
  <2>3. CASE v # JobVerdict(k)
    <3>1. JobVerdict(k) = "open" /\ v = "given_up"
      BY <1>2, <1>6, <2>3 DEF JobStep
    <3>2. Own!Close({k}, v)
      BY <1>4, <1>5, <2>1, <3>1 DEF Own!Close, JobVerdicts
    <3> QED BY <3>1, <3>2 DEF Own!Next
  <2> QED BY <2>2, <2>3
<1>7. CASE n = 1
  <2>1. custom[k] = 0 /\ custom' = [custom EXCEPT ![k] = 1]
    BY <1>1, <1>7 DEF JobStep
  <2>2. CASE v = JobVerdict(k)
    <3>1. UNCHANGED JobVerdicts
      BY <1>2, <1>3, <2>2 DEF JobVerdicts
    <3>2. Own!Accept(k)
      BY <2>1, <3>1 DEF Own!Accept, JobVerdicts
    <3> QED BY <3>2 DEF Own!Next
  <2>3. CASE v # JobVerdict(k)
    <3>1. JobVerdict(k) = "open" /\ v \in {"sent", "given_up"}
      BY <1>2, <2>3 DEF JobStep
    <3>2. JobVerdicts' = [JobVerdicts EXCEPT ![k] = v]
      BY <1>4, <1>5
    <3>3. Own!Settle(k, v)
      BY <1>5, <2>1, <3>1, <3>2 DEF Own!Settle, JobVerdicts
    <3> QED BY <3>1, <3>3 DEF Own!Next
  <2> QED BY <2>2, <2>3
<1> QED BY <1>6, <1>7 DEF JobStep

\* What a dispatch or the retry queue does to a job is such a step.
LEMMA JobsStep ==
    ASSUME Typed, Copies, [Next]_vars
    PROVE  UNCHANGED <<job, custom>> \/ \E k \in Keys, n \in {0, 1} : JobStep(k, n)
<1>1. ASSUME NEW w \in Deliverers, DispatchToBot(w)
      PROVE  \E k \in Keys, n \in {0, 1} : JobStep(k, n)
  <2>1. PICK b, attempt :
            /\ <<Run(w), b>> \in Keys /\ attempt \in Dispatches(<<Run(w), b>>)
            /\ AttemptJob(<<Run(w), b>>, attempt)
    BY <1>1, DispatchMoves
  <2>2. PICK k \in Keys : k = <<Run(w), b>>
    BY <2>1
  <2>3. attempt \in Dispatches(k) /\ AttemptJob(k, attempt)
    BY <2>1, <2>2
  <2>4. /\ attempt[1] \in JobStatuses /\ attempt[2] \in {0, 1}
        /\ attempt[1] # job[k] => attempt[1] \in {"sent", "failed", "sending", "dead_letter"}
        /\ attempt[2] = 1 => job[k] \in {"absent", "failed"}
        /\ attempt[1] = "sent" => job[k] = "sent" \/ attempt[2] = 1
    BY <2>3, DispatchOutcomes
  <2>5. /\ job'[k] = attempt[1] /\ custom'[k] = custom[k] + attempt[2]
        /\ \A j \in Keys \ {k} : job'[j] = job[j] /\ custom'[j] = custom[j]
    BY <2>3, <2>4, AttemptMoves
  <2>6. attempt[2] = 1 => custom[k] = 0
    BY <2>4 DEF Copies
  <2>7. job[k] \in {"sent", "dead_letter"} => job'[k] = job[k]
    BY <2>3, <2>5, DispatchKeepsClosed
  <2>8. JobStep(k, attempt[2])
    BY <2>4, <2>5, <2>6, <2>7 DEF JobStep, JobVerdict
  <2> QED BY <2>4, <2>8
<1>2. ASSUME NEW k \in Keys, RetryClaims(k) PROVE JobStep(k, 0)
  BY <1>2 DEF RetryClaims, JobStep, JobVerdict, Typed, BotsTyped
<1>3. ASSUME NEW k \in Keys, RetryAttempts(k) PROVE \E n \in {0, 1} : JobStep(k, n)
  <2>1. custom[k] = 0
    BY <1>3 DEF RetryAttempts, Copies
  <2>2. ASSUME NEW attempt \in Attempts, AttemptJob(k, attempt), job[k] = "sending"
        PROVE  \E n \in {0, 1} : JobStep(k, n)
    <3>1. /\ attempt[1] \in {"sent", "failed", "dead_letter", "sending"}
          /\ attempt[1] \in JobStatuses /\ attempt[2] \in {0, 1}
          /\ attempt[1] = "sent" => attempt[2] = 1
      BY AttemptOutcomes
    <3>2. /\ job'[k] = attempt[1] /\ custom'[k] = custom[k] + attempt[2]
          /\ \A j \in Keys \ {k} : job'[j] = job[j] /\ custom'[j] = custom[j]
      BY <2>2, <3>1, AttemptMoves
    <3>3. JobStep(k, attempt[2])
      BY <2>1, <2>2, <3>1, <3>2 DEF JobStep, JobVerdict
    <3> QED BY <3>1, <3>3
  <2>3. ASSUME NEW accepted \in {0, 1}, custom' = [custom EXCEPT ![k] = @ + accepted],
               UNCHANGED job
        PROVE  JobStep(k, accepted)
    BY <2>1, <2>3 DEF JobStep, JobVerdict, Typed, BotsTyped
  <2> QED BY <1>3, <2>2, <2>3 DEF RetryAttempts
<1>4. ASSUME NEW k \in Keys, RetrySweeps(k) PROVE JobStep(k, 0)
  BY <1>4 DEF RetrySweeps, JobStep, JobVerdict, Typed, BotsTyped
<1> QED
  BY <1>1, <1>2, <1>3, <1>4
  DEF Next, Step, vars, bots, Invoke, Claim, Deny, ChooseSender, LoadBots, EndCustom,
      RefuseLegacy, SendLegacy, Finish, Catch, DispatchOthers, Throw, Crash, RetrySettlesOthers,
      Bind, Disconnect

\* So the bots of the customer implement SendOnce, step by step.
LEMMA OwnRefines ==
    ASSUME Typed, Typed', Copies, [Next]_vars
    PROVE  [Own!Next]_<<JobVerdicts, custom>>
<1>1. CASE UNCHANGED <<job, custom>>
  <2>1. UNCHANGED JobVerdicts
    BY <1>1 DEF JobVerdicts, JobVerdict
  <2> QED BY <1>1, <2>1
<1>2. ASSUME NEW k \in Keys, NEW n \in {0, 1}, JobStep(k, n)
      PROVE  [Own!Next]_<<JobVerdicts, custom>>
  <2>1. BotsTyped'
    BY DEF Typed
  <2> QED BY <1>2, <2>1, JobStepRefines
<1> QED BY <1>1, <1>2, JobsStep

\* A row that is closed, or kept open, without a post.
LEMMA RowCloses ==
    ASSUME UNCHANGED sends, NEW r \in Runs, \A q \in Runs \ {r} : tg'[q] = tg[q],
           tg[r].status \in {"absent", "processing", "failed_retryable"}
    PROVE  [Shared!Next]_<<RowVerdicts, sends>>
<1>1. PICK v : v = RowVerdict(r)'
  OBVIOUS
<1>2. RowVerdict(r) = "open" /\ \A q \in Runs \ {r} : RowVerdict(q)' = RowVerdict(q)
  BY DEF RowVerdict
<1>3. CASE v = "open"
  <2>1. UNCHANGED RowVerdicts
    BY <1>1, <1>2, <1>3 DEF RowVerdicts
  <2> QED BY <2>1
<1>4. CASE v # "open"
  <2>1. v \in {"sent", "given_up"} /\ (v = "sent" => sends[r] = 1)
    BY <1>1, <1>4 DEF RowVerdict
  <2>2. RowVerdicts' = [q \in Runs |-> IF q \in {r} THEN v ELSE RowVerdicts[q]]
    BY <1>1, <1>2 DEF RowVerdicts
  <2>3. RowVerdicts[r] = "open"
    BY <1>2 DEF RowVerdicts
  <2>4. Shared!Close({r}, v)
    BY <2>1, <2>2, <2>3 DEF Shared!Close, RowVerdicts
  <2> QED BY <2>1, <2>4 DEF Shared!Next
<1> QED BY <1>3, <1>4

\* The shared bot implements SendOnce, step by step: it posts for the one who holds the row,
\* and a row that is final has no such deliverer.
LEMMA SharedRefines ==
    ASSUME Typed, SharedTyped', Held, Counted, [Next]_vars
    PROVE  [Shared!Next]_<<RowVerdicts, sends>>
<1>1. ASSUME NEW w \in Deliverers, SendLegacy(w) PROVE [Shared!Next]_<<RowVerdicts, sends>>
  <2>1. PICK r \in Runs : r = Run(w)
    BY <1>1, LegacyMoves
  <2>2. /\ sends[r] = (IF d[w].posts = 0 THEN 0 ELSE 1) /\ sends'[r] = 1
        /\ tg[r].status = "processing"
    BY <1>1, <2>1, PostCounts
  <2>3. UNCHANGED tg /\ \A q \in Runs \ {r} : sends'[q] = sends[q]
    BY <1>1, <2>1, LegacyMoves
  <2>4. UNCHANGED RowVerdicts
    <3>1. RowVerdict(r) = "open" /\ RowVerdict(r)' = "open"
      BY <2>2, <2>3 DEF RowVerdict
    <3>2. \A q \in Runs \ {r} : RowVerdict(q)' = RowVerdict(q)
      BY <2>3 DEF RowVerdict
    <3> QED BY <3>1, <3>2 DEF RowVerdicts
  <2>5. sends' = [sends EXCEPT ![r] = 1]
    BY <2>2, <2>3 DEF Typed, SharedTyped
  <2>6. CASE sends[r] = 0
    <3>1. Shared!Accept(r)
      BY <2>4, <2>5, <2>6 DEF Shared!Accept, RowVerdicts
    <3> QED BY <3>1 DEF Shared!Next
  <2>7. CASE sends[r] = 1
    <3>1. UNCHANGED sends
      BY <2>5, <2>7 DEF Typed, SharedTyped
    <3> QED BY <2>4, <3>1
  <2> QED BY <2>2, <2>6, <2>7
<1>2. ASSUME UNCHANGED sends PROVE [Shared!Next]_<<RowVerdicts, sends>>
  <2>1. CASE UNCHANGED tg
    <3>1. UNCHANGED RowVerdicts
      BY <1>2, <2>1 DEF RowVerdicts, RowVerdict
    <3> QED BY <1>2, <3>1
  <2>2. ASSUME NEW w \in Deliverers, Claim(w) PROVE [Shared!Next]_<<RowVerdicts, sends>>
    <3>1. /\ Run(w) \in Runs /\ tg[Run(w)].status \in {"absent", "failed_retryable"}
          /\ \A q \in Runs \ {Run(w)} : tg'[q] = tg[q]
      BY <2>2, ClaimHolds DEF Claimable
    <3>2. PICK r \in Runs : r = Run(w)
      BY <3>1
    <3> QED BY <1>2, <3>1, <3>2, RowCloses
  <2>3. ASSUME NEW w \in Deliverers, NEW status \in Statuses, Closes(w, status), OwnsRow(w),
               CloseRow(w, status)
        PROVE  [Shared!Next]_<<RowVerdicts, sends>>
    <3>1. Run(w) \in Runs
      BY <2>3 DEF Closes, Run, Typed, LocalsTyped, GoodLocal
    <3>2. tg[Run(w)].status = "processing"
      BY <2>3 DEF OwnsRow
    <3>3. \A q \in Runs \ {Run(w)} : tg'[q] = tg[q]
      BY <2>3, CloseMoves
    <3>4. PICK r \in Runs : r = Run(w)
      BY <3>1
    <3> QED BY <1>2, <3>2, <3>3, <3>4, RowCloses
  <2> QED BY <2>1, <2>2, <2>3, RowsMove
<1> QED BY <1>1, <1>2, LegacyChanges

\* The attempts of the shared bot and the jobs of every bot of the customer implement
\* SendOnce, for any number of deliverers, runs, bots and posts: one attempt, one copy of a
\* job, and verdicts that are true and final.
THEOREM BotsImplementSendOnce == Spec => BotsSendOnce
<1>1. Init => Shared!Init /\ Own!Init
  <2> SUFFICES ASSUME Init PROVE Shared!Init /\ Own!Init
    OBVIOUS
  <2>1. \A r \in Runs : RowVerdict(r) = "open"
    BY DEF Init, RowVerdict
  <2>2. \A k \in Keys : JobVerdict(k) = "open"
    BY DEF Init, JobVerdict
  <2> QED BY <2>1, <2>2 DEF Init, Shared!Init, Own!Init
<1>2. Typed /\ Typed' /\ Held /\ Copies /\ Counted /\ [Next]_vars
      => [Shared!Next]_<<RowVerdicts, sends>> /\ [Own!Next]_<<JobVerdicts, custom>>
  BY SharedRefines, OwnRefines DEF Typed
<1> QED BY <1>1, <1>2, CountsHold, PTL
    DEF Spec, BotsSendOnce, Shared!Spec, Own!Spec, RowVerdicts, JobVerdicts
=============================================================================
