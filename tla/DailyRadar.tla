----------------------------- MODULE DailyRadar -----------------------------
(***************************************************************************)
(* One run date of the Daily Radar scheduler: the run lease in             *)
(* daily_radar_run_state, the profile leases in                            *)
(* daily_radar_profile_run_state, the trigger that fences the profile      *)
(* leases of a replaced owner, and the POST handlers that work under them. *)
(*                                                                         *)
(* A worker is one granted invocation of POST /api/cron/daily-radar.  Each *)
(* granted invocation draws a fresh lease id, so the worker is its lease.  *)
(* A denied invocation changes no state and is a stuttering step.  Every   *)
(* SQL statement is one step; a worker may crash between any two of them,  *)
(* and any statement or external call may throw.  Clocks are two flags of  *)
(* the run row: stale (updated_at is more than two hours old) and due      *)
(* (next_retry_at has passed).                                             *)
(***************************************************************************)
EXTENDS Integers, FiniteSets

CONSTANTS
    Workers,            \* granted invocations, and the lease ids they draw
    Profiles,           \* client profiles that may be eligible on this date
    MaxDailyAttempts,   \* MAX_DAILY_ATTEMPTS
    MaxProfileAttempts, \* MAX_PROFILE_ATTEMPTS
    None                \* no lease, no digest run, no profile

ASSUME NoneIsNothing == None \notin Workers /\ None \notin Profiles
\* The code sets both limits to 3; the proofs need only that a profile may be
\* tried as often as the run.
ASSUME AttemptLimits ==
    /\ MaxDailyAttempts \in Nat /\ MaxDailyAttempts > 0
    /\ MaxProfileAttempts \in Nat /\ MaxDailyAttempts <= MaxProfileAttempts

VARIABLES
    run,        \* the daily_radar_run_state row of the date
    prof,       \* the daily_radar_profile_run_state row of each profile
    delivered,  \* the digest runs (named by their creator) a delivery was started with
    h,          \* the local state of each handler
    reply       \* the reason each handler answered with

vars == <<run, prof, delivered, h, reply>>

RunStatuses == {"absent", "running", "completed", "partial", "failed", "terminal"}
ProfileStatuses == {"absent", "running", "completed", "failed_retryable", "failed_terminal"}
Ended == {"done", "abandoned", "crashed"}
InRound == {"digest", "attach", "enrich", "deliver", "finishProfile"}
Awaiting == {"sources", "heartbeat", "temporal", "eligibility", "nextProfile",
             "claimProfile", "claiming", "finishRun"}
Labels == {"idle", "profileCatch", "catch"} \cup Ended \cup InRound \cup Awaiting

RunRows == [status : RunStatuses, lease : Workers \cup {None},
            attempt : 0..MaxDailyAttempts, stale : BOOLEAN, due : BOOLEAN]
\* claim is history, no column and read by no action: whether the handler that last
\* claimed the row still owned the run when its claim was written.
ProfileRows == [status : ProfileStatuses, lease : Workers \cup {None},
                attempt : 0..MaxProfileAttempts, digest : Workers \cup {None},
                claim : {"timely", "late"}]

\* The local state of a handler: attempt is lease.attemptCount, failed the phases
\* that failed, todo the eligible profiles still to visit, cur the profile of the
\* round, tries and digest the profile lease, outcome the profile status and
\* final the run status about to be persisted.
Locals == [pc : Labels, attempt : 0..MaxDailyAttempts,
           failed : SUBSET {"ingest", "temporal"}, todo : SUBSET Profiles,
           cur : Profiles \cup {None}, tries : 0..MaxProfileAttempts,
           digest : Workers \cup {None}, outcome : ProfileStatuses, final : RunStatuses]

\* What deliverCandidatesForRun reports of the channels that failed.
FailureStates == {"failed_retryable", "failed_terminal", "processing"}

\* A handler before its claim.
Idle == [pc |-> "idle", attempt |-> 0, failed |-> {}, todo |-> {}, cur |-> None,
         tries |-> 0, digest |-> None, outcome |-> "absent", final |-> "absent"]

Init ==
    /\ run = [status |-> "absent", lease |-> None, attempt |-> 0,
              stale |-> FALSE, due |-> FALSE]
    /\ prof = [p \in Profiles |-> [status |-> "absent", lease |-> None,
                                   attempt |-> 0, digest |-> None, claim |-> "timely"]]
    /\ delivered = [p \in Profiles |-> {}]
    /\ h = [w \in Workers |-> Idle]
    /\ reply = [w \in Workers |-> "none"]

At(w, label) == h[w].pc = label
Becomes(w, local) == h' = [h EXCEPT ![w] = local]
Goto(w, label) == Becomes(w, [h[w] EXCEPT !.pc = label])

\* The round's locals go out of scope, and with the handler its other locals.
OutOfRound(local) == [local EXCEPT !.cur = None, !.tries = 0, !.digest = None,
                                   !.outcome = "absent"]
Unwound(w) == [OutOfRound(h[w]) EXCEPT !.pc = "catch", !.todo = {}, !.failed = {},
                                       !.final = "absent"]
Gone(label) == [Idle EXCEPT !.pc = label]

-----------------------------------------------------------------------------
(* The run lease *)

\* The ON CONFLICT condition of claimDailyRadarRun.
RunClaimable ==
    \/ run.status = "absent"
    \/ /\ run.attempt < MaxDailyAttempts
       /\ \/ run.status \in {"partial", "failed"} /\ run.due
          \/ run.status = "running" /\ run.stale

\* WHERE run_date = $1 AND lease_id = $2 AND status = 'running'
OwnsRun(w) == run.lease = w /\ run.status = "running"

\* What the trigger leaves of the profile rows when old is replaced as lease_id.
NotFenced(old) == prof
FencedWithoutDigest(old) ==
    [p \in Profiles |->
        IF prof[p].status = "running" /\ prof[p].lease = old
        THEN [prof[p] EXCEPT !.status = "failed_retryable", !.digest = None] ELSE prof[p]]
Fenced(old) ==
    [p \in Profiles |->
        IF prof[p].status = "running" /\ prof[p].lease = old
        THEN [prof[p] EXCEPT !.status = "failed_retryable"] ELSE prof[p]]

ClaimRun(w) ==
    /\ At(w, "idle")
    /\ RunClaimable
    /\ run' = [status |-> "running", lease |-> w, attempt |-> run.attempt + 1,
               stale |-> FALSE, due |-> FALSE]
    /\ prof' = Fenced(run.lease)
    /\ Becomes(w, [Idle EXCEPT !.pc = "sources", !.attempt = run.attempt + 1])
    /\ UNCHANGED <<delivered, reply>>

\* A guarded UPDATE of the run row that refreshes updated_at: the owner goes on
\* as next, anyone else throws to the outer catch.
RefreshRun(w, next) ==
    \/ /\ OwnsRun(w)
       /\ run' = [run EXCEPT !.stale = FALSE]
       /\ Becomes(w, next)
    \/ /\ ~OwnsRun(w)
       /\ Becomes(w, Unwound(w))
       /\ UNCHANGED run

\* runScheduledSourceRefresh, then recordDailyRadarSourceRefreshResult.
RefreshSources(w) ==
    /\ At(w, "sources")
    /\ \E bad \in SUBSET {"ingest"} :
          RefreshRun(w, [h[w] EXCEPT !.pc = "heartbeat", !.failed = bad])
    /\ UNCHANGED <<prof, delivered, reply>>

HeartbeatBeforeTemporal(w) ==
    /\ At(w, "heartbeat")
    /\ RefreshRun(w, [h[w] EXCEPT !.pc = "temporal"])
    /\ UNCHANGED <<prof, delivered, reply>>

\* runSourceTemporalIntelligence, then recordDailyRadarTemporalResult.
RecordTemporal(w) ==
    /\ At(w, "temporal")
    /\ \E bad \in SUBSET {"temporal"} :
          RefreshRun(w, [h[w] EXCEPT !.pc = "eligibility", !.failed = @ \cup bad])
    /\ UNCHANGED <<prof, delivered, reply>>

\* Which profiles are eligible may differ from one attempt to the next; failed
\* sources do not count when none is.
LoadEligibleProfiles(w) ==
    /\ At(w, "eligibility")
    /\ \E eligible \in SUBSET Profiles :
          Becomes(w, [h[w] EXCEPT !.pc = "nextProfile", !.todo = eligible,
                        !.failed = IF eligible = {} THEN @ \ {"ingest"} ELSE @])
    /\ UNCHANGED <<run, prof, delivered, reply>>

-----------------------------------------------------------------------------
(* The profile leases: one round of the loop in generateAndDeliverDigests *)

\* The code visits the profiles by id; here a round takes any that is left.
HeartbeatForProfile(w) ==
    /\ At(w, "nextProfile")
    /\ \E p \in h[w].todo :
          RefreshRun(w, [h[w] EXCEPT !.pc = "claimProfile", !.cur = p, !.todo = @ \ {p}])
    /\ UNCHANGED <<prof, delivered, reply>>

NextRound(w) == Becomes(w, [OutOfRound(h[w]) EXCEPT !.pc = "nextProfile"])

\* claimDailyRadarProfile is one statement, but both its EXISTS see the run row as
\* it was when the statement began, and lock nothing a takeover waits for: the run
\* may change hands before the profile row is written.
BeginClaim(w) ==
    /\ At(w, "claimProfile")
    /\ OwnsRun(w)
    /\ Goto(w, "claiming")
    /\ UNCHANGED <<run, prof, delivered, reply>>

\* The INSERT and its ON CONFLICT condition test the latest version of the row.
ProfileClaimable(p) ==
    \/ prof[p].status = "absent"
    \/ /\ prof[p].status = "failed_retryable"
       /\ prof[p].attempt < MaxProfileAttempts

\* The claim keeps the digest run of an earlier attempt.  If it commits and its
\* answer is lost, the outer catch runs: the statement is outside the round's try.
ClaimProfile(w) ==
    LET p == h[w].cur IN
    /\ At(w, "claiming")
    /\ ProfileClaimable(p)
    /\ prof' = [prof EXCEPT ![p] = [@ EXCEPT !.status = "running", !.lease = w,
                                             !.attempt = prof[p].attempt + 1,
                                             !.claim = IF OwnsRun(w) THEN "timely" ELSE "late"]]
    /\ \/ Becomes(w, [h[w] EXCEPT !.pc = IF prof[p].digest = None THEN "digest" ELSE "enrich",
                                  !.tries = prof[p].attempt + 1,
                                  !.digest = prof[p].digest])
       \/ Becomes(w, Unwound(w))
    /\ UNCHANGED <<run, delivered, reply>>

SkipProfile(w) ==
    /\ \/ At(w, "claimProfile") /\ ~OwnsRun(w)
       \/ At(w, "claiming") /\ ~ProfileClaimable(h[w].cur)
    /\ NextRound(w)
    /\ UNCHANGED <<run, prof, delivered, reply>>

\* runDigestForClientProfile commits a digest run of its own; a handler makes at
\* most one for a profile, so the run is named by the handler.
RunDigest(w) ==
    /\ At(w, "digest")
    /\ Becomes(w, [h[w] EXCEPT !.pc = "attach", !.digest = w])
    /\ UNCHANGED <<run, prof, delivered, reply>>

\* WHERE ... AND lease_id = $3 AND status = 'running' on the profile row
OwnsProfile(w, p) == prof[p].lease = w /\ prof[p].status = "running"

AttachDigestRun(w) ==
    LET p == h[w].cur IN
    /\ At(w, "attach")
    /\ \/ /\ OwnsProfile(w, p)
          /\ prof' = [prof EXCEPT ![p].digest = h[w].digest]
          /\ Goto(w, "enrich")
       \/ /\ ~OwnsProfile(w, p)
          /\ Goto(w, "profileCatch")
          /\ UNCHANGED prof
    /\ UNCHANGED <<run, delivered, reply>>

\* enrichRunCandidates may fail without effect; then deliverCandidatesForRun is
\* entered, which looks at neither lease.
StartDelivery(w) ==
    /\ At(w, "enrich")
    /\ delivered' = [delivered EXCEPT ![h[w].cur] = @ \cup {h[w].digest}]
    /\ Goto(w, "deliver")
    /\ UNCHANGED <<run, prof, reply>>

\* The profile status that follows from the states of the failed channels.
DeliveryOutcome(tries, failures) ==
    IF failures = {} THEN "completed"
    ELSE IF \/ tries >= MaxProfileAttempts
            \/ failures \cap {"failed_terminal", "processing"} # {}
         THEN "failed_terminal" ELSE "failed_retryable"

EndDelivery(w) ==
    /\ At(w, "deliver")
    /\ \E failures \in SUBSET FailureStates :
          Becomes(w, [h[w] EXCEPT !.pc = "finishProfile",
                                  !.outcome = DeliveryOutcome(h[w].tries, failures)])
    /\ UNCHANGED <<run, prof, delivered, reply>>

FinishProfile(w) ==
    LET p == h[w].cur IN
    /\ At(w, "finishProfile")
    /\ \/ /\ OwnsProfile(w, p)
          /\ prof' = [prof EXCEPT ![p].status = h[w].outcome]
          /\ NextRound(w)
       \/ /\ ~OwnsProfile(w, p)
          /\ Goto(w, "profileCatch")
          /\ UNCHANGED prof
    /\ UNCHANGED <<run, delivered, reply>>

\* The status the round's catch persists, and finishDailyRadarProfile's limit.
CaughtStatus(tries) ==
    IF tries >= MaxProfileAttempts THEN "failed_terminal" ELSE "failed_retryable"

\* The catch of the round: the failure is persisted if the profile is still
\* owned and the statement succeeds; either way the loop goes on.
CatchProfile(w) ==
    LET p == h[w].cur IN
    /\ At(w, "profileCatch")
    /\ \/ /\ OwnsProfile(w, p)
          /\ prof' = [prof EXCEPT ![p].status = CaughtStatus(h[w].tries)]
       \/ UNCHANGED prof
    /\ NextRound(w)
    /\ UNCHANGED <<run, delivered, reply>>

-----------------------------------------------------------------------------
(* The end of an attempt *)

\* profilesRetryable, profilesTerminal and profilesRunning, as far as they are
\* compared with 0 (summarizeDailyRadarProfiles).
Some(status) == \E p \in Profiles : prof[p].status = status

AllOkWhileRunning(w) ==
    h[w].failed = {} /\ ~Some("failed_retryable") /\ ~Some("failed_terminal")
AllOk(w) ==
    /\ h[w].failed = {}
    /\ ~Some("failed_retryable") /\ ~Some("failed_terminal") /\ ~Some("running")

\* resolveDailyRadarFinalStatus
FinalStatus(w) ==
    IF AllOk(w) THEN "completed"
    ELSE IF \/ h[w].attempt >= MaxDailyAttempts
            \/ Some("failed_terminal") /\ ~Some("failed_retryable") /\ ~Some("running")
         THEN "terminal" ELSE "partial"

SummarizeProfiles(w) ==
    /\ At(w, "nextProfile") /\ h[w].todo = {}
    /\ Becomes(w, [h[w] EXCEPT !.pc = "finishRun", !.final = FinalStatus(w), !.failed = {}])
    /\ UNCHANGED <<run, prof, delivered, reply>>

\* persistedStatus of finishDailyRadarRun
PersistedAsGiven(w, status) == status
Persisted(w, status) ==
    IF status # "completed" /\ h[w].attempt >= MaxDailyAttempts THEN "terminal" ELSE status

\* The row the guarded UPDATE leaves; next_retry_at lies in the future.
Finished(w, status) == [run EXCEPT !.status = Persisted(w, status),
                                   !.stale = FALSE, !.due = FALSE]

Answer(w, label, reason) ==
    /\ Becomes(w, Gone(label))
    /\ reply' = [reply EXCEPT ![w] = reason]

FinishRunUnchecked(w) ==
    /\ At(w, "finishRun")
    /\ run' = IF OwnsRun(w) THEN Finished(w, h[w].final) ELSE run
    /\ Answer(w, "done", h[w].final)
    /\ UNCHANGED <<prof, delivered>>
FinishRun(w) ==
    /\ At(w, "finishRun")
    /\ \/ /\ OwnsRun(w)
          /\ run' = Finished(w, h[w].final)
          /\ \/ Answer(w, "done", h[w].final)
             \/ Becomes(w, Unwound(w)) /\ UNCHANGED reply    \* the answer is lost
       \/ /\ ~OwnsRun(w)
          /\ Becomes(w, Unwound(w))
          /\ UNCHANGED <<run, reply>>
    /\ UNCHANGED <<prof, delivered>>

CaughtReason(w) == IF h[w].attempt >= MaxDailyAttempts THEN "terminal" ELSE "failed"

\* The outer catch persists the failure if the run is still owned.
CatchRunUnfinished(w) ==
    /\ At(w, "catch")
    /\ Answer(w, "done", CaughtReason(w))
    /\ UNCHANGED <<run, prof, delivered>>
CatchRun(w) ==
    /\ At(w, "catch")
    /\ run' = IF OwnsRun(w) THEN Finished(w, "failed") ELSE run
    /\ Answer(w, "done", CaughtReason(w))
    /\ UNCHANGED <<prof, delivered>>

\* The statement of the outer catch throws: that is swallowed, and the handler
\* answers and abandons the row as it is.
AbandonRun(w) ==
    /\ At(w, "catch")
    /\ Answer(w, "abandoned", CaughtReason(w))
    /\ UNCHANGED <<run, prof, delivered>>

-----------------------------------------------------------------------------
(* Faults and time *)

\* Any await may reject, with or without the effect of the step: inside the try
\* of a round the round's catch runs, elsewhere the outer catch.
Throw(w) ==
    /\ \/ h[w].pc \in InRound /\ Goto(w, "profileCatch")
       \/ h[w].pc \in Awaiting /\ Becomes(w, Unwound(w))
    /\ UNCHANGED <<run, prof, delivered, reply>>

\* The process dies and its locals with it.
Crash(w) ==
    /\ h[w].pc \notin Ended \cup {"idle"}
    /\ Becomes(w, Gone("crashed"))
    /\ UNCHANGED <<run, prof, delivered, reply>>

TwoHoursPass ==
    /\ run.status = "running" /\ ~run.stale
    /\ run' = [run EXCEPT !.stale = TRUE]
    /\ UNCHANGED <<prof, delivered, h, reply>>

BackoffElapses ==
    /\ run.status \in {"partial", "failed"} /\ ~run.due
    /\ run' = [run EXCEPT !.due = TRUE]
    /\ UNCHANGED <<prof, delivered, h, reply>>

-----------------------------------------------------------------------------

\* What a handler does by itself, faults left out.
Step(w) ==
    \/ RefreshSources(w) \/ HeartbeatBeforeTemporal(w) \/ RecordTemporal(w)
    \/ LoadEligibleProfiles(w)
    \/ HeartbeatForProfile(w) \/ BeginClaim(w) \/ ClaimProfile(w) \/ SkipProfile(w)
    \/ RunDigest(w) \/ AttachDigestRun(w) \/ StartDelivery(w) \/ EndDelivery(w)
    \/ FinishProfile(w) \/ CatchProfile(w)
    \/ SummarizeProfiles(w) \/ FinishRun(w) \/ CatchRun(w)

Next ==
    \/ \E w \in Workers : ClaimRun(w) \/ Step(w) \/ AbandonRun(w) \/ Throw(w) \/ Crash(w)
    \/ TwoHoursPass \/ BackoffElapses

Spec == Init /\ [][Next]_vars

\* A handler that has not crashed is run on by its process; nothing is assumed of
\* the clock that triggers handlers, of the faults, or of time.
FairSpec == Spec /\ \A w \in Workers : WF_vars(Step(w))

-----------------------------------------------------------------------------
(* Properties *)

\* Every variable keeps its type: in particular no attempt count of the run or
\* of a profile passes its limit (claimDailyRadarRun, claimDailyRadarProfile).
TypeOK ==
    /\ run \in RunRows
    /\ prof \in [Profiles -> ProfileRows]
    /\ delivered \in [Profiles -> SUBSET Workers]
    /\ h \in [Workers -> Locals]
    /\ reply \in [Workers -> RunStatuses \cup {"none"}]

Late(p) == prof[p].claim = "late"

\* A takeover leaves no profile locked by the owner it replaced, however far that
\* owner got (the fence_stale_daily_radar_profile_runs trigger): a row is 'running'
\* under the lease of the run row, or its claim had read the run before the takeover
\* and was written after it, and an owner has one such claim at most.
RunningProfilesAreFenced ==
    /\ \A p \in Profiles :
          prof[p].status = "running" => prof[p].lease = run.lease \/ Late(p)
    /\ \A p, q \in Profiles :
          Late(p) /\ Late(q) /\ prof[p].lease = prof[q].lease => p = q

\* What the statuses call retryable can be retried: a 'partial' or 'failed' run
\* and a 'failed_retryable' profile have an attempt left, whoever wrote the
\* status, the trigger included (finishDailyRadarRun, finishDailyRadarProfile).
RetryableHasAttemptLeft ==
    /\ run.status \in {"partial", "failed"} => run.attempt < MaxDailyAttempts
    /\ \A p \in Profiles :
          prof[p].status = "failed_retryable" => prof[p].attempt < MaxProfileAttempts

\* A run that is recorded as completed leaves no profile of the date failed or
\* in flight, although the summary is read one statement before it is used
\* (summarizeDailyRadarProfiles, finishDailyRadarRun); only the claim of a replaced
\* owner that was under way at the takeover may still open one afterwards.
CompletedRunHasNoOpenProfile ==
    run.status = "completed" =>
        \A p \in Profiles : Late(p) \/ prof[p].status \in {"absent", "completed"}

\* However often a profile is retried and taken over, and although neither lease
\* is looked at during delivery, all deliveries of a date send one digest run,
\* the one its row names (attachDailyRadarProfileDigestRun).  A digest run whose
\* handler dies before it attaches it is made again, but never delivered.
OneDigestRunDelivered ==
    \A p \in Profiles : delivered[p] \subseteq {prof[p].digest}

\* A handler that answered "completed" left a completed run behind, also when it
\* was replaced between its summary and its last statement (finishDailyRadarRun).
CompletedReplyIsDurable ==
    \A w \in Workers : reply[w] = "completed" => run.status = "completed"

\* Completed and terminal are final: no later attempt, and no late statement of a
\* replaced owner, rewrites such a run or profile row.
FinalRowsStay ==
    [][/\ run.status \in {"completed", "terminal"} => run' = run
       /\ \A p \in Profiles :
             prof[p].status \in {"completed", "failed_terminal"} => prof'[p] = prof[p]]_vars

\* An owner that neither crashes nor abandons the row gives the run up: every path
\* through the loop and both catches ends in a statement that finishes the run.
NoAttemptHangs ==
    \A w \in Workers :
        OwnsRun(w) ~> (~OwnsRun(w) \/ h[w].pc \in {"crashed", "abandoned"})
=============================================================================
