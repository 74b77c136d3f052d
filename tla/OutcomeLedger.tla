---------------------------- MODULE OutcomeLedger ----------------------------
(***************************************************************************)
(* What becomes of one hiring episode in one client profile: opportunities *)
(* are built for it by the versions of the scoring, users and jobs record  *)
(* outcome events about the current one, and each opportunity has a        *)
(* projection of its events, which the queues read.                        *)
(*                                                                         *)
(* An event, with its projection and the older statuses written along with *)
(* it, is one transaction under the lock of the opportunity, and one step; *)
(* a build of the pair is too.  When its event is refused, the build is    *)
(* rolled back: no step.  The job that wakes and expires opportunities     *)
(* looks for those that are due, and then changes them: two steps, with    *)
(* everybody else between.                                                 *)
(*                                                                         *)
(* Times are ticks.  Of the events, "shown" stands for shown, opened and   *)
(* exported, and "meeting_cancelled" also for meeting_no_show; of stages   *)
(* and statuses, "new" stands for new and review.  The code treats these   *)
(* alike everywhere.                                                       *)
(*                                                                         *)
(* The names are kept apart from those of CrmBridge, which records what    *)
(* the CRM reports, so that one module may extend both.                    *)
(***************************************************************************)
EXTENDS Integers, Sequences, SequencesExt, FiniteSetsExt

CONSTANTS
    Versions,       \* versions of the scoring; each has one opportunity at most
    MaxEvents,      \* events on the opportunity of each version
    MaxTotal,       \* events on all of them
    MaxTime,        \* the last tick
    NoProjection    \* the projection of an opportunity without events

ASSUME BoundsAreNatural == MaxEvents \in [Versions -> Nat] /\ MaxTotal \in Nat /\ MaxTime \in Nat \ {0}

VARIABLES
    opp,        \* the row of opportunities of each version
    events,     \* opportunity_outcome_events of each, by id
    proj,       \* opportunity_outcome_state of each
    episode,    \* the client_episode_state row of the pair
    hiring,     \* the hiring episode is active
    job,        \* the expiry job
    now

outcomeVars == <<opp, events, proj, episode, hiring, job, now>>

Ticks == 0..MaxTime
Stages == {"new", "accepted", "dismissed", "contacted", "replied", "meeting",
           "proposal", "won", "lost"}
Stepping == Stages \ {"new"}                         \* COMMERCIAL_STAGE_EVENTS
Closing == {"meeting_completed", "meeting_cancelled"}
Meetings == {"meeting"} \cup Closing                            \* MEETING_LIFECYCLE_EVENTS
Commercial == Stepping \cup Closing
Types == Commercial \cup {"shown", "snoozed", "resumed", "reverted"}
Decided == {"accepted", "dismissed", "contacted"}
Statuses == Decided \cup {"new", "snoozed", "expired"}

NoEpisode == [status |-> "none", until |-> 0]
NoJob == [due |-> [v \in Versions |-> 0], asleep |-> {}]
Unbuilt == [life |-> "absent", status |-> "new", until |-> 0, valid |-> 0]

OutcomeInit ==
    /\ opp = [v \in Versions |-> Unbuilt]
    /\ events = [v \in Versions |-> <<>>]
    /\ proj = [v \in Versions |-> NoProjection]
    /\ episode \in {NoEpisode, [status |-> "contacted", until |-> 0]}
    /\ hiring = TRUE
    /\ job = NoJob
    /\ now = 0

Current(v) == opp[v].life = "current"
HasRoom(v) == Len(events[v]) < MaxEvents[v] /\ MapThenSumSet(LAMBDA u : Len(events[u]), Versions) < MaxTotal

-----------------------------------------------------------------------------
(* The projection *)

\* What is known of an opportunity before its first event.
Fresh(stage) == [stage |-> stage, workflow |-> "active", until |-> 0, last |-> 0, lastAt |-> 0,
                 meeting |-> "none", meetingId |-> 0, meetingAt |-> 0, attempts |-> 0]

RescheduleMoves(e) == e.type \in Stepping
MovesStage(e) == e.type \in Stepping /\ ~(e.type = "meeting" /\ e.prev = "meeting")

\* reduceOutcomeProjection: the event at place i, on a projection or on none.
Reduced(p, e, i) ==
    LET q == IF p = NoProjection THEN Fresh(e.prev) ELSE p
        r == IF e.type = "snoozed" THEN [q EXCEPT !.workflow = "snoozed", !.until = e.until]
             ELSE IF e.type = "resumed" THEN [q EXCEPT !.workflow = "active", !.until = 0]
             ELSE IF MovesStage(e) THEN [q EXCEPT !.stage = e.new, !.last = i, !.lastAt = e.at]
             ELSE q
    IN CASE e.type = "meeting" ->
              [r EXCEPT !.meeting = "scheduled", !.meetingId = i, !.meetingAt = e.at, !.attempts = @ + 1]
         [] e.type \in Closing -> [r EXCEPT !.meeting = e.type, !.meetingAt = e.at]
         [] OTHER -> r

Reverted(l, i) == \E j \in DOMAIN l : l[j].type = "reverted" /\ l[j].reverts = i
Effective(l) == {i \in DOMAIN l : l[i].type # "reverted" /\ ~Reverted(l, i)}
Latest(l, S) == Max({0} \cup {i \in Effective(l) : l[i].type \in S})

\* rebuildOpportunityOutcomeProjection: the effective events are reduced again; the correction
\* itself, which comes last, moves nothing.
Reductions(l) ==
    LET after[n \in 0..Len(l)] ==
          IF n = 0 THEN NoProjection
          ELSE IF n \in Effective(l) THEN Reduced(after[n - 1], l[n], n) ELSE after[n - 1]
    IN after
Replay(l) ==
    LET p == Reductions(l)[Len(l)]
    IN IF p = NoProjection THEN Fresh(l[1].prev) ELSE p

\* The same by rebuild-opportunity-outcomes.mjs, which aggregates the effective events.
Rebuilt(l) ==
    LET stage == Latest(l, Stepping)
        stepped == Max({0} \cup {i \in Effective(l) : l[i].type \in Stepping /\ l[i].prev # l[i].new})
        flow == Latest(l, {"snoozed", "resumed"})
        met == Latest(l, Meetings)
        asleep == flow # 0 /\ l[flow].type = "snoozed"
    IN [stage |-> IF stage = 0 THEN l[1].prev ELSE l[stage].new,
        workflow |-> IF asleep THEN "snoozed" ELSE "active",
        until |-> IF asleep THEN l[flow].until ELSE 0,
        last |-> stepped,
        lastAt |-> IF stepped = 0 THEN 0 ELSE l[stepped].at,
        meeting |-> IF met = 0 THEN "none" ELSE IF l[met].type = "meeting" THEN "scheduled" ELSE l[met].type,
        meetingId |-> Latest(l, {"meeting"}),
        meetingAt |-> IF met = 0 THEN 0 ELSE l[met].at,
        attempts |-> Cardinality({i \in Effective(l) : l[i].type = "meeting"})]

-----------------------------------------------------------------------------
(* Recording an event *)

\* The stage, the workflow and the meeting before the event; "none" if the status has no stage.
StageOf(v) == IF proj[v] # NoProjection THEN proj[v].stage
              ELSE IF opp[v].status = "snoozed" THEN "new"
              ELSE IF opp[v].status \in Stages THEN opp[v].status ELSE "none"
WorkflowOf(v) == IF proj[v] # NoProjection THEN proj[v].workflow
                 ELSE IF opp[v].status = "snoozed" THEN "snoozed" ELSE "active"
MeetingOf(v) == IF proj[v] # NoProjection THEN proj[v].meeting ELSE "none"
LastAt(v) == IF proj[v] # NoProjection THEN proj[v].lastAt ELSE 0
MetAt(v) == IF proj[v] # NoProjection THEN proj[v].meetingAt ELSE 0

\* ALLOWED_STAGE_EVENTS
NextStages(stage) ==
    CASE stage = "new" -> {"accepted", "dismissed"}
      [] stage = "accepted" -> {"contacted", "dismissed"}
      [] stage = "contacted" -> {"replied", "lost"}
      [] stage = "replied" -> {"meeting", "lost"}
      [] stage = "meeting" -> {"proposal", "lost"}
      [] stage = "proposal" -> {"won", "lost"}
      [] OTHER -> {}

\* isOutcomeTransitionAllowed
Allowed(v, type) ==
    LET stage == StageOf(v)
        meeting == MeetingOf(v)
    IN CASE type = "shown" -> TRUE
         [] type = "resumed" -> WorkflowOf(v) = "snoozed"
         [] type \in {"snoozed", "reverted"} -> WorkflowOf(v) = "active"
         [] OTHER ->
              /\ WorkflowOf(v) = "active"
              /\ CASE type = "meeting" -> \/ stage = "replied" /\ meeting = "none"
                                          \/ stage = "meeting" /\ meeting = "meeting_cancelled"
                   [] type \in Closing -> stage = "meeting" /\ meeting = "scheduled"
                   [] type = "proposal" /\ stage = "meeting" -> meeting = "meeting_completed"
                   [] OTHER -> type \in NextStages(stage)

CorrectableInTheMiddle(v) ==
    {i \in DOMAIN events[v] : i \in Effective(events[v]) /\ events[v][i].type \in Commercial}
\* What a correction may take back: the latest commercial event that counts, if it came after the
\* latest correction and, when it moved the stage, is the one the projection stands on.
Correctable(v) ==
    LET l == events[v]
        i == Latest(l, Commercial)
    IN {j \in {i} \ {0} :
          /\ \A k \in DOMAIN l : l[k].type = "reverted" => k < j
          /\ l[j].prev # l[j].new => proj[v].last = j}

\* The types whose time is compared with that of the last meeting.
TouchesMeeting(v, e) ==
    e.type \in Meetings \/ (e.type = "reverted" /\ events[v][e.reverts].type \in Meetings)

\* The conditions of recordOpportunityOutcomeInTransaction.
Accepts(v, e) ==
    /\ Current(v)
    /\ e.type = "resumed" => opp[v].status # "expired" /\ hiring /\ e.at <= opp[v].valid
    /\ StageOf(v) # "none"
    /\ Allowed(v, e.type)
    /\ e.type = "reverted" => e.reverts \in Correctable(v)
    /\ e.type \in Stepping => LastAt(v) <= e.at
    /\ TouchesMeeting(v, e) => MetAt(v) <= e.at

NewStage(v, e) ==
    CASE e.type \in Stepping -> e.type
      [] e.type = "reverted" ->
           LET target == events[v][e.reverts]
           IN IF target.prev # target.new THEN target.prev ELSE StageOf(v)
      [] OTHER -> StageOf(v)

\* The event as it is inserted; its place among the events is its id.
Entry(v, e) == [e EXCEPT !.prev = StageOf(v), !.new = NewStage(v, e)]
Projected(v, e) ==
    IF e.type = "reverted" THEN Replay(Append(events[v], Entry(v, e)))
    ELSE Reduced(proj[v], Entry(v, e), Len(events[v]) + 1)

\* toLegacyOpportunityStatus, unless the opportunity is snoozed.
Legacy(stage) == IF stage \in Decided \cup {"new"} THEN stage ELSE "contacted"
Kept(p) == [status |-> IF p.workflow = "snoozed" THEN "snoozed" ELSE Legacy(p.stage), until |-> p.until]

\* The event, the projection, and what persistLegacyCommercialState writes: the row of the episode
\* here, and the status of the opportunity, o being the rows with that.
Takes(v, e, p) ==
    /\ Accepts(v, e)
    /\ events' = [events EXCEPT ![v] = Append(@, Entry(v, e))]
    /\ proj' = [proj EXCEPT ![v] = p]
    /\ episode' = IF e.type \in Closing \cup {"shown"} THEN episode
                  ELSE IF Kept(p).status = "new" THEN NoEpisode ELSE Kept(p)
WithStatus(v, e, p) ==
    IF e.type \in Closing \cup {"shown"} THEN opp
    ELSE [opp EXCEPT ![v].status = Kept(p).status, ![v].until = Kept(p).until]

Event(type, at) ==
    [type |-> type, at |-> at, until |-> 0, reverts |-> 0, woke |-> 0, prev |-> "new", new |-> "new"]

\* A user, or the CRM on a user's behalf, records something that has happened at some time.
Records(v, e) ==
    LET p == Projected(v, e) IN
    /\ HasRoom(v)
    /\ e.at <= now
    /\ Takes(v, e, p)
    /\ opp' = WithStatus(v, e, p)
    /\ UNCHANGED <<hiring, job, now>>

\* A commercial event may be recorded late.
Step(v, type, at) == Records(v, Event(type, at))
Resume(v) == Records(v, Event("resumed", now))
Snooze(v, until) == now < until /\ Records(v, [Event("snoozed", now) EXCEPT !.until = until])
Correct(v, at) ==
    \E target \in Correctable(v) : Records(v, [Event("reverted", at) EXCEPT !.reverts = target])
\* The dedupe key of a view makes the next one a replay.
Show(v) ==
    /\ \A i \in DOMAIN events[v] : events[v][i].type # "shown"
    /\ Records(v, Event("shown", now))

\* A job ends a snooze; the key of the event has the deadline, and a key is used once.
Wakes(until) == [Event("resumed", now) EXCEPT !.woke = until]
MayWake(v, until) ==
    /\ \A i \in DOMAIN events[v] : events[v][i].woke # until
    /\ Accepts(v, Wakes(until))

-----------------------------------------------------------------------------
(* The build of the pair *)

\* The row of the episode as the build takes it, repaired from the opportunity if it is missing.
EpisodeOf(v) ==
    IF episode # NoEpisode \/ ~Current(v) \/ opp[v].status # "snoozed" THEN episode
    ELSE [status |-> "snoozed", until |-> opp[v].until]
Elapsed(v) == EpisodeOf(v).status = "snoozed" /\ EpisodeOf(v).until <= now

\* The status of the opportunity that is built, when no snooze has elapsed.
ScoredAnew(v, score) == [status |-> score, until |-> 0]
Preserved(v, score) ==
    IF EpisodeOf(v) # NoEpisode THEN EpisodeOf(v)
    ELSE [status |-> IF Current(v) /\ opp[v].status \in Decided THEN opp[v].status ELSE score, until |-> 0]

\* The opportunity of version x becomes the current one, on its old row if it has one; nothing reads
\* the status of one that is superseded.
Stores(x, kept, valid) ==
    opp' = [v \in Versions |->
              IF v = x THEN [life |-> "current", status |-> kept.status, until |-> kept.until, valid |-> valid]
              ELSE IF Current(v) THEN [Unbuilt EXCEPT !.life = "superseded"] ELSE opp[v]]

\* persistOpportunityBuild by version x: v is the opportunity that is current, or the first.
Builds(x, v) == hiring /\ IF \E u \in Versions : Current(u) THEN Current(v) ELSE v = x

Build(x, v, valid) ==
    /\ Builds(x, v)
    /\ ~Elapsed(v)
    /\ \E kept \in {Preserved(v, score) : score \in {"new", "dismissed"}} : Stores(x, kept, valid)
    /\ episode' = EpisodeOf(v)
    /\ UNCHANGED <<events, proj, hiring, job, now>>

\* The snooze has elapsed: the build records its end first, whether the inputs have changed or not.
BuildAwake(x, v, valid) ==
    LET e == Wakes(EpisodeOf(v).until)
        p == Projected(v, e)
    IN /\ Builds(x, v)
       /\ Elapsed(v)
       /\ HasRoom(v)
       /\ MayWake(v, EpisodeOf(v).until)
       /\ Takes(v, e, p)
       /\ Stores(x, Kept(p), valid)
       /\ UNCHANGED <<hiring, job, now>>

\* The inputs are those of the current opportunity.
BuildUnchanged(v) ==
    /\ Builds(v, v)
    /\ Current(v)
    /\ ~Elapsed(v)
    /\ episode' = EpisodeOf(v)
    /\ UNCHANGED <<opp, events, proj, hiring, job, now>>

-----------------------------------------------------------------------------
(* The expiry job *)

Over(v) == ~hiring \/ opp[v].valid < now
DeadlineOf(v) == IF proj[v] # NoProjection THEN proj[v].until ELSE opp[v].until

IsDue(v) ==
    /\ Current(v)
    /\ WorkflowOf(v) = "snoozed"
    /\ ~Over(v)
    /\ StageOf(v) \notin {"won", "lost", "dismissed"}
    /\ DeadlineOf(v) <= now

\* runExpireOpportunitiesJob finds the opportunities to be woken, with their deadlines, and its last
\* statement finds the projections that are snoozed.  (When neither has any, it has nothing to remember.)
ExpireLook ==
    LET due == [v \in Versions |-> IF IsDue(v) THEN DeadlineOf(v) ELSE 0]
        asleep == {v \in Versions : Current(v) /\ proj[v] # NoProjection /\ proj[v].workflow = "snoozed"}
    IN /\ job = NoJob
       /\ [due |-> due, asleep |-> asleep] # NoJob
       /\ job' = [due |-> due, asleep |-> asleep]
       /\ UNCHANGED <<opp, events, proj, episode, hiring, now>>

\* The snoozes that were due end.
ExpireWake(v) ==
    LET e == Wakes(job.due[v])
        p == Projected(v, e)
    IN /\ job.due[v] # 0
       /\ HasRoom(v)
       /\ MayWake(v, job.due[v])
       /\ Takes(v, e, p)
       /\ opp' = WithStatus(v, e, p)
       /\ job' = NoJob
       /\ UNCHANGED <<hiring, now>>

\* What is past its time expires, or all of it when the job closes the episode; one whose projection
\* was snoozed in the snapshot of the statement also when its row has been changed since.  (A job
\* that closes the episode wakes nobody.)
ExpireEnd(closes) ==
    LET gone == {v \in Versions :
                   /\ Current(v)
                   /\ opp[v].status \in {"new", "snoozed"} \/ v \in job.asleep
                   /\ closes \/ Over(v)}
    IN /\ closes \/ job.due = NoJob.due
       /\ opp' = [v \in Versions |-> IF v \in gone THEN [opp[v] EXCEPT !.status = "expired"] ELSE opp[v]]
       /\ episode' = IF gone # {} /\ episode.status = "snoozed" THEN NoEpisode ELSE episode
       /\ hiring' = (hiring /\ ~closes)
       /\ job' = NoJob
       /\ UNCHANGED <<events, proj, now>>

\* An event is refused, or the job dies: everything is rolled back.
ExpireFails ==
    /\ job' = NoJob
    /\ UNCHANGED <<opp, events, proj, episode, hiring, now>>

-----------------------------------------------------------------------------
\* rebuild-opportunity-outcomes.mjs --apply
Rebuild ==
    /\ proj' = [v \in Versions |-> IF events[v] = <<>> THEN NoProjection ELSE Rebuilt(events[v])]
    /\ UNCHANGED <<opp, events, episode, hiring, job, now>>

\* The job takes no time.
Tick ==
    /\ job = NoJob
    /\ now < MaxTime
    /\ now' = now + 1
    /\ UNCHANGED <<opp, events, proj, episode, hiring, job>>

OutcomeNext ==
    \/ \E v \in Versions, at \in Ticks :
          (\E type \in Commercial : Step(v, type, at)) \/ Correct(v, at)
    \/ \E v \in Versions : Resume(v) \/ Show(v) \/ \E until \in 1..MaxTime + 1 : Snooze(v, until)
    \/ \E x, v \in Versions, valid \in Ticks : Build(x, v, valid) \/ BuildAwake(x, v, valid)
    \/ \E v \in Versions : BuildUnchanged(v)
    \/ ExpireLook \/ ExpireFails
    \/ \E v \in Versions : ExpireWake(v)
    \/ \E closes \in BOOLEAN : ExpireEnd(closes)
    \/ Rebuild
    \/ Tick

OutcomeSpec == OutcomeInit /\ [][OutcomeNext]_outcomeVars

-----------------------------------------------------------------------------
(* Properties *)

Entries == [type : Types, at : Ticks, until : 0..MaxTime + 1, reverts : Nat,
            woke : 0..MaxTime + 1, prev : Stages, new : Stages]
Projections == [stage : Stages, workflow : {"active", "snoozed"}, until : 0..MaxTime + 1,
                last : Nat, lastAt : Ticks,
                meeting : {"none", "scheduled"} \cup Closing,
                meetingId : Nat, meetingAt : Ticks, attempts : Nat]
ASSUME NoProjectionIsNone == NoProjection \notin Projections

\* The values of the variables; an opportunity has a projection exactly if it has events.
OutcomeTypeOK ==
    /\ opp \in [Versions -> [life : {"absent", "current", "superseded"}, status : Statuses,
                             until : 0..MaxTime + 1, valid : Ticks]]
    /\ \A v \in Versions :
          /\ Len(events[v]) <= MaxEvents[v] /\ \A i \in DOMAIN events[v] : events[v][i] \in Entries
          /\ IF events[v] = <<>> THEN proj[v] = NoProjection ELSE proj[v] \in Projections
    /\ episode \in [status : Decided \cup {"none", "snoozed"}, until : 0..MaxTime + 1]
    /\ hiring \in BOOLEAN
    /\ job \in [due : [Versions -> 0..MaxTime + 1], asleep : SUBSET Versions]
    /\ now \in Ticks

\* What the queues read is what the history says, event by event as well as rebuilt from it: the snooze,
\* the meeting, the event that the stage stands on, and the stage if such an event counts
\* ("Reducer воспроизводит append order, commercial/workflow state, snooze/resume, corrections").
ReplayAgrees ==
    \A v \in Versions : events[v] # <<>> =>
        LET r == Rebuilt(events[v]) IN
        /\ proj[v] = [r EXCEPT !.stage = proj[v].stage]
        /\ r.last # 0 => proj[v].stage = r.stage

\* The events that count make a history: each moves on from where the one before has got, not earlier
\* than it, and none follows an end, whatever was corrected in between and was then recorded anew.
HistoryIsLegal ==
    \A v \in Versions :
        LET l == events[v]
            moves == {i \in Effective(l) : MovesStage(l[i])}
        IN \A i, j \in moves : i < j /\ (\A k \in moves : ~(i < k /\ k < j)) =>
              /\ l[j].prev = l[i].new
              /\ l[i].at <= l[j].at
              /\ l[i].new \notin {"won", "lost", "dismissed"}

\* A step that is no user's: it records nothing but the end of a snooze by a job.
ByTheSystem == \A v \in Versions : events'[v] # events[v] => Last(events'[v]).woke # 0

\* No build, no change of the scoring and no job takes away what was decided about the current
\* opportunity, or moves the time until which it is put off ("статус snoozed и точный
\* suppressed_until переносятся в current opportunity"), but in two ways.  It expires, because the
\* episode is closed or its time is over, if it is put off or its projection was when the expiry
\* job looked.  Or it is woken, if its projection (its row, if it has none) says it is put off and
\* its time has come, or had when the job looked; its status is then that of its own stage.
\* What was decided in an earlier version is not in that stage, and the projection of a row that a
\* build uses again is the one it had before: so these two ways do lose decisions.
DecisionsOutliveJobs ==
    [][ByTheSystem =>
          \A v \in Versions : Current(v) /\ opp[v].status \in Decided \cup {"snoozed"} =>
              \E x \in Versions :
                  /\ Current(x)'
                  /\ \/ opp'[x].status = opp[v].status /\ opp'[x].until = opp[v].until
                     \/ /\ opp'[x].status = "expired"
                        /\ opp[v].status = "snoozed" \/ v \in job.asleep
                        /\ ~hiring' \/ opp[v].valid < now
                     \/ /\ opp'[x].status = Legacy(StageOf(v)) /\ opp'[x].until = 0
                        /\ events'[v] # events[v] /\ WorkflowOf(v) = "snoozed"
                        /\ opp[v].until <= now \/ job.due[v] # 0]_outcomeVars

\* Rebuilding a projection that no writer has left aside changes nothing: a correction restores
\* what was before ("восстанавливает предыдущую проекцию").  It does not hold of the code when
\* the first commercial event is corrected after a view; what holds is ReplayAgrees.
RebuildChangesNothing == \A v \in Versions : events[v] # <<>> => proj[v] = Rebuilt(events[v])

\* What is put off is put off in the queues too, which read the projection.
SnoozedStaysSnoozed == \A v \in Versions : Current(v) /\ opp[v].status = "snoozed" => WorkflowOf(v) = "snoozed"

\* A job wakes an opportunity when its time has come, not earlier.
WokenInTime ==
    [][\A v \in Versions :
          events'[v] # events[v] /\ Last(events'[v]).woke # 0 => DeadlineOf(v) <= now]_outcomeVars

\* A snooze that a new version takes over keeps the stage that the opportunity had reached ("`snoozed`
\* сохраняет текущую commercial stage").  It does not hold of the code: the build carries the status
\* and the deadline, and the new row has no projection, so that its stage is "new".
CarriedSnoozeKeepsStage ==
    \A u, v \in Versions :
        /\ Current(v) /\ opp[v].status = "snoozed" /\ proj[v] = NoProjection
        /\ opp[u].life = "superseded" /\ proj[u] # NoProjection
        /\ proj[u].workflow = "snoozed" /\ proj[u].until = opp[v].until
        => StageOf(v) = proj[u].stage
=============================================================================
