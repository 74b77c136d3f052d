------------------------- MODULE DailyRadar_proofs -------------------------
(***************************************************************************)
(* Machine-checked proofs about DailyRadar, for any number of handlers and *)
(* profiles and any limits that satisfy AttemptLimits, and about the       *)
(* digests that its handlers make: DigestFeedback, for any companies,      *)
(* invocations and lengths of a rest.  First the types, then the lease of  *)
(* the run and the digest run of a profile, the counts of attempts and     *)
(* what a completed run means, each with the strengthening that makes it   *)
(* inductive; the digests and their answers come last.                     *)
(***************************************************************************)
EXTENDS DailyRadar, DigestFeedback, FiniteSetTheorems, TLAPS

-----------------------------------------------------------------------------
(* The locals of a handler stay well-typed *)

RoundLabels == InRound \cup {"claimProfile", "claiming", "profileCatch"}

\* A handler inside a round has the profile of the round and, where it needs one, a
\* digest run; the status it is about to persist is that of a row that exists.
InOrder(local) ==
    /\ local.pc \in RoundLabels => local.cur \in Profiles
    /\ local.pc \in {"attach", "enrich"} => local.digest # None
    /\ local.pc = "finishProfile" => local.outcome # "absent"
    /\ local.pc = "finishRun" => local.final # "absent"
RoundHasProfile == \A w \in Workers : InOrder(h[w])

Typed == TypeOK /\ RoundHasProfile

\* A row that does not exist has counted no attempt.
AbsentRowsAreUntried ==
    /\ run.status = "absent" => run.attempt = 0
    /\ \A p \in Profiles : prof[p].status = "absent" => prof[p].attempt = 0

\* What a step may make of the local state of a handler.
GoodLocal(local) == local \in Locals /\ InOrder(local)

\* Every assignment of this kind keeps all handlers typed.
LEMMA BecomesTyped ==
    ASSUME Typed, NEW w \in Workers, NEW local, GoodLocal(local), Becomes(w, local)
    PROVE  h' \in [Workers -> Locals] /\ RoundHasProfile'
  BY DEF Typed, TypeOK, RoundHasProfile, Becomes, GoodLocal

\* The handlers of a typed state have well-formed locals.
LEMMA LocalTyped == ASSUME Typed, NEW w \in Workers PROVE GoodLocal(h[w])
  BY DEF Typed, TypeOK, RoundHasProfile, GoodLocal

\* Moving to a label keeps a local typed; a label of the round needs its profile.
LEMMA LabelTyped ==
    ASSUME NEW local \in Locals, NEW label \in Labels \ {"finishProfile", "finishRun"},
           label \in RoundLabels => local.cur \in Profiles,
           label \in {"attach", "enrich"} => local.digest # None
    PROVE  GoodLocal([local EXCEPT !.pc = label])
  BY DEF Locals, GoodLocal, InOrder

\* Leaving the round keeps a local typed.
LEMMA OutOfRoundTyped == ASSUME NEW local \in Locals PROVE OutOfRound(local) \in Locals
<1>1. 0 \in 0..MaxProfileAttempts /\ "absent" \in ProfileStatuses
  BY AttemptLimits DEF ProfileStatuses
<1> QED BY <1>1 DEF Locals, OutOfRound

\* So does leaving it for the outer catch.
LEMMA UnwoundTyped == ASSUME Typed, NEW w \in Workers PROVE GoodLocal(Unwound(w))
<1>1. OutOfRound(h[w]) \in Locals
  BY LocalTyped, OutOfRoundTyped DEF GoodLocal
<1>2. "catch" \in Labels \ RoundLabels /\ "absent" \in RunStatuses
  BY DEF Labels, RunStatuses, RoundLabels, InRound
<1> QED BY <1>1, <1>2 DEF Locals, Unwound, GoodLocal, InOrder, RoundLabels, InRound

\* A handler starts typed.
LEMMA IdleTyped == Idle \in Locals
  BY AttemptLimits DEF Idle, Locals, ProfileStatuses, RunStatuses, Labels

\* A handler ends typed.
LEMMA GoneTyped == ASSUME NEW label \in Ended PROVE GoodLocal(Gone(label))
<1>1. label \in Labels \ (RoundLabels \cup {"finishRun"})
  BY DEF Labels, Ended, RoundLabels, InRound
<1>2. [Idle EXCEPT !.pc = label] \in Locals /\ [Idle EXCEPT !.pc = label].pc = label
  BY <1>1, IdleTyped DEF Locals
<1> QED BY <1>1, <1>2 DEF Gone, GoodLocal, InOrder, RoundLabels, InRound

\* Going on to the next round keeps the handlers typed.
LEMMA NextRoundTyped ==
    ASSUME Typed, NEW w \in Workers, NextRound(w)
    PROVE  h' \in [Workers -> Locals] /\ RoundHasProfile'
<1>1. OutOfRound(h[w]) \in Locals
  BY LocalTyped, OutOfRoundTyped DEF GoodLocal
<1>2. "nextProfile" \in Labels \ RoundLabels
  BY DEF Labels, Awaiting, RoundLabels, InRound
<1>3. GoodLocal([OutOfRound(h[w]) EXCEPT !.pc = "nextProfile"])
  BY <1>1, <1>2, LabelTyped
<1> QED BY <1>3, BecomesTyped DEF NextRound

\* A handler goes from one label of the round to another.
LEMMA GotoTyped ==
    ASSUME Typed, NEW w \in Workers, h[w].pc \in RoundLabels,
           NEW label \in RoundLabels \ {"finishProfile"}, Goto(w, label),
           label \in {"attach", "enrich"} => h[w].digest # None
    PROVE  h' \in [Workers -> Locals] /\ RoundHasProfile'
<1>1. label \in Labels \ {"finishProfile", "finishRun"}
  BY DEF Labels, RoundLabels, Awaiting, InRound
<1>2. GoodLocal([h[w] EXCEPT !.pc = label])
  BY <1>1, LocalTyped, LabelTyped DEF GoodLocal, InOrder
<1> QED BY <1>2, BecomesTyped DEF Goto

\* A guarded UPDATE of the run row keeps the row and the handlers typed.
LEMMA RefreshTyped ==
    ASSUME Typed, NEW w \in Workers, NEW next, GoodLocal(next), RefreshRun(w, next)
    PROVE  run' \in RunRows /\ h' \in [Workers -> Locals] /\ RoundHasProfile'
<1>1. run' \in RunRows
  BY DEF Typed, TypeOK, RunRows, RefreshRun
<1> QED BY <1>1, BecomesTyped, UnwoundTyped DEF RefreshRun
-----------------------------------------------------------------------------
(* Type correctness *)

\* The initial states are typed, and no absent profile row has been tried.
LEMMA InitTyped == Init => Typed /\ AbsentRowsAreUntried
  BY NoneIsNothing, AttemptLimits
  DEF Init, Typed, AbsentRowsAreUntried, TypeOK, RoundHasProfile, InOrder, Idle, RunRows, ProfileRows, Locals,
      RunStatuses, ProfileStatuses, Labels, RoundLabels, InRound, Awaiting, Ended

\* Every step keeps the state typed.
LEMMA NextTyped == ASSUME Typed, AbsentRowsAreUntried, [Next]_vars PROVE Typed'
<1> USE DEF At
<1>t. TypeOK /\ RoundHasProfile BY DEF Typed
<1>1. ASSUME NEW w \in Workers, ClaimRun(w) PROVE Typed'
  <2>0. run.attempt + 1 \in 0..MaxDailyAttempts
    BY <1>1, <1>t, AttemptLimits
    DEF TypeOK, AbsentRowsAreUntried, ClaimRun, RunClaimable, RunRows
  <2>1. run' \in RunRows
    BY <1>1, <1>t, <2>0 DEF TypeOK, ClaimRun, RunRows, RunStatuses
  <2>2. prof' \in [Profiles -> ProfileRows]
    BY <1>1, <1>t DEF TypeOK, ClaimRun, Fenced, ProfileRows, ProfileStatuses
  <2>3. GoodLocal([Idle EXCEPT !.pc = "sources", !.attempt = run.attempt + 1])
    BY <2>0, IdleTyped DEF GoodLocal, InOrder, Locals, Labels, Awaiting, RoundLabels, InRound
  <2> QED BY <1>1, <1>t, <2>1, <2>2, <2>3, BecomesTyped DEF ClaimRun, Typed, TypeOK
<1>2. ASSUME NEW w \in Workers, RefreshSources(w) PROVE Typed'
  <2>1. PICK bad \in SUBSET {"ingest"} :
            RefreshRun(w, [h[w] EXCEPT !.pc = "heartbeat", !.failed = bad])
    BY <1>2 DEF RefreshSources
  <2>2. GoodLocal([h[w] EXCEPT !.pc = "heartbeat", !.failed = bad])
    BY LocalTyped DEF GoodLocal, InOrder, Locals, Labels, Awaiting, RoundLabels, InRound
  <2> QED BY <1>2, <1>t, <2>1, <2>2, RefreshTyped DEF RefreshSources, Typed, TypeOK
<1>3. ASSUME NEW w \in Workers, HeartbeatBeforeTemporal(w) PROVE Typed'
  <2>1. GoodLocal([h[w] EXCEPT !.pc = "temporal"])
    BY LocalTyped DEF GoodLocal, InOrder, Locals, Labels, Awaiting, RoundLabels, InRound
  <2> QED BY <1>3, <1>t, <2>1, RefreshTyped DEF HeartbeatBeforeTemporal, Typed, TypeOK
<1>4. ASSUME NEW w \in Workers, RecordTemporal(w) PROVE Typed'
  <2>1. PICK bad \in SUBSET {"temporal"} :
            RefreshRun(w, [h[w] EXCEPT !.pc = "eligibility", !.failed = @ \cup bad])
    BY <1>4 DEF RecordTemporal
  <2>2. GoodLocal([h[w] EXCEPT !.pc = "eligibility", !.failed = @ \cup bad])
    BY LocalTyped DEF GoodLocal, InOrder, Locals, Labels, Awaiting, RoundLabels, InRound
  <2> QED BY <1>4, <1>t, <2>1, <2>2, RefreshTyped DEF RecordTemporal, Typed, TypeOK
<1>5. ASSUME NEW w \in Workers, LoadEligibleProfiles(w) PROVE Typed'
  <2>1. PICK eligible \in SUBSET Profiles :
            Becomes(w, [h[w] EXCEPT !.pc = "nextProfile", !.todo = eligible,
                          !.failed = IF eligible = {} THEN @ \ {"ingest"} ELSE @])
    BY <1>5 DEF LoadEligibleProfiles
  <2>2. GoodLocal([h[w] EXCEPT !.pc = "nextProfile", !.todo = eligible,
                     !.failed = IF eligible = {} THEN @ \ {"ingest"} ELSE @])
    BY LocalTyped DEF GoodLocal, InOrder, Locals, Labels, Awaiting, RoundLabels, InRound
  <2> QED BY <1>5, <1>t, <2>1, <2>2, BecomesTyped DEF LoadEligibleProfiles, Typed, TypeOK
<1>6. ASSUME NEW w \in Workers, HeartbeatForProfile(w) PROVE Typed'
  <2>1. PICK p \in h[w].todo :
            RefreshRun(w, [h[w] EXCEPT !.pc = "claimProfile", !.cur = p, !.todo = @ \ {p}])
    BY <1>6 DEF HeartbeatForProfile
  <2>2. GoodLocal([h[w] EXCEPT !.pc = "claimProfile", !.cur = p, !.todo = @ \ {p}])
    BY LocalTyped DEF GoodLocal, InOrder, Locals, Labels, Awaiting
  <2> QED BY <1>6, <1>t, <2>1, <2>2, RefreshTyped DEF HeartbeatForProfile, Typed, TypeOK
<1>b. ASSUME NEW w \in Workers, BeginClaim(w) PROVE Typed'
  BY <1>b, <1>t, GotoTyped DEF BeginClaim, Typed, TypeOK, RoundLabels, InRound
<1>7. ASSUME NEW w \in Workers, ClaimProfile(w) PROVE Typed'
  <2> DEFINE p == h[w].cur
  <2>1. p \in Profiles /\ prof[p] \in ProfileRows
    BY <1>7, <1>t DEF ClaimProfile, RoundHasProfile, InOrder, RoundLabels, TypeOK
  <2>2. prof[p].attempt + 1 \in 0..MaxProfileAttempts
    BY <1>7, <2>1, AttemptLimits
    DEF ClaimProfile, ProfileClaimable, ProfileRows, AbsentRowsAreUntried
  <2>3. prof' \in [Profiles -> ProfileRows]
    BY <1>7, <1>t, <2>1, <2>2 DEF ClaimProfile, TypeOK, ProfileRows, ProfileStatuses
  <2>4. GoodLocal([h[w] EXCEPT !.pc = IF prof[p].digest = None THEN "digest" ELSE "enrich",
                     !.tries = prof[p].attempt + 1, !.digest = prof[p].digest])
    BY <2>1, <2>2, LocalTyped DEF GoodLocal, InOrder, Locals, Labels, InRound, ProfileRows
  <2> QED BY <1>7, <1>t, <2>3, <2>4, UnwoundTyped, BecomesTyped DEF ClaimProfile, Typed, TypeOK
<1>8. ASSUME NEW w \in Workers, SkipProfile(w) PROVE Typed'
  BY <1>8, <1>t, NextRoundTyped DEF SkipProfile, Typed, TypeOK
<1>9. ASSUME NEW w \in Workers, RunDigest(w) PROVE Typed'
  <2>1. GoodLocal([h[w] EXCEPT !.pc = "attach", !.digest = w])
    BY <1>9, <1>t, LocalTyped, NoneIsNothing
    DEF RunDigest, GoodLocal, InOrder, Locals, Labels, InRound, RoundHasProfile, RoundLabels
  <2> QED BY <1>9, <1>t, <2>1, BecomesTyped DEF RunDigest, Typed, TypeOK
<1>10. ASSUME NEW w \in Workers, AttachDigestRun(w) PROVE Typed'
  <2>1. h[w].cur \in Profiles /\ h[w].digest \in Workers
    BY <1>10, <1>t, LocalTyped
    DEF AttachDigestRun, RoundHasProfile, InOrder, RoundLabels, InRound, GoodLocal, Locals
  <2>3. h[w].digest # None
    BY <2>1, NoneIsNothing
  <2>2. prof' \in [Profiles -> ProfileRows]
    BY <1>10, <1>t, <2>1 DEF AttachDigestRun, TypeOK, ProfileRows
  <2> QED BY <1>10, <1>t, <2>2, <2>3, GotoTyped
          DEF AttachDigestRun, Typed, TypeOK, RoundLabels, InRound
<1>11. ASSUME NEW w \in Workers, StartDelivery(w) PROVE Typed'
  <2>1. h[w].cur \in Profiles /\ h[w].digest \in Workers \cup {None}
    BY <1>11, <1>t, LocalTyped
    DEF StartDelivery, RoundHasProfile, InOrder, RoundLabels, InRound, GoodLocal, Locals
  <2>2. h[w].digest # None
    BY <1>11, <1>t DEF StartDelivery, RoundHasProfile, InOrder
  <2> QED BY <1>11, <1>t, <2>1, <2>2, GotoTyped
          DEF StartDelivery, Typed, TypeOK, RoundLabels, InRound
<1>12. ASSUME NEW w \in Workers, EndDelivery(w) PROVE Typed'
  <2>1. PICK failures \in SUBSET FailureStates :
            Becomes(w, [h[w] EXCEPT !.pc = "finishProfile",
                                    !.outcome = DeliveryOutcome(h[w].tries, failures)])
    BY <1>12 DEF EndDelivery
  <2>2. DeliveryOutcome(h[w].tries, failures) \in ProfileStatuses \ {"absent"}
    BY DEF DeliveryOutcome, ProfileStatuses
  <2>3. GoodLocal([h[w] EXCEPT !.pc = "finishProfile",
                               !.outcome = DeliveryOutcome(h[w].tries, failures)])
    BY <1>12, <1>t, <2>2, LocalTyped
    DEF EndDelivery, GoodLocal, InOrder, Locals, Labels, InRound, RoundHasProfile, InOrder, RoundLabels
  <2> QED BY <1>12, <1>t, <2>1, <2>3, BecomesTyped DEF EndDelivery, Typed, TypeOK
<1>13. ASSUME NEW w \in Workers, FinishProfile(w) PROVE Typed'
  <2>1. h[w].cur \in Profiles /\ h[w].outcome \in ProfileStatuses
    BY <1>13, <1>t, LocalTyped
    DEF FinishProfile, RoundHasProfile, InOrder, RoundLabels, InRound, GoodLocal, Locals
  <2>2. prof' \in [Profiles -> ProfileRows]
    BY <1>13, <1>t, <2>1 DEF FinishProfile, TypeOK, ProfileRows
  <2> QED BY <1>13, <1>t, <2>2, GotoTyped, NextRoundTyped
          DEF FinishProfile, Typed, TypeOK, RoundLabels, InRound
<1>14. ASSUME NEW w \in Workers, CatchProfile(w) PROVE Typed'
  <2>1. h[w].cur \in Profiles
    BY <1>14, <1>t DEF CatchProfile, RoundHasProfile, InOrder, RoundLabels
  <2>2. prof' \in [Profiles -> ProfileRows]
    BY <1>14, <1>t, <2>1 DEF CatchProfile, CaughtStatus, TypeOK, ProfileRows, ProfileStatuses
  <2> QED BY <1>14, <1>t, <2>2, NextRoundTyped DEF CatchProfile, Typed, TypeOK
<1>15. ASSUME NEW w \in Workers, SummarizeProfiles(w) PROVE Typed'
  <2>1. FinalStatus(w) \in RunStatuses \ {"absent"}
    BY DEF FinalStatus, RunStatuses
  <2>2. GoodLocal([h[w] EXCEPT !.pc = "finishRun", !.final = FinalStatus(w), !.failed = {}])
    BY <2>1, LocalTyped DEF GoodLocal, InOrder, Locals, Labels, Awaiting, RoundLabels, InRound
  <2> QED BY <1>15, <1>t, <2>2, BecomesTyped DEF SummarizeProfiles, Typed, TypeOK
<1>f. ASSUME NEW w \in Workers, NEW status \in RunStatuses PROVE Finished(w, status) \in RunRows
  BY <1>t, <1>f DEF TypeOK, RunRows, Finished, Persisted, RunStatuses
<1>16. ASSUME NEW w \in Workers, FinishRun(w) PROVE Typed'
  <2>1. h[w].final \in RunStatuses
    BY LocalTyped DEF GoodLocal, InOrder, Locals
  <2>2. run' \in RunRows
    BY <1>16, <1>t, <1>f, <2>1 DEF FinishRun, TypeOK
  <2>3. h' \in [Workers -> Locals] /\ RoundHasProfile'
    BY <1>16, GoneTyped, UnwoundTyped, BecomesTyped DEF FinishRun, Answer, Ended
  <2> QED BY <1>16, <1>t, <2>1, <2>2, <2>3 DEF FinishRun, Answer, Typed, TypeOK
<1>17. ASSUME NEW w \in Workers, CatchRun(w) \/ AbandonRun(w) PROVE Typed'
  <2>1. run' \in RunRows
    BY <1>17, <1>t, <1>f DEF CatchRun, AbandonRun, TypeOK, RunStatuses
  <2>2. h' \in [Workers -> Locals] /\ RoundHasProfile'
    BY <1>17, GoneTyped, BecomesTyped DEF CatchRun, AbandonRun, Answer, Ended
  <2>3. CaughtReason(w) \in RunStatuses
    BY DEF CaughtReason, RunStatuses
  <2> QED BY <1>17, <1>t, <2>1, <2>2, <2>3 DEF CatchRun, AbandonRun, Answer, Typed, TypeOK
<1>18. ASSUME NEW w \in Workers, Throw(w) PROVE Typed'
  <2>1. h' \in [Workers -> Locals] /\ RoundHasProfile'
    BY <1>18, GotoTyped, UnwoundTyped, BecomesTyped DEF Throw, RoundLabels
  <2> QED BY <1>18, <1>t, <2>1 DEF Throw, Typed, TypeOK
<1>19. ASSUME NEW w \in Workers, Crash(w) PROVE Typed'
  <2>1. h' \in [Workers -> Locals] /\ RoundHasProfile'
    BY <1>19, GoneTyped, BecomesTyped DEF Crash, Ended
  <2> QED BY <1>19, <1>t, <2>1 DEF Crash, Typed, TypeOK
<1>20. CASE TwoHoursPass \/ BackoffElapses
  <2>1. run' \in RunRows
    BY <1>20, <1>t DEF TwoHoursPass, BackoffElapses, TypeOK, RunRows
  <2> QED BY <1>20, <1>t, <2>1 DEF TwoHoursPass, BackoffElapses, Typed, TypeOK, RoundHasProfile
<1>21. CASE UNCHANGED vars
  BY <1>21, <1>t DEF vars, Typed, TypeOK, RoundHasProfile
<1> QED
  BY <1>1, <1>2, <1>3, <1>4, <1>5, <1>6, <1>b, <1>7, <1>8, <1>9, <1>10, <1>11, <1>12, <1>13,
     <1>14, <1>15, <1>16, <1>17, <1>18, <1>19, <1>20, <1>21 DEF Next, Step

\* No step counts an attempt on a row that stays absent.
LEMMA NextAbsent ==
    ASSUME Typed, AbsentRowsAreUntried, [Next]_vars PROVE AbsentRowsAreUntried'
<1> USE DEF At, AbsentRowsAreUntried
<1>t. TypeOK /\ RoundHasProfile BY DEF Typed
<1>1. ASSUME NEW w \in Workers, ClaimRun(w) PROVE AbsentRowsAreUntried'
  BY <1>1, <1>t DEF ClaimRun, Fenced, TypeOK, ProfileRows, RunRows
<1>2. ASSUME NEW w \in Workers, NEW next, RefreshRun(w, next), UNCHANGED prof
      PROVE  AbsentRowsAreUntried'
  BY <1>2, <1>t DEF RefreshRun, OwnsRun, TypeOK, RunRows
<1>3. ASSUME NEW w \in Workers, ClaimProfile(w) \/ AttachDigestRun(w) PROVE AbsentRowsAreUntried'
  <2>1. PICK p \in Profiles : p = h[w].cur
    BY <1>3, <1>t
    DEF ClaimProfile, AttachDigestRun, RoundHasProfile, InOrder, RoundLabels, InRound
  <2>2. prof[p] \in ProfileRows /\ prof \in [Profiles -> ProfileRows]
    BY <1>t DEF TypeOK
  <2>3. CASE ClaimProfile(w)
    <3>1. /\ prof'[p] = [prof[p] EXCEPT !.status = "running", !.lease = w,
                                       !.attempt = prof[p].attempt + 1,
                                       !.claim = IF OwnsRun(w) THEN "timely" ELSE "late"]
          /\ \A q \in Profiles : q # p => prof'[q] = prof[q]
          /\ run' = run
      BY <2>1, <2>2, <2>3 DEF ClaimProfile
    <3>2. prof'[p].status = "running"
      BY <2>2, <3>1 DEF ProfileRows
    <3> QED BY <3>1, <3>2
  <2>4. CASE AttachDigestRun(w)
    <3>1. prof' = prof \/ prof' = [prof EXCEPT ![p].digest = h[w].digest]
      BY <2>1, <2>4 DEF AttachDigestRun
    <3>2. \A q \in Profiles :
             prof'[q].status = prof[q].status /\ prof'[q].attempt = prof[q].attempt
      BY <2>2, <3>1 DEF ProfileRows
    <3> QED BY <2>4, <3>2 DEF AttachDigestRun
  <2> QED BY <1>3, <2>3, <2>4
<1>4. ASSUME NEW w \in Workers, FinishProfile(w) \/ CatchProfile(w) PROVE AbsentRowsAreUntried'
  BY <1>4, <1>t
  DEF FinishProfile, CatchProfile, CaughtStatus, TypeOK, ProfileRows, RoundHasProfile, InOrder
<1>5. ASSUME NEW w \in Workers, FinishRun(w) \/ CatchRun(w) PROVE AbsentRowsAreUntried'
  BY <1>5, <1>t
  DEF FinishRun, CatchRun, OwnsRun, Finished, Persisted, TypeOK, RunRows, RoundHasProfile, InOrder
<1>6. CASE TwoHoursPass \/ BackoffElapses
  BY <1>6, <1>t DEF TwoHoursPass, BackoffElapses, TypeOK, RunRows
<1>7. CASE UNCHANGED <<run, prof>>
  BY <1>7
<1> QED
  BY <1>1, <1>2, <1>3, <1>4, <1>5, <1>6, <1>7
  DEF Next, Step, vars, RefreshSources, HeartbeatBeforeTemporal, RecordTemporal,
      LoadEligibleProfiles, HeartbeatForProfile, BeginClaim, SkipProfile, RunDigest,
      StartDelivery, EndDelivery, SummarizeProfiles, AbandonRun, Throw, Crash

\* Every variable of the scheduler keeps its type, the limits of both attempt
\* counts included (claimDailyRadarRun, claimDailyRadarProfile).
THEOREM TypeCorrect == Spec => []TypeOK
<1>1. Spec => [](Typed /\ AbsentRowsAreUntried)
  BY InitTyped, NextTyped, NextAbsent, PTL DEF Spec
<1> QED BY <1>1, PTL DEF Typed

\* The typing invariant with its strengthening.
LEMMA AlwaysTyped == Spec => [](Typed /\ AbsentRowsAreUntried)
  BY InitTyped, NextTyped, NextAbsent, PTL DEF Spec

-----------------------------------------------------------------------------
(* The leases of the profiles *)

\* The steps that leave both tables alone.
LEMMA TablesUnchanged ==
    ASSUME NEW w \in Workers,
           \/ LoadEligibleProfiles(w) \/ BeginClaim(w) \/ SkipProfile(w) \/ RunDigest(w)
           \/ StartDelivery(w) \/ EndDelivery(w) \/ SummarizeProfiles(w) \/ AbandonRun(w)
           \/ Throw(w) \/ Crash(w)
    PROVE  UNCHANGED <<run, prof>>
  BY DEF LoadEligibleProfiles, BeginClaim, SkipProfile, RunDigest, StartDelivery, EndDelivery,
         SummarizeProfiles, AbandonRun, Throw, Crash

\* A late claim is the last one its handler makes: the handler has lost the run for
\* good, and no longer stands before or in a claim.
LateClaimIsTheLast ==
    \A p \in Profiles, w \in Workers :
        prof[p].claim = "late" /\ prof[p].lease = w =>
            ~OwnsRun(w) /\ h[w].pc \notin {"idle", "claimProfile", "claiming"}
FenceInv == RunningProfilesAreFenced /\ LateClaimIsTheLast

\* A run comes to be owned by its claim alone.
LEMMA OwnershipIsClaimed ==
    ASSUME Typed, [Next]_vars, NEW w \in Workers, OwnsRun(w)' PROVE OwnsRun(w) \/ ClaimRun(w)
<1>t. TypeOK BY DEF Typed
<1>1. ASSUME NEW v \in Workers, ClaimRun(v) PROVE v = w
  BY <1>1, <1>t DEF ClaimRun, OwnsRun
<1>2. ASSUME NEW v \in Workers, NEW next, RefreshRun(v, next) PROVE OwnsRun(w)
  BY <1>2, <1>t DEF RefreshRun, OwnsRun, TypeOK, RunRows
<1>3. ASSUME NEW v \in Workers, NEW status, OwnsRun(v), run' = Finished(v, status)
      PROVE  OwnsRun(w)
  BY <1>3, <1>t DEF Finished, OwnsRun, TypeOK, RunRows
<1>4. ASSUME NEW v \in Workers, FinishRun(v) \/ CatchRun(v) PROVE OwnsRun(w)
  BY <1>3, <1>4 DEF FinishRun, CatchRun, OwnsRun
<1>5. ASSUME TwoHoursPass \/ BackoffElapses PROVE OwnsRun(w)
  BY <1>5, <1>t DEF TwoHoursPass, BackoffElapses, OwnsRun, TypeOK, RunRows
<1>6. ASSUME UNCHANGED run PROVE OwnsRun(w)
  BY <1>6 DEF OwnsRun
<1>7. ASSUME NEW v \in Workers,
             \/ ClaimProfile(v) \/ AttachDigestRun(v) \/ FinishProfile(v) \/ CatchProfile(v)
      PROVE  UNCHANGED run
  BY <1>7 DEF ClaimProfile, AttachDigestRun, FinishProfile, CatchProfile
<1> QED
  BY <1>1, <1>2, <1>4, <1>5, <1>6, <1>7, TablesUnchanged
  DEF Next, Step, vars, RefreshSources, HeartbeatBeforeTemporal, RecordTemporal,
      HeartbeatForProfile

\* Only the owner of the run comes to a claim, and from the one label to the other.
LEMMA ClaimsAreOfOwners ==
    ASSUME Typed, [Next]_vars, NEW w \in Workers,
           h'[w].pc \in {"idle", "claimProfile", "claiming"},
           h[w].pc \notin {"idle", "claimProfile", "claiming"}
    PROVE  OwnsRun(w)
<1>t. h \in [Workers -> Locals] BY DEF Typed, TypeOK
<1> DEFINE Labelled(local) == local.pc \in {"idle", "claimProfile", "claiming"}
<1>b. ASSUME NEW v \in Workers, NEW local, Becomes(v, local) PROVE v = w /\ Labelled(local)
  BY <1>b, <1>t DEF Becomes
<1>l. /\ h[w] \in Locals /\ OutOfRound(h[w]) \in Locals
      /\ [OutOfRound(h[w]) EXCEPT !.pc = "nextProfile"].pc = "nextProfile"
  <2>1. h[w] \in Locals /\ OutOfRound(h[w]) \in Locals
    BY <1>t, OutOfRoundTyped
  <2> QED BY <2>1 DEF Locals
<1>u. ~Labelled(Unwound(w))
  BY <1>l DEF Unwound, Locals
<1>g. \A label \in Ended : ~Labelled(Gone(label))
  BY DEF Gone, Idle, Ended
<1> HIDE DEF Labelled
<1>1. ASSUME NEW v \in Workers, NEW next, RefreshRun(v, next) PROVE v = w /\ OwnsRun(w)
  BY <1>1, <1>b, <1>u DEF RefreshRun
<1>2. ASSUME NEW v \in Workers, NextRound(v) PROVE FALSE
  BY <1>2, <1>b, <1>l DEF NextRound, Labelled
<1>3. ASSUME NEW v \in Workers, NEW label, Goto(v, label),
             label \notin {"idle", "claimProfile", "claiming"}
      PROVE  FALSE
  <2>1. v = w /\ Labelled([h[w] EXCEPT !.pc = label])
    BY <1>3, <1>b DEF Goto
  <2> QED BY <1>3, <1>l, <2>1 DEF Locals, Labelled
<1>4. ASSUME NEW v \in Workers, NEW label \in Ended, Becomes(v, Gone(label)) PROVE FALSE
  BY <1>4, <1>b, <1>g
<1>5. ASSUME NEW v \in Workers, Becomes(v, Unwound(v)) PROVE FALSE
  BY <1>5, <1>b, <1>u
<1>6. ASSUME NEW v \in Workers, ClaimRun(v) PROVE FALSE
  <2>1. ~Labelled([Idle EXCEPT !.pc = "sources", !.attempt = run.attempt + 1])
    BY DEF Idle, Labelled
  <2> QED BY <1>6, <1>b, <2>1 DEF ClaimRun
<1>7. ASSUME NEW v \in Workers,
             \/ RefreshSources(v) \/ HeartbeatBeforeTemporal(v) \/ RecordTemporal(v)
             \/ HeartbeatForProfile(v)
      PROVE  OwnsRun(w)
  BY <1>1, <1>7 DEF RefreshSources, HeartbeatBeforeTemporal, RecordTemporal, HeartbeatForProfile
<1>8. ASSUME NEW v \in Workers, LoadEligibleProfiles(v) PROVE FALSE
  <2>1. h[v] \in Locals BY <1>t
  <2>2. \A eligible : ~Labelled([h[v] EXCEPT !.pc = "nextProfile", !.todo = eligible,
           !.failed = IF eligible = {} THEN @ \ {"ingest"} ELSE @])
    BY <2>1 DEF Locals, Labelled
  <2> QED BY <1>b, <1>8, <2>2 DEF LoadEligibleProfiles
<1>9. ASSUME NEW v \in Workers, BeginClaim(v) PROVE FALSE
  BY <1>9, <1>b DEF BeginClaim, Goto, At
<1>10. ASSUME NEW v \in Workers, ClaimProfile(v) PROVE FALSE
  <2> DEFINE p == h[v].cur
             taken == [h[v] EXCEPT !.pc = IF prof[p].digest = None THEN "digest" ELSE "enrich",
                                   !.tries = prof[p].attempt + 1, !.digest = prof[p].digest]
  <2>1. h[v] \in Locals BY <1>t
  <2>2. ~Labelled(taken)
    BY <2>1 DEF Locals, Labelled
  <2>3. Becomes(v, taken) \/ Becomes(v, Unwound(v))
    BY <1>10 DEF ClaimProfile
  <2> HIDE DEF taken
  <2> QED BY <1>5, <1>b, <2>2, <2>3
<1>11. ASSUME NEW v \in Workers, RunDigest(v) PROVE FALSE
  <2>1. h[v] \in Locals BY <1>t
  <2>2. ~Labelled([h[v] EXCEPT !.pc = "attach", !.digest = v])
    BY <2>1 DEF Locals, Labelled
  <2> QED BY <1>b, <1>11, <2>2 DEF RunDigest
<1>12. ASSUME NEW v \in Workers, EndDelivery(v) PROVE FALSE
  <2>1. h[v] \in Locals BY <1>t
  <2>2. \A outcome : ~Labelled([h[v] EXCEPT !.pc = "finishProfile", !.outcome = outcome])
    BY <2>1 DEF Locals, Labelled
  <2> QED BY <1>b, <1>12, <2>2 DEF EndDelivery
<1>13. ASSUME NEW v \in Workers, SummarizeProfiles(v) PROVE FALSE
  <2>1. h[v] \in Locals BY <1>t
  <2>2. ~Labelled([h[v] EXCEPT !.pc = "finishRun", !.final = FinalStatus(v), !.failed = {}])
    BY <2>1 DEF Locals, Labelled
  <2> QED BY <1>b, <1>13, <2>2 DEF SummarizeProfiles
<1>14. ASSUME NEW v \in Workers,
              \/ SkipProfile(v) \/ AttachDigestRun(v) \/ StartDelivery(v)
              \/ FinishProfile(v) \/ CatchProfile(v)
       PROVE  FALSE
  BY <1>2, <1>3, <1>14
  DEF SkipProfile, AttachDigestRun, StartDelivery, FinishProfile, CatchProfile
<1>15. ASSUME NEW v \in Workers,
              FinishRun(v) \/ CatchRun(v) \/ AbandonRun(v) \/ Throw(v) \/ Crash(v)
       PROVE  FALSE
  BY <1>3, <1>4, <1>5, <1>15 DEF FinishRun, CatchRun, AbandonRun, Throw, Crash, Answer, Ended
<1>16. h' # h
  BY <1>t
<1> QED
  BY <1>6, <1>7, <1>8, <1>9, <1>10, <1>11, <1>12, <1>13, <1>14, <1>15, <1>16
  DEF Next, Step, TwoHoursPass, BackoffElapses, vars

\* Every step keeps the fence.
LEMMA NextFenced == ASSUME Typed, FenceInv, [Next]_vars PROVE FenceInv'
<1>t. TypeOK /\ RoundHasProfile BY DEF Typed
<1>k. ASSUME \A p \in Profiles :
                /\ prof'[p].lease = prof[p].lease /\ prof'[p].claim = prof[p].claim
                /\ prof'[p].status = "running" =>
                      prof[p].status = "running" /\ (prof[p].lease = run.lease => run'.lease = run.lease)
      PROVE  FenceInv'
  <2>1. RunningProfilesAreFenced'
    BY <1>k DEF FenceInv, RunningProfilesAreFenced, Late
  <2>2. ASSUME NEW p \in Profiles, NEW w \in Workers, prof'[p].claim = "late", prof'[p].lease = w
        PROVE  ~OwnsRun(w)' /\ h'[w].pc \notin {"idle", "claimProfile", "claiming"}
    <3>1. ~OwnsRun(w) /\ h[w].pc \notin {"idle", "claimProfile", "claiming"}
      BY <1>k, <2>2 DEF FenceInv, LateClaimIsTheLast
    <3> QED BY <3>1, OwnershipIsClaimed, ClaimsAreOfOwners DEF ClaimRun, At
  <2> QED BY <2>1, <2>2 DEF FenceInv, LateClaimIsTheLast
<1>1. ASSUME NEW w \in Workers, ClaimRun(w) PROVE FenceInv'
  BY <1>1, <1>k, <1>t DEF ClaimRun, Fenced, TypeOK, ProfileRows
<1>2. ASSUME NEW w \in Workers, ClaimProfile(w) PROVE FenceInv'
  <2> DEFINE p == h[w].cur
  <2>1. p \in Profiles /\ prof[p] \in ProfileRows
    BY <1>2, <1>t DEF ClaimProfile, At, RoundHasProfile, InOrder, RoundLabels, TypeOK
  <2>2. /\ prof'[p] = [prof[p] EXCEPT !.status = "running", !.lease = w,
                                     !.attempt = prof[p].attempt + 1,
                                     !.claim = IF OwnsRun(w) THEN "timely" ELSE "late"]
        /\ \A q \in Profiles : q # p => prof'[q] = prof[q]
        /\ run' = run
    BY <1>2, <1>t, <2>1 DEF ClaimProfile, TypeOK
  <2>3. prof'[p].lease = w /\ prof'[p].claim \in {"timely", "late"}
        /\ (prof'[p].claim = "late" <=> ~OwnsRun(w))
    BY <2>1, <2>2 DEF ProfileRows
  <2>4. \A q \in Profiles : ~(prof[q].claim = "late" /\ prof[q].lease = w)
    BY <1>2 DEF ClaimProfile, At, FenceInv, LateClaimIsTheLast
  <2>5. h'[w].pc \notin {"idle", "claimProfile", "claiming"}
    <3>1. h[w] \in Locals /\ OutOfRound(h[w]) \in Locals
      BY <1>t, OutOfRoundTyped DEF TypeOK
    <3>2. Unwound(w).pc = "catch"
      BY <3>1 DEF Unwound, Locals
    <3> DEFINE taken == [h[w] EXCEPT !.pc = IF prof[p].digest = None THEN "digest" ELSE "enrich",
                                     !.tries = prof[p].attempt + 1, !.digest = prof[p].digest]
    <3>3. taken.pc \in {"digest", "enrich"}
      BY <3>1 DEF Locals
    <3>4. h'[w] = taken \/ h'[w] = Unwound(w)
      BY <1>2, <1>t DEF ClaimProfile, Becomes, TypeOK
    <3> HIDE DEF taken
    <3> QED BY <3>2, <3>3, <3>4
  <2> HIDE DEF p
  <2>6. \A q \in Profiles :
           prof'[q].status = "running" => prof'[q].lease = run'.lease \/ prof'[q].claim = "late"
    BY <2>2, <2>3 DEF FenceInv, RunningProfilesAreFenced, Late, OwnsRun
  <2>7. \A q, r \in Profiles :
           prof'[q].claim = "late" /\ prof'[r].claim = "late" /\ prof'[q].lease = prof'[r].lease => q = r
    <3> SUFFICES ASSUME NEW q \in Profiles, NEW r \in Profiles, q # r,
                        prof'[q].claim = "late", prof'[r].claim = "late",
                        prof'[q].lease = prof'[r].lease
                 PROVE  FALSE
      OBVIOUS
    <3>1. q # p /\ r # p
      BY <2>2, <2>3, <2>4
    <3>2. prof'[q] = prof[q] /\ prof'[r] = prof[r]
      BY <2>2, <3>1
    <3> QED BY <3>2 DEF FenceInv, RunningProfilesAreFenced, Late
  <2>8. ASSUME NEW q \in Profiles, NEW v \in Workers, prof'[q].claim = "late", prof'[q].lease = v
        PROVE  ~OwnsRun(v)' /\ h'[v].pc \notin {"idle", "claimProfile", "claiming"}
    <3>1. CASE v = w
      <4>1. ~OwnsRun(w)
        BY <2>2, <2>3, <2>4, <2>8, <3>1
      <4> QED BY <2>2, <2>5, <3>1, <4>1 DEF OwnsRun
    <3>2. CASE v # w
      <4>1. prof[q].claim = "late" /\ prof[q].lease = v
        BY <2>2, <2>3, <2>8, <3>2
      <4>2. ~OwnsRun(v) /\ h[v].pc \notin {"idle", "claimProfile", "claiming"}
        BY <4>1 DEF FenceInv, LateClaimIsTheLast
      <4> QED BY <4>2, OwnershipIsClaimed, ClaimsAreOfOwners DEF ClaimRun, At
    <3> QED BY <3>1, <3>2
  <2> QED BY <2>6, <2>7, <2>8 DEF FenceInv, RunningProfilesAreFenced, Late, LateClaimIsTheLast
<1>3. ASSUME NEW w \in Workers, AttachDigestRun(w) PROVE FenceInv'
  BY <1>3, <1>k, <1>t DEF AttachDigestRun, TypeOK, ProfileRows
<1>4. ASSUME NEW w \in Workers, FinishProfile(w) \/ CatchProfile(w) PROVE FenceInv'
  <2>1. PICK p \in Profiles : p = h[w].cur
    BY <1>4, <1>t
    DEF FinishProfile, CatchProfile, At, RoundHasProfile, InOrder, RoundLabels, InRound
  <2>2. PICK status :
           prof' = prof \/ (OwnsProfile(w, p) /\ prof' = [prof EXCEPT ![p].status = status])
    BY <1>4, <2>1 DEF FinishProfile, CatchProfile
  <2>3. run' = run
    BY <1>4 DEF FinishProfile, CatchProfile
  <2>4. prof \in [Profiles -> ProfileRows]
    BY <1>t DEF TypeOK
  <2>5. \A q \in Profiles :
           /\ prof'[q].lease = prof[q].lease /\ prof'[q].claim = prof[q].claim
           /\ prof'[q].status = "running" => prof[q].status = "running"
    BY <2>2, <2>4 DEF OwnsProfile, ProfileRows
  <2> QED BY <1>k, <2>3, <2>5
<1>5. ASSUME run'.lease = run.lease, UNCHANGED prof PROVE FenceInv'
  BY <1>5, <1>k
<1>6. ASSUME NEW w \in Workers, NEW next, RefreshRun(w, next) PROVE run'.lease = run.lease
  BY <1>6, <1>t DEF RefreshRun, TypeOK, RunRows
<1>7. ASSUME NEW w \in Workers, FinishRun(w) \/ CatchRun(w) PROVE run'.lease = run.lease
  BY <1>7, <1>t DEF FinishRun, CatchRun, Finished, TypeOK, RunRows
<1>8. ASSUME TwoHoursPass \/ BackoffElapses PROVE run'.lease = run.lease
  BY <1>8, <1>t DEF TwoHoursPass, BackoffElapses, TypeOK, RunRows
<1> QED
  BY <1>1, <1>2, <1>3, <1>4, <1>5, <1>6, <1>7, <1>8, TablesUnchanged
  DEF Next, Step, vars, RefreshSources, HeartbeatBeforeTemporal, RecordTemporal,
      HeartbeatForProfile, FinishRun, CatchRun, TwoHoursPass, BackoffElapses

\* No takeover leaves a profile running under the lease of a replaced owner, but the
\* one whose claim was being written while the run changed hands.
THEOREM TakeoverFreesProfiles == Spec => []RunningProfilesAreFenced
<1>1. Init => FenceInv
  BY DEF Init, FenceInv, RunningProfilesAreFenced, Late, LateClaimIsTheLast
<1>2. Spec => []FenceInv
  BY <1>1, NextFenced, AlwaysTyped, PTL DEF Spec
<1> QED BY <1>2, PTL DEF FenceInv

-----------------------------------------------------------------------------
(* Final rows *)

\* Completed and terminal rows are never rewritten, not even by a statement that a
\* replaced owner sends late.
THEOREM FinalRowsAreFinal == Spec => FinalRowsStay
<1> DEFINE Stay ==
      /\ run.status \in {"completed", "terminal"} => run' = run
      /\ \A p \in Profiles :
            prof[p].status \in {"completed", "failed_terminal"} => prof'[p] = prof[p]
<1>1. Typed /\ [Next]_vars => Stay
  <2> SUFFICES ASSUME Typed, [Next]_vars PROVE Stay
    OBVIOUS
  <2>t. TypeOK /\ RoundHasProfile BY DEF Typed
  <2>1. ASSUME NEW w \in Workers, ClaimRun(w) PROVE Stay
    BY <2>1, <2>t DEF ClaimRun, RunClaimable, Fenced, TypeOK, ProfileRows
  <2>2. ASSUME NEW w \in Workers, NEW next, RefreshRun(w, next), UNCHANGED prof PROVE Stay
    BY <2>2, <2>t DEF RefreshRun, OwnsRun
  <2>3. ASSUME NEW w \in Workers, ClaimProfile(w) PROVE Stay
    BY <2>3, <2>t DEF ClaimProfile, ProfileClaimable, TypeOK
  <2>4. ASSUME NEW w \in Workers, AttachDigestRun(w) PROVE Stay
    BY <2>4, <2>t DEF AttachDigestRun, OwnsProfile, TypeOK
  <2>5. ASSUME NEW w \in Workers, FinishProfile(w) \/ CatchProfile(w) PROVE Stay
    BY <2>5, <2>t DEF FinishProfile, CatchProfile, OwnsProfile, TypeOK
  <2>6. ASSUME NEW w \in Workers, FinishRun(w) \/ CatchRun(w) PROVE Stay
    BY <2>6, <2>t DEF FinishRun, CatchRun, OwnsRun
  <2>7. CASE TwoHoursPass \/ BackoffElapses
    BY <2>7 DEF TwoHoursPass, BackoffElapses
  <2>8. CASE UNCHANGED <<run, prof>>
    BY <2>8
  <2> HIDE DEF Stay
  <2> QED
    BY <2>1, <2>2, <2>3, <2>4, <2>5, <2>6, <2>7, <2>8, TablesUnchanged
    DEF Next, Step, vars, RefreshSources, HeartbeatBeforeTemporal, RecordTemporal,
        HeartbeatForProfile
<1>2. Typed /\ [Next]_vars => [Stay]_vars
  BY <1>1
<1> HIDE DEF Stay
<1>3. Spec => [][Stay]_vars
  BY <1>2, AlwaysTyped, PTL DEF Spec
<1> QED BY <1>3 DEF FinalRowsStay, Stay

-----------------------------------------------------------------------------
(* One digest run for a profile and date *)

\* The digest run a handler is about to deliver is the one its profile row names,
\* and a handler makes a new one only for a row it owns that names none yet.
HasDigest(w) ==
    /\ h[w].pc \in {"digest", "attach"} /\ OwnsProfile(w, h[w].cur) =>
          prof[h[w].cur].digest = None
    /\ h[w].pc = "enrich" => prof[h[w].cur].digest = h[w].digest
DigestInv == OneDigestRunDelivered /\ \A w \in Workers : HasDigest(w)

\* A handler that leaves these labels cannot disturb it.
LEMMA ElsewhereDigest ==
    ASSUME DigestInv, Typed, NEW w \in Workers, NEW local, Becomes(w, local),
           local.pc \notin {"digest", "attach", "enrich"}, UNCHANGED <<prof, delivered>>
    PROVE  DigestInv'
  BY DEF DigestInv, HasDigest, OneDigestRunDelivered, OwnsProfile, Becomes, Typed, TypeOK

\* Neither does a handler that only moves to such a label.
LEMMA GotoElsewhereDigest ==
    ASSUME DigestInv, Typed, NEW w \in Workers,
           \/ BeginClaim(w) \/ SkipProfile(w) \/ EndDelivery(w) \/ SummarizeProfiles(w)
           \/ AbandonRun(w) \/ Throw(w) \/ Crash(w) \/ LoadEligibleProfiles(w)
           \/ FinishRun(w) \/ CatchRun(w)
    PROVE  DigestInv'
<1>l. h[w] \in Locals BY LocalTyped DEF GoodLocal
<1>u. Unwound(w).pc = "catch"
  BY <1>l, OutOfRoundTyped DEF Unwound, Locals
<1>g. \A label : Gone(label).pc = label
  BY DEF Gone, Idle
<1>1. CASE SkipProfile(w)
  <2>1. OutOfRound(h[w]) \in Locals BY <1>l, OutOfRoundTyped
  <2>2. [OutOfRound(h[w]) EXCEPT !.pc = "nextProfile"].pc = "nextProfile"
    BY <2>1 DEF Locals
  <2> QED BY <1>1, <2>2, ElsewhereDigest DEF SkipProfile, NextRound
<1>2. CASE EndDelivery(w)
  <2>1. PICK failures \in SUBSET FailureStates :
            Becomes(w, [h[w] EXCEPT !.pc = "finishProfile",
                                    !.outcome = DeliveryOutcome(h[w].tries, failures)])
    BY <1>2 DEF EndDelivery
  <2>2. [h[w] EXCEPT !.pc = "finishProfile",
                     !.outcome = DeliveryOutcome(h[w].tries, failures)].pc = "finishProfile"
    BY <1>l DEF Locals
  <2> QED BY <1>2, <2>1, <2>2, ElsewhereDigest DEF EndDelivery
<1>3. CASE SummarizeProfiles(w)
  <2>1. [h[w] EXCEPT !.pc = "finishRun", !.final = FinalStatus(w), !.failed = {}].pc = "finishRun"
    BY <1>l DEF Locals
  <2> QED BY <1>3, <2>1, ElsewhereDigest DEF SummarizeProfiles
<1>4. CASE LoadEligibleProfiles(w)
  <2>1. PICK eligible \in SUBSET Profiles :
            Becomes(w, [h[w] EXCEPT !.pc = "nextProfile", !.todo = eligible,
                          !.failed = IF eligible = {} THEN @ \ {"ingest"} ELSE @])
    BY <1>4 DEF LoadEligibleProfiles
  <2>2. [h[w] EXCEPT !.pc = "nextProfile", !.todo = eligible,
           !.failed = IF eligible = {} THEN @ \ {"ingest"} ELSE @].pc = "nextProfile"
    BY <1>l DEF Locals
  <2> QED BY <1>4, <2>1, <2>2, ElsewhereDigest DEF LoadEligibleProfiles
<1>5. CASE AbandonRun(w) \/ Crash(w) \/ CatchRun(w)
  BY <1>5, <1>g, ElsewhereDigest DEF AbandonRun, Crash, CatchRun, Answer
<1>6. CASE FinishRun(w)
  BY <1>6, <1>g, <1>u, ElsewhereDigest DEF FinishRun, Answer
<1>7. CASE Throw(w)
  <2>1. [h[w] EXCEPT !.pc = "profileCatch"].pc = "profileCatch"
    BY <1>l DEF Locals
  <2> QED BY <1>7, <1>u, <2>1, ElsewhereDigest DEF Throw, Goto
<1>8. CASE BeginClaim(w)
  <2>1. [h[w] EXCEPT !.pc = "claiming"].pc = "claiming"
    BY <1>l DEF Locals
  <2> QED BY <1>8, <2>1, ElsewhereDigest DEF BeginClaim, Goto
<1> QED BY <1>1, <1>2, <1>3, <1>4, <1>5, <1>6, <1>7, <1>8

\* Nor one that refreshes the run row.
LEMMA RefreshDigest ==
    ASSUME DigestInv, Typed, NEW w \in Workers, NEW next, RefreshRun(w, next),
           next.pc \notin {"digest", "attach", "enrich"}, UNCHANGED <<prof, delivered>>
    PROVE  DigestInv'
<1>1. h[w] \in Locals BY LocalTyped DEF GoodLocal
<1>2. Unwound(w).pc = "catch"
  BY <1>1, OutOfRoundTyped DEF Unwound, Locals
<1> QED BY <1>2, ElsewhereDigest DEF RefreshRun

\* Every step keeps the digest runs tied to the profile rows.
LEMMA NextDigest == ASSUME DigestInv, Typed, [Next]_vars PROVE DigestInv'
<1> USE DEF At
<1>t. TypeOK /\ RoundHasProfile BY DEF Typed
<1>l. \A w \in Workers : h[w] \in Locals BY LocalTyped DEF GoodLocal
<1>1. ASSUME NEW w \in Workers, ClaimRun(w) PROVE DigestInv'
  <2>1. [Idle EXCEPT !.pc = "sources", !.attempt = run.attempt + 1].pc = "sources"
    BY DEF Idle
  <2>2. /\ h'[w].pc = "sources"
        /\ \A v \in Workers : v # w => h'[v] = h[v]
    BY <1>1, <1>t, <2>1 DEF ClaimRun, Becomes, TypeOK
  <2>3. \A p \in Profiles :
           /\ prof'[p].digest = prof[p].digest
           /\ prof'[p].status = "running" => prof'[p] = prof[p]
    BY <1>1, <1>t DEF ClaimRun, Fenced, TypeOK, ProfileRows
  <2>4. UNCHANGED delivered BY <1>1 DEF ClaimRun
  <2> QED BY <1>t, <2>2, <2>3, <2>4
          DEF DigestInv, HasDigest, OneDigestRunDelivered, OwnsProfile, RoundHasProfile, InOrder,
              RoundLabels, InRound
<1>2. ASSUME NEW w \in Workers, RefreshSources(w) PROVE DigestInv'
  <2>1. PICK bad \in SUBSET {"ingest"} :
            RefreshRun(w, [h[w] EXCEPT !.pc = "heartbeat", !.failed = bad])
    BY <1>2 DEF RefreshSources
  <2>2. [h[w] EXCEPT !.pc = "heartbeat", !.failed = bad].pc = "heartbeat"
    BY <1>l DEF Locals
  <2> QED BY <1>2, <2>1, <2>2, RefreshDigest DEF RefreshSources
<1>3. ASSUME NEW w \in Workers, HeartbeatBeforeTemporal(w) PROVE DigestInv'
  <2>1. [h[w] EXCEPT !.pc = "temporal"].pc = "temporal"
    BY <1>l DEF Locals
  <2> QED BY <1>3, <2>1, RefreshDigest DEF HeartbeatBeforeTemporal
<1>4. ASSUME NEW w \in Workers, RecordTemporal(w) PROVE DigestInv'
  <2>1. PICK bad \in SUBSET {"temporal"} :
            RefreshRun(w, [h[w] EXCEPT !.pc = "eligibility", !.failed = @ \cup bad])
    BY <1>4 DEF RecordTemporal
  <2>2. [h[w] EXCEPT !.pc = "eligibility", !.failed = @ \cup bad].pc = "eligibility"
    BY <1>l DEF Locals
  <2> QED BY <1>4, <2>1, <2>2, RefreshDigest DEF RecordTemporal
<1>5. ASSUME NEW w \in Workers, HeartbeatForProfile(w) PROVE DigestInv'
  <2>1. PICK p \in h[w].todo :
            RefreshRun(w, [h[w] EXCEPT !.pc = "claimProfile", !.cur = p, !.todo = @ \ {p}])
    BY <1>5 DEF HeartbeatForProfile
  <2>2. [h[w] EXCEPT !.pc = "claimProfile", !.cur = p, !.todo = @ \ {p}].pc = "claimProfile"
    BY <1>l DEF Locals
  <2> QED BY <1>5, <2>1, <2>2, RefreshDigest DEF HeartbeatForProfile
<1>6. ASSUME NEW w \in Workers, ClaimProfile(w) PROVE DigestInv'
  <2> DEFINE p == h[w].cur
  <2>1. p \in Profiles /\ prof[p] \in ProfileRows
    BY <1>6, <1>t DEF ClaimProfile, RoundHasProfile, InOrder, RoundLabels, TypeOK
  <2>2. /\ prof'[p] = [prof[p] EXCEPT !.status = "running", !.lease = w,
                                     !.attempt = prof[p].attempt + 1,
                                     !.claim = IF OwnsRun(w) THEN "timely" ELSE "late"]
        /\ \A q \in Profiles : q # p => prof'[q] = prof[q]
        /\ \A v \in Workers : v # w => h'[v] = h[v]
        /\ UNCHANGED delivered
    BY <1>6, <1>t, <2>1 DEF ClaimProfile, Becomes, TypeOK
  <2>3. prof'[p].digest = prof[p].digest /\ prof'[p].lease = w
    BY <2>1, <2>2 DEF ProfileRows
  <2>4. Unwound(w).pc = "catch"
    BY <1>l, OutOfRoundTyped DEF Unwound, Locals
  <2>5. \/ /\ h'[w].pc = IF prof[p].digest = None THEN "digest" ELSE "enrich"
           /\ h'[w].cur = p /\ h'[w].digest = prof[p].digest
        \/ h'[w].pc = "catch"
    <3> DEFINE taken == [h[w] EXCEPT !.pc = IF prof[p].digest = None THEN "digest" ELSE "enrich",
                                     !.tries = prof[p].attempt + 1, !.digest = prof[p].digest]
    <3>1. /\ taken.pc = IF prof[p].digest = None THEN "digest" ELSE "enrich"
          /\ taken.cur = p /\ taken.digest = prof[p].digest
      BY <1>l DEF Locals
    <3>2. h'[w] = taken \/ h'[w] = Unwound(w)
      BY <1>6, <1>t DEF ClaimProfile, Becomes, TypeOK
    <3> QED BY <2>4, <3>1, <3>2
  <2>6. \A v \in Workers : v # w /\ OwnsProfile(v, h[v].cur)' /\ h[v].pc \in RoundLabels
            => OwnsProfile(v, h[v].cur)
    <3> SUFFICES ASSUME NEW v \in Workers, v # w, OwnsProfile(v, h[v].cur)',
                        h[v].pc \in RoundLabels
                 PROVE  OwnsProfile(v, h[v].cur)
      OBVIOUS
    <3>1. PICK q \in Profiles : q = h[v].cur
      BY <1>t DEF RoundHasProfile, InOrder
    <3>2. h'[v] = h[v]
      BY <2>2
    <3>3. prof'[q].lease = v /\ prof'[q].status = "running"
      BY <3>1, <3>2 DEF OwnsProfile
    <3>4. q # p
      BY <2>3, <3>3
    <3> QED BY <2>2, <3>1, <3>3, <3>4 DEF OwnsProfile
  <2>7. OneDigestRunDelivered'
    BY <2>1, <2>2, <2>3 DEF DigestInv, HasDigest, OneDigestRunDelivered
  <2>8. \A q \in Profiles : prof'[q].digest = prof[q].digest
    BY <2>2, <2>3
  <2> HIDE DEF p
  <2>9. ASSUME NEW v \in Workers, v # w PROVE HasDigest(v)'
    BY <1>t, <2>2, <2>6, <2>8, <2>9
    DEF DigestInv, HasDigest, RoundHasProfile, InOrder, RoundLabels, InRound
  <2>10. HasDigest(w)'
    BY <2>1, <2>3, <2>5 DEF HasDigest
  <2> QED BY <2>7, <2>9, <2>10 DEF DigestInv
<1>7. ASSUME NEW w \in Workers, RunDigest(w) PROVE DigestInv'
  BY <1>7, <1>t, <1>l
  DEF RunDigest, Becomes, TypeOK, Locals, DigestInv, HasDigest, OneDigestRunDelivered, OwnsProfile
<1>8. ASSUME NEW w \in Workers, AttachDigestRun(w) PROVE DigestInv'
  <2> DEFINE p == h[w].cur
  <2>1. p \in Profiles /\ prof[p] \in ProfileRows
    BY <1>8, <1>t DEF AttachDigestRun, RoundHasProfile, InOrder, RoundLabels, InRound, TypeOK
  <2>2. CASE ~OwnsProfile(w, p)
    <3>1. [h[w] EXCEPT !.pc = "profileCatch"].pc = "profileCatch"
      BY <1>l DEF Locals
    <3> QED BY <1>8, <2>2, <3>1, ElsewhereDigest DEF AttachDigestRun, Goto
  <2>3. CASE OwnsProfile(w, p)
    <3>1. prof[p].digest = None /\ delivered[p] = {}
      BY <1>8, <1>t, <2>1, <2>3, NoneIsNothing
      DEF AttachDigestRun, DigestInv, HasDigest, OneDigestRunDelivered, TypeOK
    <3>2. /\ prof'[p] = [prof[p] EXCEPT !.digest = h[w].digest]
          /\ \A q \in Profiles : q # p => prof'[q] = prof[q]
          /\ \A v \in Workers : v # w => h'[v] = h[v]
          /\ h'[w] = [h[w] EXCEPT !.pc = "enrich"]
          /\ UNCHANGED delivered
      BY <1>8, <1>t, <2>1, <2>3 DEF AttachDigestRun, Goto, Becomes, TypeOK
    <3>3. /\ prof'[p].digest = h[w].digest
          /\ prof'[p].lease = w
      BY <2>1, <2>3, <3>2 DEF ProfileRows, OwnsProfile
    <3>4. h'[w].pc = "enrich" /\ h'[w].cur = p /\ h'[w].digest = h[w].digest
      BY <1>l, <3>2 DEF Locals
    <3>5. \A v \in Workers : h[v].pc = "enrich" => h[v].cur \in Profiles \ {p}
      BY <1>t, <3>1 DEF DigestInv, HasDigest, RoundHasProfile, InOrder, RoundLabels, InRound
    <3>6. OneDigestRunDelivered'
      BY <2>1, <3>1, <3>2, <3>3 DEF DigestInv, HasDigest, OneDigestRunDelivered
    <3>7. ASSUME NEW v \in Workers, v # w, h[v].pc \in RoundLabels PROVE HasDigest(v)'
      <4>1. h[v].cur \in Profiles
        BY <1>t, <3>7 DEF RoundHasProfile, InOrder
      <4>2. CASE h[v].cur = p
        <5>1. h'[v] = h[v] /\ h[v].pc # "enrich"
          BY <3>2, <3>5, <3>7, <4>2
        <5>2. prof'[h'[v].cur].lease # v
          BY <3>3, <3>7, <4>2, <5>1
        <5> QED BY <5>1, <5>2 DEF HasDigest, OwnsProfile
      <4>3. CASE h[v].cur # p
        BY <3>2, <3>7, <4>1, <4>3 DEF DigestInv, HasDigest, OwnsProfile
      <4> QED BY <4>2, <4>3
    <3>8. ASSUME NEW v \in Workers, v # w, h[v].pc \notin RoundLabels PROVE HasDigest(v)'
      BY <3>2, <3>8 DEF HasDigest, RoundLabels, InRound
    <3>9. HasDigest(w)'
      BY <3>3, <3>4 DEF HasDigest
    <3> HIDE DEF p
    <3> QED BY <3>6, <3>7, <3>8, <3>9 DEF DigestInv
  <2> QED BY <2>2, <2>3
<1>9. ASSUME NEW w \in Workers, StartDelivery(w) PROVE DigestInv'
  <2>1. [h[w] EXCEPT !.pc = "deliver"].pc = "deliver"
    BY <1>l DEF Locals
  <2>2. /\ h'[w].pc = "deliver" /\ UNCHANGED prof
        /\ \A v \in Workers : v # w => h'[v] = h[v]
    BY <1>9, <1>t, <2>1 DEF StartDelivery, Goto, Becomes, TypeOK
  <2>3. OneDigestRunDelivered'
    BY <1>9, <1>t DEF StartDelivery, DigestInv, HasDigest, OneDigestRunDelivered, TypeOK
  <2> QED BY <2>2, <2>3 DEF DigestInv, HasDigest, OwnsProfile
<1>10. ASSUME NEW w \in Workers, FinishProfile(w) \/ CatchProfile(w) PROVE DigestInv'
  <2>1. h[w].cur \in Profiles
    BY <1>10, <1>t
    DEF FinishProfile, CatchProfile, RoundHasProfile, InOrder, RoundLabels, InRound
  <2>2. OutOfRound(h[w]) \in Locals BY <1>l, OutOfRoundTyped
  <2>3. /\ [OutOfRound(h[w]) EXCEPT !.pc = "nextProfile"].pc = "nextProfile"
        /\ [h[w] EXCEPT !.pc = "profileCatch"].pc = "profileCatch"
    BY <1>l, <2>2 DEF Locals
  <2>4. /\ h'[w].pc \in {"nextProfile", "profileCatch"}
        /\ \A v \in Workers : v # w => h'[v] = h[v]
        /\ UNCHANGED delivered
    BY <1>10, <1>t, <2>3 DEF FinishProfile, CatchProfile, NextRound, Goto, Becomes, TypeOK
  <2>5. \A q \in Profiles : prof'[q].digest = prof[q].digest /\ prof'[q].lease = prof[q].lease
    BY <1>10, <1>t, <2>1 DEF FinishProfile, CatchProfile, TypeOK, ProfileRows
  <2>6. \A v \in Workers, q \in Profiles : v # w /\ OwnsProfile(v, q)' => OwnsProfile(v, q)
    BY <1>10, <1>t, <2>1 DEF FinishProfile, CatchProfile, TypeOK, ProfileRows, OwnsProfile
  <2> QED BY <1>t, <2>4, <2>5, <2>6
          DEF DigestInv, HasDigest, OneDigestRunDelivered, RoundHasProfile, InOrder, RoundLabels, InRound
<1>11. CASE UNCHANGED <<prof, delivered, h>>
  BY <1>11 DEF DigestInv, HasDigest, OneDigestRunDelivered, OwnsProfile
<1> QED
  BY <1>1, <1>2, <1>3, <1>4, <1>5, <1>6, <1>7, <1>8, <1>9, <1>10, <1>11, GotoElsewhereDigest
  DEF Next, Step, vars, TwoHoursPass, BackoffElapses

\* All deliveries of a profile and date send one digest run, the one its row names.
THEOREM OneRunIsDelivered == Spec => []OneDigestRunDelivered
<1>1. Init => DigestInv
  BY DEF Init, DigestInv, HasDigest, OneDigestRunDelivered, Idle
<1>2. Spec => []DigestInv
  BY <1>1, NextDigest, AlwaysTyped, PTL DEF Spec
<1> QED BY <1>2, PTL DEF DigestInv

-----------------------------------------------------------------------------
(* Retryable rows have an attempt left *)

\* The profiles a handler has yet to claim in its attempt.
Unvisited(local) ==
    {p \in Profiles : \/ local.pc \in {"sources", "heartbeat", "temporal", "eligibility"}
                      \/ p \in local.todo
                      \/ local.pc \in {"claimProfile", "claiming"} /\ local.cur = p}

\* The handlers that may still claim a profile, replaced ones included.
Pending(p) == {w \in Workers : p \in Unvisited(h[w])}

\* Every attempt of the run claims a profile once at most: those made and those that
\* may still come are no more than the attempts of the run.
ClaimsAreFew ==
    \A p \in Profiles :
        /\ IsFiniteSet(Pending(p))
        /\ prof[p].attempt + Cardinality(Pending(p)) <= run.attempt

\* The counts a handler holds are those of the rows it owns.
HandlerCounts(w) ==
    /\ run.lease = w => h[w].pc # "idle"
    /\ run.lease = w /\ h[w].pc \notin Ended => h[w].attempt = run.attempt
    /\ h[w].pc \in InRound \cup {"profileCatch"} /\ OwnsProfile(w, h[w].cur) =>
          h[w].tries = prof[h[w].cur].attempt
    /\ h[w].pc = "finishProfile" /\ h[w].outcome = "failed_retryable" =>
          h[w].tries < MaxProfileAttempts
    /\ h[w].pc \in {"claimProfile", "claiming"} => h[w].cur \notin h[w].todo

AttemptInv ==
    /\ RetryableHasAttemptLeft
    /\ ClaimsAreFew
    /\ \A w \in Workers : HandlerCounts(w)

\* A step that is not a claim: no count and no lease changes, and what becomes
\* retryable has an attempt left.
KeepsCounts ==
    /\ run'.lease = run.lease /\ run'.attempt = run.attempt
    /\ run'.status \in {"partial", "failed"} =>
          run'.status = run.status \/ run.attempt < MaxDailyAttempts
    /\ \A p \in Profiles :
          /\ prof'[p].attempt = prof[p].attempt /\ prof'[p].lease = prof[p].lease
          /\ prof'[p].status = "running" => prof[p].status = "running"
          /\ prof'[p].status = "failed_retryable" =>
                prof[p].status = "failed_retryable" \/ prof[p].attempt < MaxProfileAttempts

\* No row has counted more attempts than the run.
LEMMA AttemptsAreFew ==
    ASSUME ClaimsAreFew, TypeOK, NEW p \in Profiles PROVE prof[p].attempt <= run.attempt
<1>1. Cardinality(Pending(p)) \in Nat
  BY FS_CardinalityType DEF ClaimsAreFew
<1> QED BY <1>1 DEF ClaimsAreFew, TypeOK, ProfileRows, RunRows

\* Fewer handlers that may claim, and no claim, keep the claims few.
LEMMA FewerClaims ==
    ASSUME ClaimsAreFew, TypeOK, NEW p \in Profiles, Pending(p)' \subseteq Pending(p),
           prof'[p].attempt = prof[p].attempt, run'.attempt = run.attempt
    PROVE  /\ IsFiniteSet(Pending(p)')
           /\ prof'[p].attempt + Cardinality(Pending(p)') <= run'.attempt
<1> DEFINE before == Pending(p)
           after == Pending(p)'
<1>0. IsFiniteSet(before) /\ prof[p].attempt + Cardinality(before) <= run.attempt
  BY DEF ClaimsAreFew
<1>1. after \in SUBSET before OBVIOUS
<1> HIDE DEF before, after
<1>2. IsFiniteSet(after) /\ Cardinality(after) <= Cardinality(before)
  BY <1>0, <1>1, FS_Subset
<1>3. Cardinality(before) \in Nat /\ Cardinality(after) \in Nat
  BY <1>0, <1>2, FS_CardinalityType
<1>4. prof'[p].attempt + Cardinality(after) <= run'.attempt
  BY <1>0, <1>2, <1>3 DEF TypeOK, ProfileRows, RunRows
<1> QED BY <1>2, <1>4 DEF after

\* A step that leaves the rows alone and moves one handler keeps the counts.
LEMMA QuietStep ==
    ASSUME AttemptInv, Typed, NEW w \in Workers, NEW local, Becomes(w, local), KeepsCounts,
           Unvisited(local) \subseteq Unvisited(h[w]), HandlerCounts(w)'
    PROVE  AttemptInv'
<1>1. \A v \in Workers \ {w} : h'[v] = h[v]
  BY DEF Becomes, Typed, TypeOK
<1>2. ASSUME NEW v \in Workers \ {w} PROVE HandlerCounts(v)'
  <2>1. h'[v] = h[v] BY <1>1
  <2>2. h[v].pc \in InRound \cup {"profileCatch"} => h[v].cur \in Profiles
    BY DEF Typed, RoundHasProfile, InOrder, RoundLabels
  <2> QED BY <2>1, <2>2 DEF KeepsCounts, AttemptInv, HandlerCounts, OwnsProfile
<1>3. RetryableHasAttemptLeft'
  BY DEF KeepsCounts, AttemptInv, RetryableHasAttemptLeft
<1>4. ASSUME NEW p \in Profiles PROVE Pending(p)' \subseteq Pending(p)
  BY <1>1 DEF Becomes, Typed, TypeOK, Pending
<1>5. ClaimsAreFew'
  BY <1>4, FewerClaims DEF KeepsCounts, AttemptInv, ClaimsAreFew, Typed
<1> QED BY <1>2, <1>3, <1>5 DEF AttemptInv

\* Outside the round a handler has no counts to keep but the run's.
LEMMA OutsideCounts ==
    ASSUME AttemptInv, Typed, NEW w \in Workers, NEW local \in Locals, Becomes(w, local),
           KeepsCounts,
           local.pc \notin InRound \cup {"profileCatch", "idle", "claimProfile", "claiming"},
           \/ local.pc \in Ended
           \/ local.attempt = h[w].attempt /\ h[w].pc \notin Ended,
           Unvisited(local) \subseteq Unvisited(h[w])
    PROVE  AttemptInv'
<1>1. h'[w] = local BY DEF Becomes, Typed, TypeOK
<1>3. local.pc # "finishProfile" BY DEF InRound
<1>4. HandlerCounts(w)'
  BY <1>1, <1>3 DEF AttemptInv, HandlerCounts, KeepsCounts
<1> QED BY <1>4, QuietStep

\* Inside the round it keeps its counts.
LEMMA InsideCounts ==
    ASSUME AttemptInv, Typed, NEW w \in Workers, NEW local \in Locals, Becomes(w, local),
           KeepsCounts, h[w].pc \in InRound, local.pc \in InRound \cup {"profileCatch"},
           local.attempt = h[w].attempt, local.todo = h[w].todo, local.cur = h[w].cur,
           local.tries = h[w].tries,
           local.pc = "finishProfile" /\ local.outcome = "failed_retryable" =>
               local.tries < MaxProfileAttempts
    PROVE  AttemptInv'
<1>1. h'[w] = local BY DEF Becomes, Typed, TypeOK
<1>2. local.pc \notin {"sources", "heartbeat", "temporal", "eligibility", "claimProfile",
                      "claiming", "idle"}
  BY DEF InRound
<1>3. Unvisited(local) \subseteq Unvisited(h[w])
  BY <1>2 DEF Unvisited
<1>4. h[w].cur \in Profiles /\ h[w].pc \notin Ended
  BY DEF Typed, RoundHasProfile, InOrder, RoundLabels, InRound, Ended
<1>5. HandlerCounts(w)'
  BY <1>1, <1>2, <1>4 DEF AttemptInv, HandlerCounts, KeepsCounts, OwnsProfile
<1> QED BY <1>3, <1>5, QuietStep

\* The outer catch keeps only the run's count.
LEMMA UnwoundCounts ==
    ASSUME AttemptInv, Typed, NEW w \in Workers, Becomes(w, Unwound(w)), h[w].pc \notin Ended,
           KeepsCounts
    PROVE  AttemptInv'
<1>1. h[w] \in Locals /\ Unwound(w) \in Locals /\ OutOfRound(h[w]) \in Locals
  BY LocalTyped, UnwoundTyped, OutOfRoundTyped DEF GoodLocal
<1>2. OutOfRound(h[w]).attempt = h[w].attempt
  BY <1>1 DEF OutOfRound, Locals
<1>3. /\ Unwound(w).pc = "catch" /\ Unwound(w).todo = {}
      /\ Unwound(w).attempt = h[w].attempt
  BY <1>1, <1>2 DEF Unwound, Locals
<1>4. Unvisited(Unwound(w)) = {}
  BY <1>3 DEF Unvisited
<1>5. "catch" \notin InRound \cup {"profileCatch", "idle", "claimProfile", "claiming"}
  BY DEF InRound
<1> HIDE DEF Unwound
<1> QED BY <1>1, <1>3, <1>4, <1>5, OutsideCounts

\* A handler that has ended keeps no count.
LEMMA GoneCounts ==
    ASSUME AttemptInv, Typed, NEW w \in Workers, NEW label \in Ended, Becomes(w, Gone(label)),
           KeepsCounts
    PROVE  AttemptInv'
<1>1. Gone(label) \in Locals
  BY GoneTyped DEF GoodLocal
<1>2. Gone(label).pc = label /\ Gone(label).todo = {}
  BY DEF Gone, Idle
<1>3. Unvisited(Gone(label)) = {}
  BY <1>2 DEF Unvisited, Ended
<1>4. label \notin InRound \cup {"profileCatch", "idle", "claimProfile", "claiming"}
  BY DEF InRound, Ended
<1> HIDE DEF Gone
<1> QED BY <1>1, <1>2, <1>3, <1>4, OutsideCounts

\* Between two rounds only the run's count is kept.
LEMMA NextRoundCounts ==
    ASSUME AttemptInv, Typed, NEW w \in Workers, NextRound(w), h[w].pc \in RoundLabels,
           KeepsCounts
    PROVE  AttemptInv'
<1> DEFINE local == [OutOfRound(h[w]) EXCEPT !.pc = "nextProfile"]
<1>1. h[w] \in Locals /\ OutOfRound(h[w]) \in Locals
  BY LocalTyped, OutOfRoundTyped DEF GoodLocal
<1>2. OutOfRound(h[w]).attempt = h[w].attempt /\ OutOfRound(h[w]).todo = h[w].todo
  BY <1>1 DEF OutOfRound, Locals
<1>3. "nextProfile" \in Labels BY DEF Labels, Awaiting
<1>4. /\ local \in Locals /\ local.pc = "nextProfile"
      /\ local.todo = h[w].todo /\ local.attempt = h[w].attempt
  BY <1>1, <1>2, <1>3 DEF Locals
<1>5. Becomes(w, local) BY DEF NextRound
<1> HIDE DEF local
<1>6. Unvisited(local) \subseteq Unvisited(h[w])
  BY <1>4 DEF Unvisited
<1>7. h[w].pc \notin Ended /\ local.pc \notin InRound \cup {"profileCatch", "idle", "claimProfile", "claiming"}
  BY <1>4 DEF RoundLabels, InRound, Ended
<1> QED BY <1>4, <1>5, <1>6, <1>7, OutsideCounts

\* Refreshing the run row disturbs no count.
LEMMA RefreshCounts ==
    ASSUME AttemptInv, Typed, NEW w \in Workers, NEW next, RefreshRun(w, next),
           h[w].pc \notin Ended, UNCHANGED prof,
           Becomes(w, next) /\ KeepsCounts => AttemptInv'
    PROVE  AttemptInv'
<1>1. run'.status = run.status /\ run'.lease = run.lease /\ run'.attempt = run.attempt
  BY DEF RefreshRun, Typed, TypeOK, RunRows
<1>2. KeepsCounts BY <1>1 DEF KeepsCounts
<1> QED BY <1>2, UnwoundCounts DEF RefreshRun

\* Every step keeps the handlers' counts equal to the rows they own.
LEMMA NextAttempts == ASSUME AttemptInv, Typed, AbsentRowsAreUntried, [Next]_vars PROVE AttemptInv'
<1> USE DEF At
<1>t. TypeOK /\ RoundHasProfile BY DEF Typed
<1>l. \A w \in Workers : h[w] \in Locals BY LocalTyped DEF GoodLocal
<1>1. ASSUME NEW w \in Workers, ClaimRun(w) PROVE AttemptInv'
  <2> DEFINE local == [Idle EXCEPT !.pc = "sources", !.attempt = run.attempt + 1]
  <2>1. /\ local.pc = "sources" /\ local.attempt = run.attempt + 1
    BY DEF Idle
  <2>2. /\ h'[w] = local
        /\ \A v \in Workers : v # w => h'[v] = h[v]
        /\ run'.status = "running" /\ run'.lease = w /\ run'.attempt = run.attempt + 1
    BY <1>1, <1>t DEF ClaimRun, Becomes, TypeOK
  <2>3. run.attempt \in Nat /\ run.attempt < MaxDailyAttempts
    BY <1>1, <1>t, AttemptLimits DEF ClaimRun, RunClaimable, AbsentRowsAreUntried, TypeOK, RunRows
  <2>4. \A p \in Profiles :
           /\ prof'[p].attempt = prof[p].attempt
           /\ prof'[p].lease = prof[p].lease
           /\ prof'[p].status = "running" => prof[p].status = "running"
           /\ prof[p].attempt \in Nat
    BY <1>1, <1>t DEF ClaimRun, Fenced, TypeOK, ProfileRows
  <2>5. \A p \in Profiles : prof'[p].attempt < run.attempt + 1
    BY <1>t, <2>3, <2>4, AttemptsAreFew DEF AttemptInv
  <2>6. RetryableHasAttemptLeft'
    BY <2>2, <2>3, <2>4, <2>5, AttemptLimits DEF AttemptInv, RetryableHasAttemptLeft
  <2>7. ClaimsAreFew'
    <3> SUFFICES ASSUME NEW p \in Profiles
                 PROVE  /\ IsFiniteSet(Pending(p)')
                        /\ prof'[p].attempt + Cardinality(Pending(p)') <= run'.attempt
      BY DEF ClaimsAreFew
    <3> DEFINE before == Pending(p)
               after == Pending(p)'
    <3>1. IsFiniteSet(before) /\ prof[p].attempt + Cardinality(before) <= run.attempt
      BY DEF AttemptInv, ClaimsAreFew
    <3>2. after = before \cup {w}
      BY <2>1, <2>2 DEF Pending, Unvisited
    <3> HIDE DEF before, after
    <3>3. IsFiniteSet(after) /\ Cardinality(after) <= Cardinality(before) + 1
      <4>1. Cardinality(before) \in Nat BY <3>1, FS_CardinalityType
      <4> QED BY <3>1, <3>2, <4>1, FS_AddElement
    <3>4. Cardinality(before) \in Nat /\ Cardinality(after) \in Nat
      BY <3>1, <3>3, FS_CardinalityType
    <3>5. prof'[p].attempt + Cardinality(after) <= run'.attempt
      BY <2>2, <2>3, <2>4, <3>1, <3>3, <3>4
    <3> QED BY <3>3, <3>5 DEF after
  <2> HIDE DEF local
  <2>8. HandlerCounts(w)'
    BY <2>1, <2>2 DEF HandlerCounts, InRound
  <2>9. ASSUME NEW v \in Workers, v # w PROVE HandlerCounts(v)'
    <3>1. h'[v] = h[v] /\ run'.lease # v
      BY <2>2, <2>9
    <3>2. h[v].pc \in InRound \cup {"profileCatch"} => h[v].cur \in Profiles
      BY <1>t DEF RoundHasProfile, InOrder, RoundLabels
    <3> QED BY <2>4, <3>1, <3>2 DEF AttemptInv, HandlerCounts, OwnsProfile
  <2> QED BY <2>6, <2>7, <2>8, <2>9 DEF AttemptInv
<1>2. ASSUME NEW w \in Workers, RefreshSources(w) PROVE AttemptInv'
  <2>1. PICK bad \in SUBSET {"ingest"} :
            RefreshRun(w, [h[w] EXCEPT !.pc = "heartbeat", !.failed = bad])
    BY <1>2 DEF RefreshSources
  <2> DEFINE local == [h[w] EXCEPT !.pc = "heartbeat", !.failed = bad]
  <2>2. /\ local \in Locals /\ local.pc = "heartbeat" /\ local.attempt = h[w].attempt
        /\ local.todo = h[w].todo
    BY <1>l DEF Locals, Labels, Awaiting
  <2>3. RefreshRun(w, local) BY <2>1
  <2> HIDE DEF local
  <2>4. Unvisited(local) \subseteq Unvisited(h[w])
    BY <1>2, <2>2 DEF RefreshSources, Unvisited
  <2>5. h[w].pc \notin Ended /\ local.pc \notin InRound \cup {"profileCatch", "idle", "claimProfile", "claiming"}
    BY <1>2, <2>2 DEF RefreshSources, InRound, Ended
  <2> QED BY <1>2, <2>2, <2>3, <2>4, <2>5, RefreshCounts, OutsideCounts DEF RefreshSources
<1>3. ASSUME NEW w \in Workers, HeartbeatBeforeTemporal(w) PROVE AttemptInv'
  <2> DEFINE local == [h[w] EXCEPT !.pc = "temporal"]
  <2>2. /\ local \in Locals /\ local.pc = "temporal" /\ local.attempt = h[w].attempt
        /\ local.todo = h[w].todo
    BY <1>l DEF Locals, Labels, Awaiting
  <2>3. RefreshRun(w, local) BY <1>3 DEF HeartbeatBeforeTemporal
  <2> HIDE DEF local
  <2>4. Unvisited(local) \subseteq Unvisited(h[w])
    BY <1>3, <2>2 DEF HeartbeatBeforeTemporal, Unvisited
  <2>5. h[w].pc \notin Ended /\ local.pc \notin InRound \cup {"profileCatch", "idle", "claimProfile", "claiming"}
    BY <1>3, <2>2 DEF HeartbeatBeforeTemporal, InRound, Ended
  <2> QED BY <1>3, <2>2, <2>3, <2>4, <2>5, RefreshCounts, OutsideCounts DEF HeartbeatBeforeTemporal
<1>4. ASSUME NEW w \in Workers, RecordTemporal(w) PROVE AttemptInv'
  <2>1. PICK bad \in SUBSET {"temporal"} :
            RefreshRun(w, [h[w] EXCEPT !.pc = "eligibility", !.failed = @ \cup bad])
    BY <1>4 DEF RecordTemporal
  <2> DEFINE local == [h[w] EXCEPT !.pc = "eligibility", !.failed = @ \cup bad]
  <2>2. /\ local \in Locals /\ local.pc = "eligibility" /\ local.attempt = h[w].attempt
        /\ local.todo = h[w].todo
    BY <1>l DEF Locals, Labels, Awaiting
  <2>3. RefreshRun(w, local) BY <2>1
  <2> HIDE DEF local
  <2>4. Unvisited(local) \subseteq Unvisited(h[w])
    BY <1>4, <2>2 DEF RecordTemporal, Unvisited
  <2>5. h[w].pc \notin Ended /\ local.pc \notin InRound \cup {"profileCatch", "idle", "claimProfile", "claiming"}
    BY <1>4, <2>2 DEF RecordTemporal, InRound, Ended
  <2> QED BY <1>4, <2>2, <2>3, <2>4, <2>5, RefreshCounts, OutsideCounts DEF RecordTemporal
<1>5. ASSUME NEW w \in Workers, LoadEligibleProfiles(w) PROVE AttemptInv'
  <2>1. PICK eligible \in SUBSET Profiles :
            Becomes(w, [h[w] EXCEPT !.pc = "nextProfile", !.todo = eligible,
                          !.failed = IF eligible = {} THEN @ \ {"ingest"} ELSE @])
    BY <1>5 DEF LoadEligibleProfiles
  <2> DEFINE local == [h[w] EXCEPT !.pc = "nextProfile", !.todo = eligible,
                         !.failed = IF eligible = {} THEN @ \ {"ingest"} ELSE @]
  <2>2. /\ local \in Locals /\ local.pc = "nextProfile" /\ local.attempt = h[w].attempt
        /\ local.todo = eligible
    BY <1>l DEF Locals, Labels, Awaiting
  <2>3. Becomes(w, local) BY <2>1
  <2> HIDE DEF local
  <2>4. Unvisited(local) \subseteq Unvisited(h[w])
    BY <1>5, <2>2 DEF LoadEligibleProfiles, Unvisited
  <2>5. h[w].pc \notin Ended /\ local.pc \notin InRound \cup {"profileCatch", "idle", "claimProfile", "claiming"}
    BY <1>5, <2>2 DEF LoadEligibleProfiles, InRound, Ended
  <2>6. KeepsCounts BY <1>5 DEF LoadEligibleProfiles, KeepsCounts
  <2> QED BY <2>2, <2>3, <2>4, <2>5, <2>6, OutsideCounts
<1>q. ASSUME UNCHANGED <<run, prof>> PROVE KeepsCounts
  BY <1>q DEF KeepsCounts
<1>6. ASSUME NEW w \in Workers, HeartbeatForProfile(w) PROVE AttemptInv'
  <2>1. PICK p \in h[w].todo :
            RefreshRun(w, [h[w] EXCEPT !.pc = "claimProfile", !.cur = p, !.todo = @ \ {p}])
    BY <1>6 DEF HeartbeatForProfile
  <2> DEFINE local == [h[w] EXCEPT !.pc = "claimProfile", !.cur = p, !.todo = @ \ {p}]
  <2>2. /\ local.pc = "claimProfile" /\ local.attempt = h[w].attempt
        /\ local.todo = h[w].todo \ {p} /\ local.cur = p
    BY <1>l DEF Locals
  <2>3. RefreshRun(w, local) BY <2>1
  <2> HIDE DEF local
  <2>4. Unvisited(local) \subseteq Unvisited(h[w])
    BY <2>2 DEF Unvisited
  <2>5. h[w].pc \notin Ended \cup {"idle"} /\ UNCHANGED prof
    BY <1>6 DEF HeartbeatForProfile, Ended
  <2>6. ASSUME Becomes(w, local), KeepsCounts PROVE AttemptInv'
    <3>1. h'[w] = local BY <1>t, <2>6 DEF Becomes, TypeOK
    <3>2. HandlerCounts(w)'
      BY <2>2, <2>5, <2>6, <3>1 DEF AttemptInv, HandlerCounts, KeepsCounts, InRound
    <3> QED BY <2>4, <2>6, <3>2, QuietStep
  <2> QED BY <2>3, <2>5, <2>6, RefreshCounts
<1>b. ASSUME NEW w \in Workers, BeginClaim(w) PROVE AttemptInv'
  <2> DEFINE local == [h[w] EXCEPT !.pc = "claiming"]
  <2>1. /\ local.pc = "claiming" /\ local.attempt = h[w].attempt
        /\ local.todo = h[w].todo /\ local.cur = h[w].cur
    BY <1>l DEF Locals
  <2>2. Becomes(w, local) /\ h[w].pc = "claimProfile" /\ KeepsCounts
    BY <1>b, <1>q DEF BeginClaim, Goto
  <2>3. h'[w] = local
    BY <1>t, <2>2 DEF Becomes, TypeOK
  <2> HIDE DEF local
  <2>4. Unvisited(local) \subseteq Unvisited(h[w])
    BY <2>1, <2>2 DEF Unvisited
  <2>5. HandlerCounts(w)'
    BY <2>1, <2>2, <2>3 DEF AttemptInv, HandlerCounts, KeepsCounts, InRound, Ended
  <2> QED BY <2>2, <2>4, <2>5, QuietStep
<1>7. ASSUME NEW w \in Workers, ClaimProfile(w) PROVE AttemptInv'
  <2>p. PICK p \in Profiles : p = h[w].cur
    BY <1>7, <1>t DEF ClaimProfile, RoundHasProfile, InOrder, RoundLabels
  <2> USE <2>p
  <2>1. p \in Profiles /\ prof[p] \in ProfileRows /\ p \notin h[w].todo /\ h[w].todo \subseteq Profiles
    BY <1>7, <1>t, <1>l
    DEF ClaimProfile, RoundHasProfile, InOrder, RoundLabels, TypeOK, AttemptInv, HandlerCounts, Locals
  <2>2. /\ prof'[p] = [prof[p] EXCEPT !.status = "running", !.lease = w,
                                     !.attempt = prof[p].attempt + 1,
                                     !.claim = IF OwnsRun(w) THEN "timely" ELSE "late"]
        /\ \A q \in Profiles : q # p => prof'[q] = prof[q]
        /\ \A v \in Workers : v # w => h'[v] = h[v]
        /\ UNCHANGED run
    BY <1>7, <1>t, <2>1 DEF ClaimProfile, Becomes, TypeOK
  <2>3. prof'[p].attempt = prof[p].attempt + 1 /\ prof'[p].lease = w /\ prof'[p].status = "running"
    BY <2>1, <2>2 DEF ProfileRows
  <2>4. h[w].pc = "claiming"
    BY <1>7 DEF ClaimProfile
  <2>5. \A q \in Profiles : prof[q].attempt \in Nat /\ run.attempt \in Nat
    BY <1>t DEF TypeOK, ProfileRows, RunRows
  <2>6. RetryableHasAttemptLeft'
    BY <2>1, <2>2, <2>3 DEF AttemptInv, RetryableHasAttemptLeft
  <2> DEFINE taken == [h[w] EXCEPT !.pc = IF prof[p].digest = None THEN "digest" ELSE "enrich",
                                   !.tries = prof[p].attempt + 1, !.digest = prof[p].digest]
  <2>a. /\ taken.pc \in {"digest", "enrich"}
        /\ taken.cur = p /\ taken.tries = prof[p].attempt + 1
        /\ taken.todo = h[w].todo /\ taken.attempt = h[w].attempt
    BY <1>l DEF Locals
  <2>b. h'[w] = taken \/ h'[w] = Unwound(w)
    BY <1>7, <1>t DEF ClaimProfile, Becomes, TypeOK
  <2> HIDE DEF taken
  <2>c. h'[w] = Unwound(w) =>
           h'[w].pc = "catch" /\ h'[w].todo = {} /\ h'[w].attempt = h[w].attempt
    <3>1. OutOfRound(h[w]) \in Locals BY <1>l, OutOfRoundTyped
    <3>2. OutOfRound(h[w]).attempt = h[w].attempt
      BY <1>l DEF OutOfRound, Locals
    <3> QED BY <3>1, <3>2 DEF Unwound, Locals
  <2>d. Unvisited(h'[w]) \subseteq h[w].todo
    BY <2>a, <2>b, <2>c DEF Unvisited
  <2>7. ClaimsAreFew'
    <3>1. ASSUME NEW q \in Profiles PROVE Pending(q)' \subseteq Pending(q)
      <4>1. h[w].todo \subseteq Unvisited(h[w])
        BY <2>1 DEF Unvisited
      <4> QED BY <2>2, <2>d, <4>1 DEF Pending
    <3>2. ASSUME NEW q \in Profiles \ {p}
          PROVE  /\ IsFiniteSet(Pending(q)')
                 /\ prof'[q].attempt + Cardinality(Pending(q)') <= run'.attempt
      BY <1>t, <2>2, <3>1, <3>2, FewerClaims DEF AttemptInv
    <3>3. IsFiniteSet(Pending(p)') /\ prof'[p].attempt + Cardinality(Pending(p)') <= run'.attempt
      <4> DEFINE before == Pending(p)
                 after == Pending(p)'
      <4>1. IsFiniteSet(before) /\ prof[p].attempt + Cardinality(before) <= run.attempt
        BY <2>1 DEF AttemptInv, ClaimsAreFew
      <4>2. w \in before /\ after \subseteq before \ {w}
        <5>1. w \in before
          BY <2>1, <2>4 DEF Pending, Unvisited
        <5>2. w \notin after
          BY <2>1, <2>d DEF Pending
        <5> QED BY <3>1, <5>1, <5>2
      <4> HIDE DEF before, after
      <4>3. IsFiniteSet(before \ {w}) /\ Cardinality(before \ {w}) = Cardinality(before) - 1
        BY <4>1, <4>2, FS_RemoveElement
      <4>4. IsFiniteSet(after) /\ Cardinality(after) <= Cardinality(before \ {w})
        BY <4>2, <4>3, FS_Subset
      <4>5. Cardinality(before) \in Nat /\ Cardinality(after) \in Nat
        BY <4>1, <4>4, FS_CardinalityType
      <4>6. prof'[p].attempt + Cardinality(after) <= run'.attempt
        BY <2>1, <2>2, <2>3, <2>5, <4>1, <4>3, <4>4, <4>5
      <4> QED BY <4>4, <4>6 DEF after
    <3> QED BY <3>2, <3>3 DEF ClaimsAreFew
  <2>8. ASSUME NEW v \in Workers, v # w PROVE HandlerCounts(v)'
    <3>1. h'[v] = h[v]
      BY <2>2, <2>8
    <3>2. CASE h[v].cur = p
      <4>0. h'[v].cur = p /\ run' = run
        BY <2>2, <3>1, <3>2
      <4>1. prof'[h'[v].cur].lease # v
        BY <2>3, <2>8, <3>1, <4>0
      <4>2. ~OwnsProfile(v, h[v].cur)'
        BY <4>1 DEF OwnsProfile
      <4> QED BY <3>1, <4>0, <4>2 DEF AttemptInv, HandlerCounts
    <3>3. CASE h[v].cur # p /\ h[v].cur \in Profiles
      BY <2>2, <3>1, <3>3 DEF AttemptInv, HandlerCounts, OwnsProfile
    <3>4. CASE h[v].cur \notin Profiles
      BY <1>t, <2>2, <3>1, <3>4
      DEF AttemptInv, HandlerCounts, RoundHasProfile, InOrder, RoundLabels, InRound
    <3> QED BY <3>2, <3>3, <3>4
  <2>9. HandlerCounts(w)'
    <3>1. run.lease = w => h[w].attempt = run.attempt
      BY <2>4 DEF AttemptInv, HandlerCounts, Ended
    <3>2. CASE h'[w] = taken
      BY <2>2, <2>3, <2>a, <3>1, <3>2 DEF HandlerCounts, Ended
    <3>3. CASE h'[w] = Unwound(w)
      BY <2>2, <2>c, <3>1, <3>3 DEF HandlerCounts, InRound
    <3> QED BY <2>b, <3>2, <3>3
  <2> QED BY <2>6, <2>7, <2>8, <2>9 DEF AttemptInv
<1>8. ASSUME NEW w \in Workers, SkipProfile(w) PROVE AttemptInv'
  BY <1>8, <1>q, NextRoundCounts DEF SkipProfile, RoundLabels
<1>9. ASSUME NEW w \in Workers, RunDigest(w) PROVE AttemptInv'
  <2> DEFINE local == [h[w] EXCEPT !.pc = "attach", !.digest = w]
  <2>1. /\ local \in Locals /\ local.pc = "attach" /\ local.attempt = h[w].attempt
        /\ local.todo = h[w].todo /\ local.cur = h[w].cur /\ local.tries = h[w].tries
    BY <1>l DEF Locals, Labels, InRound
  <2>2. Becomes(w, local) BY <1>9 DEF RunDigest
  <2> HIDE DEF local
  <2> QED BY <1>9, <1>q, <2>1, <2>2, InsideCounts DEF RunDigest, InRound
<1>g. ASSUME NEW w \in Workers, NEW label \in InRound \cup {"profileCatch"},
             label # "finishProfile", h[w].pc \in InRound, Goto(w, label), KeepsCounts
      PROVE  AttemptInv'
  <2> DEFINE local == [h[w] EXCEPT !.pc = label]
  <2>1. /\ local \in Locals /\ local.pc = label /\ local.attempt = h[w].attempt
        /\ local.todo = h[w].todo /\ local.cur = h[w].cur /\ local.tries = h[w].tries
    BY <1>l DEF Locals, Labels
  <2>2. Becomes(w, local) BY <1>g DEF Goto
  <2> HIDE DEF local
  <2> QED BY <1>g, <2>1, <2>2, InsideCounts
<1>10. ASSUME NEW w \in Workers, AttachDigestRun(w) PROVE AttemptInv'
  <2>1. KeepsCounts
    BY <1>10, <1>t DEF AttachDigestRun, KeepsCounts, TypeOK, ProfileRows
  <2> QED BY <1>10, <1>g, <2>1 DEF AttachDigestRun, InRound
<1>11. ASSUME NEW w \in Workers, StartDelivery(w) PROVE AttemptInv'
  BY <1>11, <1>q, <1>g DEF StartDelivery, InRound
<1>12. ASSUME NEW w \in Workers, EndDelivery(w) PROVE AttemptInv'
  <2>1. PICK failures \in SUBSET FailureStates :
            Becomes(w, [h[w] EXCEPT !.pc = "finishProfile",
                                    !.outcome = DeliveryOutcome(h[w].tries, failures)])
    BY <1>12 DEF EndDelivery
  <2> DEFINE local == [h[w] EXCEPT !.pc = "finishProfile",
                                   !.outcome = DeliveryOutcome(h[w].tries, failures)]
  <2>2. DeliveryOutcome(h[w].tries, failures) \in ProfileStatuses
    BY DEF DeliveryOutcome, ProfileStatuses
  <2>3. /\ local \in Locals /\ local.pc = "finishProfile" /\ local.attempt = h[w].attempt
        /\ local.todo = h[w].todo /\ local.cur = h[w].cur /\ local.tries = h[w].tries
        /\ local.outcome = DeliveryOutcome(h[w].tries, failures)
    BY <1>l, <2>2 DEF Locals, Labels, InRound
  <2>4. Becomes(w, local) BY <2>1
  <2> HIDE DEF local
  <2>5. local.outcome = "failed_retryable" => local.tries < MaxProfileAttempts
    <3>1. h[w].tries \in Nat BY <1>l DEF Locals
    <3> QED BY <2>3, <3>1, AttemptLimits DEF DeliveryOutcome
  <2> QED BY <1>12, <1>q, <2>3, <2>4, <2>5, InsideCounts DEF EndDelivery, InRound
<1>13. ASSUME NEW w \in Workers, FinishProfile(w) PROVE AttemptInv'
  <2>1. KeepsCounts
    <3>1. CASE OwnsProfile(w, h[w].cur)
      <4>1. h[w].cur \in Profiles
        BY <1>13, <1>t DEF FinishProfile, RoundHasProfile, InOrder, RoundLabels, InRound
      <4>2. h[w].outcome = "failed_retryable" => prof[h[w].cur].attempt < MaxProfileAttempts
        BY <1>13, <3>1 DEF FinishProfile, AttemptInv, HandlerCounts, InRound
      <4> QED BY <1>13, <1>t, <3>1, <4>1, <4>2
              DEF FinishProfile, KeepsCounts, OwnsProfile, TypeOK, ProfileRows
    <3>2. CASE ~OwnsProfile(w, h[w].cur)
      BY <1>13, <3>2, <1>q DEF FinishProfile
    <3> QED BY <3>1, <3>2
  <2> QED BY <1>13, <1>g, <2>1, NextRoundCounts DEF FinishProfile, InRound, RoundLabels
<1>14. ASSUME NEW w \in Workers, CatchProfile(w) PROVE AttemptInv'
  <2>1. KeepsCounts
    <3>1. CASE UNCHANGED prof
      BY <1>14, <3>1, <1>q DEF CatchProfile
    <3>2. CASE OwnsProfile(w, h[w].cur)
               /\ prof' = [prof EXCEPT ![h[w].cur].status = CaughtStatus(h[w].tries)]
      <4>1. h[w].cur \in Profiles
        BY <1>14, <1>t DEF CatchProfile, RoundHasProfile, InOrder, RoundLabels
      <4>2. h[w].tries = prof[h[w].cur].attempt /\ h[w].tries \in Nat
        BY <1>14, <1>l, <3>2 DEF CatchProfile, AttemptInv, HandlerCounts, Locals
      <4>3. CaughtStatus(h[w].tries) = "failed_retryable" =>
               prof[h[w].cur].attempt < MaxProfileAttempts
        BY <4>2, AttemptLimits DEF CaughtStatus
      <4>4. CaughtStatus(h[w].tries) # "running"
        BY DEF CaughtStatus
      <4> QED BY <1>14, <1>t, <3>2, <4>1, <4>3, <4>4
              DEF CatchProfile, KeepsCounts, TypeOK, ProfileRows
    <3> QED BY <1>14, <3>1, <3>2 DEF CatchProfile
  <2> QED BY <1>14, <2>1, NextRoundCounts DEF CatchProfile, RoundLabels
<1>15. ASSUME NEW w \in Workers, SummarizeProfiles(w) PROVE AttemptInv'
  <2> DEFINE local == [h[w] EXCEPT !.pc = "finishRun", !.final = FinalStatus(w), !.failed = {}]
  <2>1. FinalStatus(w) \in RunStatuses BY DEF FinalStatus, RunStatuses
  <2>2. /\ local \in Locals /\ local.pc = "finishRun" /\ local.attempt = h[w].attempt
        /\ local.todo = h[w].todo
    BY <1>l, <2>1 DEF Locals, Labels, Awaiting
  <2>3. Becomes(w, local) BY <1>15 DEF SummarizeProfiles
  <2> HIDE DEF local
  <2>4. Unvisited(local) \subseteq Unvisited(h[w])
    BY <2>2 DEF Unvisited
  <2>5. h[w].pc \notin Ended /\ local.pc \notin InRound \cup {"profileCatch", "idle", "claimProfile", "claiming"}
    BY <1>15, <2>2 DEF SummarizeProfiles, InRound, Ended
  <2> QED BY <1>15, <1>q, <2>2, <2>3, <2>4, <2>5, OutsideCounts DEF SummarizeProfiles
<1>f. ASSUME NEW w \in Workers, NEW status, OwnsRun(w), h[w].pc \notin Ended,
             run' = Finished(w, status), UNCHANGED prof
      PROVE  KeepsCounts
  <2>1. h[w].attempt = run.attempt
    BY <1>f DEF OwnsRun, AttemptInv, HandlerCounts
  <2>2. run'.status = Persisted(w, status) /\ run'.lease = run.lease /\ run'.attempt = run.attempt
    BY <1>f, <1>t DEF Finished, TypeOK, RunRows
  <2>3. run.attempt \in Nat BY <1>t DEF TypeOK, RunRows
  <2>4. run'.status \in {"partial", "failed"} => run.attempt < MaxDailyAttempts
    BY <2>1, <2>2, <2>3, AttemptLimits DEF Persisted
  <2> QED BY <1>f, <2>2, <2>4 DEF KeepsCounts
<1>16. ASSUME NEW w \in Workers, FinishRun(w) PROVE AttemptInv'
  <2>1. h[w].pc \notin Ended /\ "done" \in Ended BY <1>16 DEF FinishRun, Ended
  <2>2. KeepsCounts
    BY <1>16, <1>f, <1>q, <2>1 DEF FinishRun
  <2> QED BY <1>16, <2>1, <2>2, GoneCounts, UnwoundCounts DEF FinishRun, Answer
<1>17. ASSUME NEW w \in Workers, CatchRun(w) \/ AbandonRun(w) PROVE AttemptInv'
  <2>1. h[w].pc \notin Ended /\ {"done", "abandoned"} \subseteq Ended
    BY <1>17 DEF CatchRun, AbandonRun, Ended
  <2>2. KeepsCounts
    BY <1>17, <1>f, <1>q, <2>1 DEF CatchRun, AbandonRun
  <2> QED BY <1>17, <2>1, <2>2, GoneCounts DEF CatchRun, AbandonRun, Answer
<1>18. ASSUME NEW w \in Workers, Throw(w) PROVE AttemptInv'
  <2>1. h[w].pc \in InRound \cup Awaiting => h[w].pc \notin Ended
    BY DEF InRound, Awaiting, Ended
  <2>2. "profileCatch" # "finishProfile" OBVIOUS
  <2> QED BY <1>18, <1>q, <1>g, <2>1, <2>2, UnwoundCounts DEF Throw
<1>19. ASSUME NEW w \in Workers, Crash(w) PROVE AttemptInv'
  BY <1>19, <1>q, GoneCounts DEF Crash, Ended
<1>20. CASE (TwoHoursPass \/ BackoffElapses) \/ UNCHANGED vars
  <2>1. /\ run'.status = run.status /\ run'.lease = run.lease /\ run'.attempt = run.attempt
        /\ UNCHANGED <<prof, h>>
    BY <1>20, <1>t DEF TwoHoursPass, BackoffElapses, vars, TypeOK, RunRows
  <2>2. ClaimsAreFew'
    <3>1. \A p \in Profiles : Pending(p)' = Pending(p)
      BY <2>1 DEF Pending
    <3> QED BY <2>1, <3>1 DEF AttemptInv, ClaimsAreFew
  <2> QED BY <2>1, <2>2 DEF AttemptInv, RetryableHasAttemptLeft, HandlerCounts, OwnsProfile
<1> QED
  BY <1>1, <1>2, <1>3, <1>4, <1>5, <1>6, <1>b, <1>7, <1>8, <1>9, <1>10, <1>11, <1>12, <1>13,
     <1>14, <1>15, <1>16, <1>17, <1>18, <1>19, <1>20 DEF Next, Step

\* Whatever wrote it, a status that promises a retry leaves an attempt for it.
THEOREM RetryableIsRetryable == Spec => []RetryableHasAttemptLeft
<1>1. ASSUME Init PROVE AttemptInv
  <2>1. \A w \in Workers : Unvisited(h[w]) = {}
    BY <1>1 DEF Init, Idle, Unvisited
  <2>2. \A p \in Profiles : Pending(p) = {}
    BY <2>1 DEF Pending
  <2>3. ClaimsAreFew
    BY <1>1, <2>2, FS_EmptySet DEF Init, ClaimsAreFew
  <2> QED BY <1>1, <2>3, NoneIsNothing
          DEF Init, AttemptInv, RetryableHasAttemptLeft, HandlerCounts, Idle, InRound
<1>2. Spec => []AttemptInv
  BY <1>1, NextAttempts, AlwaysTyped, PTL DEF Spec
<1> QED BY <1>2, PTL DEF AttemptInv

-----------------------------------------------------------------------------
(* Completed means completed *)

Closed == \A p \in Profiles : prof[p].claim = "late" \/ prof[p].status \in {"absent", "completed"}

\* What a handler found when it summarized still holds while it owns the run.
CompletedInv ==
    /\ run.status = "completed" => Closed
    /\ CompletedReplyIsDurable
    /\ \A w \in Workers :
          h[w].pc = "finishRun" /\ h[w].final = "completed" /\ OwnsRun(w) => Closed

\* Only the summary leads to the last statement of a handler.
LEMMA OnlySummaryFinishes ==
    ASSUME Typed, [Next]_vars, NEW w \in Workers, h'[w].pc = "finishRun"
    PROVE  h'[w] = h[w] \/ SummarizeProfiles(w)
<1> SUFFICES ASSUME h'[w] # h[w] PROVE SummarizeProfiles(w)
  OBVIOUS
<1>t. h \in [Workers -> Locals] BY DEF Typed, TypeOK
<1>b. ASSUME NEW v \in Workers, NEW local, Becomes(v, local) PROVE v = w /\ local.pc = "finishRun"
  BY <1>b, <1>t DEF Becomes
<1>l. /\ h[w] \in Locals /\ OutOfRound(h[w]) \in Locals
      /\ [OutOfRound(h[w]) EXCEPT !.pc = "nextProfile"].pc = "nextProfile"
  <2>1. h[w] \in Locals /\ OutOfRound(h[w]) \in Locals
    BY <1>t, OutOfRoundTyped
  <2> QED BY <2>1 DEF Locals
<1>u. Unwound(w).pc = "catch"
  BY <1>l DEF Unwound, Locals
<1>g. \A label \in Ended : Gone(label).pc = label /\ label # "finishRun"
  BY DEF Gone, Idle, Ended
<1>1. ASSUME NEW v \in Workers, NEW next, RefreshRun(v, next), next.pc # "finishRun" PROVE FALSE
  BY <1>1, <1>b, <1>u DEF RefreshRun
<1>2. ASSUME NEW v \in Workers, NextRound(v) PROVE FALSE
  BY <1>2, <1>b, <1>l DEF NextRound
<1>3. ASSUME NEW v \in Workers, NEW label, Goto(v, label), label # "finishRun" PROVE FALSE
  <2>1. v = w /\ [h[w] EXCEPT !.pc = label].pc = "finishRun"
    BY <1>3, <1>b DEF Goto
  <2> QED BY <1>3, <1>l, <2>1 DEF Locals
<1>4. ASSUME NEW v \in Workers, NEW label \in Ended, Becomes(v, Gone(label)) PROVE FALSE
  BY <1>4, <1>b, <1>g
<1>5. ASSUME NEW v \in Workers, Becomes(v, Unwound(v)) PROVE FALSE
  BY <1>5, <1>b, <1>u
<1>6. ASSUME NEW v \in Workers, ClaimRun(v) PROVE FALSE
  <2>1. [Idle EXCEPT !.pc = "sources", !.attempt = run.attempt + 1].pc = "sources"
    BY DEF Idle
  <2> QED BY <1>6, <1>b, <2>1 DEF ClaimRun
<1>7. ASSUME NEW v \in Workers, RefreshSources(v) PROVE FALSE
  <2>1. h[v] \in Locals BY <1>t
  <2>2. \A bad : [h[v] EXCEPT !.pc = "heartbeat", !.failed = bad].pc = "heartbeat"
    BY <2>1 DEF Locals
  <2> QED BY <1>1, <1>7, <2>2 DEF RefreshSources
<1>8. ASSUME NEW v \in Workers, HeartbeatBeforeTemporal(v) PROVE FALSE
  <2>1. h[v] \in Locals BY <1>t
  <2>2. [h[v] EXCEPT !.pc = "temporal"].pc = "temporal"
    BY <2>1 DEF Locals
  <2> QED BY <1>1, <1>8, <2>2 DEF HeartbeatBeforeTemporal
<1>9. ASSUME NEW v \in Workers, RecordTemporal(v) PROVE FALSE
  <2>1. h[v] \in Locals BY <1>t
  <2>2. \A bad : [h[v] EXCEPT !.pc = "eligibility", !.failed = @ \cup bad].pc = "eligibility"
    BY <2>1 DEF Locals
  <2> QED BY <1>1, <1>9, <2>2 DEF RecordTemporal
<1>10. ASSUME NEW v \in Workers, LoadEligibleProfiles(v) PROVE FALSE
  <2>1. h[v] \in Locals BY <1>t
  <2>2. \A eligible : [h[v] EXCEPT !.pc = "nextProfile", !.todo = eligible,
           !.failed = IF eligible = {} THEN @ \ {"ingest"} ELSE @].pc = "nextProfile"
    BY <2>1 DEF Locals
  <2> QED BY <1>b, <1>10, <2>2 DEF LoadEligibleProfiles
<1>11. ASSUME NEW v \in Workers, HeartbeatForProfile(v) PROVE FALSE
  <2>1. h[v] \in Locals BY <1>t
  <2>2. \A p : [h[v] EXCEPT !.pc = "claimProfile", !.cur = p, !.todo = @ \ {p}].pc = "claimProfile"
    BY <2>1 DEF Locals
  <2> QED BY <1>1, <1>11, <2>2 DEF HeartbeatForProfile
<1>12. ASSUME NEW v \in Workers, ClaimProfile(v) PROVE FALSE
  <2> DEFINE p == h[v].cur
             taken == [h[v] EXCEPT !.pc = IF prof[p].digest = None THEN "digest" ELSE "enrich",
                                   !.tries = prof[p].attempt + 1, !.digest = prof[p].digest]
  <2>1. h[v] \in Locals BY <1>t
  <2>2. taken.pc # "finishRun"
    BY <2>1 DEF Locals
  <2>3. Becomes(v, taken) \/ Becomes(v, Unwound(v))
    BY <1>12 DEF ClaimProfile
  <2> HIDE DEF taken
  <2> QED BY <1>5, <1>b, <2>2, <2>3
<1>13. ASSUME NEW v \in Workers, RunDigest(v) PROVE FALSE
  <2>1. h[v] \in Locals BY <1>t
  <2>2. [h[v] EXCEPT !.pc = "attach", !.digest = v].pc = "attach"
    BY <2>1 DEF Locals
  <2> QED BY <1>b, <1>13, <2>2 DEF RunDigest
<1>14. ASSUME NEW v \in Workers, EndDelivery(v) PROVE FALSE
  <2>1. h[v] \in Locals BY <1>t
  <2>2. \A outcome : [h[v] EXCEPT !.pc = "finishProfile", !.outcome = outcome].pc = "finishProfile"
    BY <2>1 DEF Locals
  <2> QED BY <1>b, <1>14, <2>2 DEF EndDelivery
<1>15. ASSUME NEW v \in Workers, SummarizeProfiles(v) PROVE v = w
  BY <1>b, <1>15 DEF SummarizeProfiles
<1>16. ASSUME NEW v \in Workers,
              \/ BeginClaim(v) \/ SkipProfile(v) \/ AttachDigestRun(v) \/ StartDelivery(v)
              \/ FinishProfile(v) \/ CatchProfile(v)
       PROVE  FALSE
  BY <1>2, <1>3, <1>16
  DEF BeginClaim, SkipProfile, AttachDigestRun, StartDelivery, FinishProfile, CatchProfile
<1>17. ASSUME NEW v \in Workers,
              FinishRun(v) \/ CatchRun(v) \/ AbandonRun(v) \/ Throw(v) \/ Crash(v)
       PROVE  FALSE
  BY <1>3, <1>4, <1>5, <1>17 DEF FinishRun, CatchRun, AbandonRun, Throw, Crash, Answer, Ended
<1>18. CASE UNCHANGED h
  BY <1>18
<1> QED
  BY <1>6, <1>7, <1>8, <1>9, <1>10, <1>11, <1>12, <1>13, <1>14, <1>15, <1>16, <1>17, <1>18
  DEF Next, Step, TwoHoursPass, BackoffElapses, vars

\* Nothing but the claim of a profile by the owner of the run opens one again.
LEMMA ClosedStaysClosed ==
    ASSUME Typed, Closed, [Next]_vars, \A w \in Workers : ClaimProfile(w) => ~OwnsRun(w)
    PROVE  Closed'
<1> USE DEF Closed
<1>t. TypeOK BY DEF Typed
<1>1. ASSUME NEW w \in Workers, ClaimRun(w) PROVE Closed'
  BY <1>1, <1>t DEF ClaimRun, Fenced, TypeOK, ProfileRows
<1>c. ASSUME NEW w \in Workers, ClaimProfile(w) PROVE Closed'
  <2>1. ~OwnsRun(w) /\ prof \in [Profiles -> ProfileRows]
    BY <1>c, <1>t DEF TypeOK
  <2>2. ASSUME NEW q \in Profiles, q = h[w].cur PROVE prof'[q].claim = "late"
    <3>1. prof'[q] = [prof[q] EXCEPT !.status = "running", !.lease = w,
                                     !.attempt = prof[q].attempt + 1,
                                     !.claim = IF OwnsRun(w) THEN "timely" ELSE "late"]
      BY <1>c, <2>1, <2>2 DEF ClaimProfile
    <3>2. prof[q] \in ProfileRows
      BY <2>1
    <3> QED BY <2>1, <3>1, <3>2 DEF ProfileRows
  <2>3. ASSUME NEW q \in Profiles, q # h[w].cur PROVE prof'[q] = prof[q]
    BY <1>c, <2>1, <2>3 DEF ClaimProfile
  <2> QED BY <2>2, <2>3
<1>2. ASSUME NEW w \in Workers, AttachDigestRun(w) PROVE Closed'
  BY <1>2, <1>t DEF AttachDigestRun, OwnsProfile, TypeOK, ProfileRows
<1>3. ASSUME NEW w \in Workers, FinishProfile(w) \/ CatchProfile(w) PROVE Closed'
  BY <1>3, <1>t DEF FinishProfile, CatchProfile, OwnsProfile, TypeOK, ProfileRows
<1>4. CASE UNCHANGED prof
  BY <1>4
<1> QED
  BY <1>1, <1>c, <1>2, <1>3, <1>4, TablesUnchanged
  DEF Next, Step, vars, RefreshSources, HeartbeatBeforeTemporal, RecordTemporal,
      HeartbeatForProfile, FinishRun, CatchRun, TwoHoursPass, BackoffElapses

\* Only the owner's last statement completes a run, and only the summary's result
\* is answered as completed.
LEMMA OnlyFinishCompletes ==
    ASSUME Typed, [Next]_vars
    PROVE  /\ run'.status = "completed" =>
                 \/ run.status = "completed"
                 \/ \E w \in Workers : FinishRun(w) /\ OwnsRun(w) /\ h[w].final = "completed"
           /\ \A w \in Workers : reply'[w] = "completed" =>
                 \/ reply[w] = "completed"
                 \/ run'.status = "completed"
           /\ \A w \in Workers : OwnsRun(w)' => OwnsRun(w) \/ ClaimRun(w)
           /\ run.status = "completed" => run' = run
<1> DEFINE Goal ==
      /\ run'.status = "completed" =>
            \/ run.status = "completed"
            \/ \E w \in Workers : FinishRun(w) /\ OwnsRun(w) /\ h[w].final = "completed"
      /\ \A w \in Workers : reply'[w] = "completed" =>
            \/ reply[w] = "completed"
            \/ run'.status = "completed"
      /\ \A w \in Workers : OwnsRun(w)' => OwnsRun(w) \/ ClaimRun(w)
      /\ run.status = "completed" => run' = run
<1>t. TypeOK BY DEF Typed
<1>1. ASSUME NEW w \in Workers, ClaimRun(w) PROVE Goal
  BY <1>1, <1>t DEF ClaimRun, RunClaimable, OwnsRun, TypeOK, RunRows
<1>2. ASSUME NEW w \in Workers, NEW next, RefreshRun(w, next), UNCHANGED reply PROVE Goal
  BY <1>2, <1>t DEF RefreshRun, OwnsRun, TypeOK, RunRows
<1>3. ASSUME NEW w \in Workers, FinishRun(w) PROVE Goal
  <2>1. CASE OwnsRun(w)
    <3>1. /\ run'.status = Persisted(w, h[w].final) /\ run'.lease = run.lease
          /\ run.status = "running"
      BY <1>3, <1>t, <2>1 DEF FinishRun, OwnsRun, Finished, TypeOK, RunRows
    <3>2. /\ run'.status = "completed" <=> h[w].final = "completed"
          /\ h[w].final # "running" => run'.status # "running"
      BY <3>1 DEF Persisted
    <3>3. \A v \in Workers : reply'[v] = reply[v] \/ reply'[v] = h[w].final
      BY <1>3, <1>t DEF FinishRun, Answer, TypeOK
    <3>4. \A v \in Workers : OwnsRun(v)' => OwnsRun(v)
      BY <2>1, <3>1 DEF OwnsRun
    <3> QED BY <1>3, <2>1, <3>1, <3>2, <3>3, <3>4
  <2>2. CASE ~OwnsRun(w)
    BY <1>3, <2>2 DEF FinishRun, OwnsRun
  <2> QED BY <2>1, <2>2
<1>4. ASSUME NEW w \in Workers, CatchRun(w) PROVE Goal
  <2>1. \A v \in Workers : reply'[v] = "completed" => reply[v] = "completed"
    BY <1>4, <1>t DEF CatchRun, Answer, CaughtReason, TypeOK
  <2>2. CASE OwnsRun(w)
    <3>1. /\ run'.status = Persisted(w, "failed") /\ run'.lease = run.lease
          /\ run.status = "running"
      BY <1>4, <1>t, <2>2 DEF CatchRun, OwnsRun, Finished, TypeOK, RunRows
    <3> QED BY <2>1, <3>1 DEF Persisted, OwnsRun
  <2>3. CASE ~OwnsRun(w)
    BY <1>4, <2>1, <2>3 DEF CatchRun, OwnsRun
  <2> QED BY <2>2, <2>3
<1>5. ASSUME NEW w \in Workers, AbandonRun(w) PROVE Goal
  BY <1>5, <1>t DEF AbandonRun, Answer, CaughtReason, OwnsRun, TypeOK
<1>6. ASSUME TwoHoursPass \/ BackoffElapses PROVE Goal
  BY <1>6, <1>t DEF TwoHoursPass, BackoffElapses, OwnsRun, TypeOK, RunRows
<1>7. ASSUME UNCHANGED <<run, reply>> PROVE Goal
  BY <1>7 DEF OwnsRun
<1> HIDE DEF Goal
<1>8. ASSUME NEW w \in Workers,
             \/ RefreshSources(w) \/ HeartbeatBeforeTemporal(w)
             \/ RecordTemporal(w) \/ HeartbeatForProfile(w)
      PROVE  Goal
  <2>1. CASE RefreshSources(w)
    BY <1>2, <2>1 DEF RefreshSources
  <2>2. CASE HeartbeatBeforeTemporal(w)
    BY <1>2, <2>2 DEF HeartbeatBeforeTemporal
  <2>3. CASE RecordTemporal(w)
    BY <1>2, <2>3 DEF RecordTemporal
  <2>4. CASE HeartbeatForProfile(w)
    BY <1>2, <2>4 DEF HeartbeatForProfile
  <2> QED BY <1>8, <2>1, <2>2, <2>3, <2>4
<1>9. ASSUME NEW w \in Workers,
             \/ LoadEligibleProfiles(w) \/ BeginClaim(w) \/ ClaimProfile(w) \/ SkipProfile(w)
             \/ RunDigest(w) \/ AttachDigestRun(w) \/ StartDelivery(w)
             \/ EndDelivery(w) \/ FinishProfile(w) \/ CatchProfile(w)
             \/ SummarizeProfiles(w) \/ Throw(w) \/ Crash(w)
      PROVE  UNCHANGED <<run, reply>>
  BY <1>9
  DEF LoadEligibleProfiles, BeginClaim, ClaimProfile, SkipProfile, RunDigest, AttachDigestRun,
      StartDelivery, EndDelivery, FinishProfile, CatchProfile, SummarizeProfiles,
      Throw, Crash
<1>10. Goal
  BY <1>1, <1>3, <1>4, <1>5, <1>6, <1>7, <1>8, <1>9 DEF Next, Step, vars
<1> QED BY <1>10 DEF Goal

\* Every step keeps a completed run closed.
LEMMA NextCompleted == ASSUME CompletedInv, Typed, [Next]_vars PROVE CompletedInv'
<1>t. TypeOK BY DEF Typed
<1>c. ASSUME NEW w \in Workers, ClaimProfile(w)
      PROVE  /\ h[w].pc = "claiming" /\ UNCHANGED <<run, reply>>
             /\ \A v \in Workers : h'[v].pc = "finishRun" => v # w /\ h'[v] = h[v]
  <2>1. \A v \in Workers : v # w => h'[v] = h[v]
    BY <1>c, <1>t DEF ClaimProfile, Becomes, TypeOK
  <2>2. h[w].pc = "claiming" /\ UNCHANGED <<run, reply>>
    BY <1>c DEF ClaimProfile, At
  <2>3. ~SummarizeProfiles(w)
    BY <2>2 DEF SummarizeProfiles, At
  <2>4. h'[w].pc # "finishRun"
    BY <2>2, <2>3, OnlySummaryFinishes
  <2> QED BY <2>1, <2>2, <2>4
<1>1. run'.status = "completed" => Closed'
  <2> SUFFICES ASSUME run'.status = "completed" PROVE Closed'
    OBVIOUS
  <2>1. Closed
    BY OnlyFinishCompletes DEF CompletedInv, FinishRun, At
  <2>2. ASSUME NEW w \in Workers, ClaimProfile(w) PROVE ~OwnsRun(w)
    BY <1>c, <2>2 DEF OwnsRun
  <2> QED BY <2>1, <2>2, ClosedStaysClosed
<1>2. CompletedReplyIsDurable'
  BY OnlyFinishCompletes DEF CompletedInv, CompletedReplyIsDurable
<1>3. ASSUME NEW w \in Workers, h'[w].pc = "finishRun", h'[w].final = "completed", OwnsRun(w)'
      PROVE  Closed'
  <2>1. CASE SummarizeProfiles(w)
    <3>1. h'[w].final = FinalStatus(w) /\ UNCHANGED prof
      BY <2>1, <1>t DEF SummarizeProfiles, Becomes, TypeOK, Locals
    <3>2. AllOk(w)
      BY <1>3, <3>1 DEF FinalStatus
    <3> QED BY <1>t, <3>1, <3>2 DEF AllOk, Some, Closed, TypeOK, ProfileRows, ProfileStatuses
  <2>2. CASE h'[w] = h[w]
    <3>1. ~ClaimRun(w)
      BY <1>3, <2>2 DEF ClaimRun, At
    <3>2. OwnsRun(w) /\ Closed
      BY <1>3, <2>2, <3>1, OnlyFinishCompletes DEF CompletedInv
    <3>3. ASSUME NEW v \in Workers, ClaimProfile(v) PROVE ~OwnsRun(v)
      BY <1>3, <1>c, <3>2, <3>3 DEF OwnsRun
    <3> QED BY <3>2, <3>3, ClosedStaysClosed
  <2> QED BY <1>3, <2>1, <2>2, OnlySummaryFinishes
<1> QED BY <1>1, <1>2, <1>3 DEF CompletedInv

\* The invariant of the completed run holds throughout.
LEMMA AlwaysCompletedInv == Spec => []CompletedInv
<1>1. Init => CompletedInv
  BY DEF Init, CompletedInv, CompletedReplyIsDurable, Idle
<1> QED BY <1>1, NextCompleted, AlwaysTyped, PTL DEF Spec

\* A completed run has no profile that failed or is still in flight.
THEOREM CompletedIsComplete == Spec => []CompletedRunHasNoOpenProfile
<1>1. CompletedInv => CompletedRunHasNoOpenProfile
  BY DEF CompletedInv, Closed, Late, CompletedRunHasNoOpenProfile
<1> QED BY <1>1, AlwaysCompletedInv, PTL

\* A handler that answered "completed" left a completed run behind.
THEOREM CompletedReplyHolds == Spec => []CompletedReplyIsDurable
<1>1. CompletedInv => CompletedReplyIsDurable
  BY DEF CompletedInv
<1> QED BY <1>1, AlwaysCompletedInv, PTL

-----------------------------------------------------------------------------
(* What a digest offers, and what becomes of its answers (DigestFeedback) *)

LEMMA LaterIsMax ==
    ASSUME NEW a \in Int, NEW b \in Int
    PROVE  Later(a, b) \in {a, b} /\ Later(a, b) >= a /\ Later(a, b) >= b
<1> DEFINE IsMax(x) == \A y \in {a, b} : x >= y
<1>1. \E x \in {a, b} : IsMax(x)
  BY DEF IsMax
<1>2. Later(a, b) = CHOOSE x \in {a, b} : IsMax(x)
  BY DEF Later, Max
<1> HIDE DEF IsMax
<1>3. Later(a, b) \in {a, b} /\ IsMax(Later(a, b))
  BY <1>1, <1>2
<1> QED BY <1>3 DEF IsMax

OrgRows == [digest : Digests \cup {NoDigest}, status : {"none"} \cup Held \cup Taken,
            cooldown : Dates, suppressed : Dates]
Invocations == [pc : {"idle", "open", "committed", "sent", "expired", "failed"},
                skip : BOOLEAN, at : 0..MaxDay, items : SUBSET Orgs, until : Dates,
                unrecorded : SUBSET Orgs]

DigestTyped ==
    /\ now \in 1..MaxDay
    /\ row \in [Orgs -> OrgRows]
    /\ dg \in [Digests -> Invocations]
    /\ \A d \in Digests : dg[d].unrecorded \subseteq dg[d].items
    /\ \A d \in Digests : Is(d, "idle") => dg[d].items = {}
    /\ settled \subseteq Digests \X Orgs \X Answers

\* The cooldown of a company that was never answered is the longest that a digest gave it.
Unanswered(o) ==
    row[o].status = "none" =>
        /\ row[o].suppressed = 0
        /\ \A d \in Digests : Committed(d) /\ o \in dg[d].items => dg[d].until <= row[o].cooldown
        /\ \/ row[o].cooldown = 0
           \/ \E d \in Digests : Committed(d) /\ o \in dg[d].items /\ dg[d].until = row[o].cooldown

DigestIInv == DigestTyped /\ \A o \in Orgs : Unanswered(o)

LEMMA DayIsDate ==
    ASSUME NEW day \in 0..MaxDay,
           NEW n \in CooldownDays \cup {SnoozeDays, MaxSnoozeDays, BadfitDays} \cup (1..MaxSnoozeDays)
    PROVE  n \in Nat /\ day + n \in Dates
<1>1. MaxSnoozeDays \in Nat /\ MaxDay \in Nat /\ Forever \in Nat /\ Forever > MaxDay + MaxSnoozeDays
  BY DaysAreDays
<1>2. CASE n \in 1..MaxSnoozeDays
  BY <1>1, <1>2 DEF Dates
<1>3. CASE n \in CooldownDays \cup {SnoozeDays, MaxSnoozeDays, BadfitDays}
  <2>1. n \in Nat /\ Forever > MaxDay + n
    BY <1>3, DaysAreDays
  <2> QED BY <1>1, <2>1 DEF Dates
<1> QED BY <1>2, <1>3

LEMMA DatesAreDays == Dates \subseteq Nat /\ 0 \in Dates /\ 0 \in 0..MaxDay /\ 1 \in 1..MaxDay
<1>1. MaxDay \in Nat \ {0} /\ Forever \in Nat
  BY DaysAreDays
<1> QED BY <1>1 DEF Dates

LEMMA DigestBegins == DigestInit => DigestIInv
<1> SUFFICES ASSUME DigestInit PROVE DigestIInv
  OBVIOUS
<1>1. 0 \in Dates /\ 0 \in 0..MaxDay /\ 1 \in 1..MaxDay
  BY DatesAreDays
<1>2. Fresh \in OrgRows /\ Waiting \in Invocations
  BY <1>1 DEF Fresh, OrgRows, Waiting, Invocations
<1>3. DigestTyped
  BY <1>1, <1>2 DEF DigestInit, DigestTyped, Waiting
<1>4. \A o \in Orgs : Unanswered(o)
  BY DEF DigestInit, Unanswered, Fresh, Waiting, Committed
<1> QED BY <1>3, <1>4 DEF DigestIInv

\* The step of an invocation that leaves its company rows alone, or writes their digest only.
LEMMA InvocationMoves ==
    ASSUME DigestTyped, NEW d \in Digests, NEW local \in Invocations, dg' = [dg EXCEPT ![d] = local],
           local.unrecorded \subseteq local.items, local.pc # "idle",
           now' = now, settled' = settled, row' \in [Orgs -> OrgRows]
    PROVE  DigestTyped'
BY DEF DigestTyped, Is

LEMMA SelectItemsKeeps ==
    ASSUME DigestIInv, NEW d \in Digests, SelectItems(d) PROVE DigestIInv'
<1>1. PICK items \in SUBSET Orgs, skip \in BOOLEAN :
         dg' = [dg EXCEPT ![d] = [Waiting EXCEPT !.pc = "open", !.at = now, !.items = items, !.skip = skip]]
  BY DEF SelectItems
<1>2. PICK local : local = [Waiting EXCEPT !.pc = "open", !.at = now, !.items = items, !.skip = skip]
  OBVIOUS
<1>3. DigestTyped /\ now \in 0..MaxDay /\ 0 \in Dates
  BY DatesAreDays DEF DigestIInv, DigestTyped
<1>4. local \in Invocations /\ local.unrecorded = {} /\ local.pc = "open"
  BY <1>2, <1>3 DEF Waiting, Invocations
<1>5. DigestTyped'
  BY <1>1, <1>2, <1>3, <1>4, InvocationMoves DEF SelectItems, DigestTyped
<1>6. \A e \in Digests : (Committed(e)' <=> Committed(e)) /\ (Committed(e) => dg'[e] = dg[e])
  BY <1>1, <1>2, <1>3, <1>4 DEF SelectItems, Is, Committed, DigestTyped
<1>7. \A o \in Orgs : Unanswered(o)'
  BY <1>6 DEF SelectItems, DigestIInv, Unanswered
<1> QED BY <1>5, <1>7 DEF DigestIInv

LEMMA RollBackKeeps ==
    ASSUME DigestIInv, NEW d \in Digests, RollBack(d) PROVE DigestIInv'
<1>1. PICK local : local = [Waiting EXCEPT !.pc = "failed"]
  OBVIOUS
<1>2. DigestTyped /\ 0 \in Dates /\ 0 \in 0..MaxDay
  BY DatesAreDays DEF DigestIInv
<1>3. local \in Invocations /\ local.unrecorded = {} /\ local.pc = "failed"
  BY <1>1, <1>2 DEF Waiting, Invocations
<1>4. DigestTyped'
  BY <1>1, <1>2, <1>3, InvocationMoves DEF RollBack, DigestTyped
<1>5. \A e \in Digests : (Committed(e)' <=> Committed(e)) /\ (Committed(e) => dg'[e] = dg[e])
  BY <1>1, <1>2, <1>3 DEF RollBack, Is, Committed, DigestTyped
<1>6. \A o \in Orgs : Unanswered(o)'
  BY <1>5 DEF RollBack, DigestIInv, Unanswered
<1> QED BY <1>4, <1>6 DEF DigestIInv

LEMMA CommitDigestKeeps ==
    ASSUME DigestIInv, NEW d \in Digests, CommitDigest(d) PROVE DigestIInv'
<1>1. /\ DigestTyped /\ row \in [Orgs -> OrgRows] /\ dg \in [Digests -> Invocations]
      /\ now' = now /\ settled' = settled /\ dg[d].pc = "open"
  BY DEF DigestIInv, DigestTyped, CommitDigest, Is
<1> DEFINE Commits(until) ==
         /\ row' = [o \in Orgs |->
                IF o \in dg[d].items /\ ~dg[d].skip
                THEN [row[o] EXCEPT !.digest = d, !.cooldown = Cooled(o, until)]
                ELSE row[o]]
         /\ dg' = [dg EXCEPT ![d] = [dg[d] EXCEPT !.pc = "committed", !.at = 0, !.until = until]]
<1>a. PICK days \in CooldownDays : Commits(IF dg[d].skip THEN 0 ELSE dg[d].at + days)
  BY DEF CommitDigest
<1> HIDE DEF Commits
<1>b. PICK until : until = IF dg[d].skip THEN 0 ELSE dg[d].at + days
  OBVIOUS
<1>c. Commits(until)
  BY <1>a, <1>b
<1>2. /\ until = IF dg[d].skip THEN 0 ELSE dg[d].at + days
      /\ row' = [o \in Orgs |->
                IF o \in dg[d].items /\ ~dg[d].skip
                THEN [row[o] EXCEPT !.digest = d, !.cooldown = Cooled(o, until)]
                ELSE row[o]]
      /\ dg' = [dg EXCEPT ![d] = [dg[d] EXCEPT !.pc = "committed", !.at = 0, !.until = until]]
  BY <1>b, <1>c DEF Commits
<1>3. until \in Dates /\ until \in Nat
  <2>1. dg[d].at \in 0..MaxDay
    BY <1>1 DEF Invocations
  <2>2. dg[d].at + days \in Dates
    BY <2>1, DayIsDate
  <2> QED BY <1>2, <2>2, DatesAreDays
<1>4. PICK local : local = [dg[d] EXCEPT !.pc = "committed", !.at = 0, !.until = until]
  OBVIOUS
<1>5. /\ local \in Invocations /\ local.unrecorded = dg[d].unrecorded /\ local.items = dg[d].items
      /\ local.pc = "committed" /\ local.until = until /\ local.skip = dg[d].skip
  BY <1>1, <1>3, <1>4, DatesAreDays DEF Invocations
<1>6. ASSUME NEW o \in Orgs
      PROVE  /\ row'[o] \in OrgRows
             /\ row'[o].status = row[o].status /\ row'[o].suppressed = row[o].suppressed
             /\ row[o].cooldown \in Nat
             /\ row'[o].cooldown = IF o \in dg[d].items /\ ~dg[d].skip THEN Cooled(o, until) ELSE row[o].cooldown
             /\ Cooled(o, until) \in {row[o].cooldown, until}
             /\ Cooled(o, until) >= row[o].cooldown /\ Cooled(o, until) >= until
  <2>1. row[o] \in OrgRows /\ row[o].cooldown \in Dates /\ row[o].cooldown \in Nat
    BY <1>1, DatesAreDays DEF OrgRows
  <2>2. PICK c : c = Cooled(o, until)
    OBVIOUS
  <2>3. c \in {row[o].cooldown, until} /\ c >= row[o].cooldown /\ c >= until
    BY <1>3, <2>1, <2>2, LaterIsMax DEF Cooled
  <2>4. row'[o] = IF o \in dg[d].items /\ ~dg[d].skip
                  THEN [row[o] EXCEPT !.digest = d, !.cooldown = c] ELSE row[o]
    BY <1>2, <2>2
  <2>5. c \in Dates
    BY <1>3, <2>1, <2>3
  <2> QED BY <2>1, <2>2, <2>3, <2>4, <2>5 DEF OrgRows
<1>7. row' \in [Orgs -> OrgRows]
  BY <1>2, <1>6
<1>8. DigestTyped'
  BY <1>1, <1>2, <1>4, <1>5, <1>7, InvocationMoves DEF DigestTyped
<1>9. /\ dg'[d] = local /\ Committed(d)' /\ ~Committed(d)
      /\ \A e \in Digests \ {d} : dg'[e] = dg[e] /\ (Committed(e)' <=> Committed(e))
  BY <1>1, <1>2, <1>4, <1>5 DEF Committed
<1>10. ASSUME NEW o \in Orgs, row'[o].status = "none" PROVE Unanswered(o)'
  <2>1. Unanswered(o) /\ row[o].status = "none"
    BY <1>6, <1>10 DEF DigestIInv
  <2>2. row'[o].suppressed = 0
    BY <1>6, <2>1 DEF Unanswered
  <2>3. ASSUME NEW e \in Digests, Committed(e)', o \in dg'[e].items
        PROVE  dg'[e].until <= row'[o].cooldown
    <3>1. CASE e = d /\ dg[d].skip
      BY <1>2, <1>5, <1>6, <1>9, <2>3, <3>1
    <3>2. CASE e = d /\ ~dg[d].skip
      BY <1>5, <1>6, <1>9, <2>3, <3>2
    <3>3. CASE e # d
      <4>1. dg[e].until <= row[o].cooldown /\ dg'[e] = dg[e]
        BY <1>9, <2>1, <2>3, <3>3 DEF Unanswered
      <4>2. dg[e].until \in Nat
        BY <1>1, DatesAreDays DEF Invocations
      <4> QED BY <1>3, <1>6, <4>1, <4>2
    <3> QED BY <3>1, <3>2, <3>3
  <2>4. row'[o].cooldown = 0 \/ \E e \in Digests : Committed(e)' /\ o \in dg'[e].items /\ dg'[e].until = row'[o].cooldown
    <3>1. CASE row'[o].cooldown = row[o].cooldown
      BY <1>9, <2>1, <3>1 DEF Unanswered
    <3>2. CASE row'[o].cooldown # row[o].cooldown
      <4>1. o \in dg[d].items /\ row'[o].cooldown = until
        BY <1>6, <3>2
      <4> QED BY <1>5, <1>9, <4>1
    <3> QED BY <3>1, <3>2
  <2> QED BY <2>2, <2>3, <2>4 DEF Unanswered, Committed
<1> QED BY <1>8, <1>10 DEF DigestIInv, Unanswered

\* A message is sent, its buttons expire, an offer is recorded: the digest stays committed.
LEMMA MessageKeeps ==
    ASSUME DigestIInv, NEW d \in Digests, NEW pc \in {"sent", "expired"}, NEW unrecorded \in SUBSET dg[d].items,
           Committed(d), dg' = [dg EXCEPT ![d].pc = pc, ![d].unrecorded = unrecorded],
           UNCHANGED <<now, row, settled>>
    PROVE  DigestIInv'
<1>1. DigestTyped /\ dg \in [Digests -> Invocations] /\ dg[d] \in Invocations
  BY DEF DigestIInv, DigestTyped
<1>2. PICK local : local = [dg[d] EXCEPT !.pc = pc, !.unrecorded = unrecorded]
  OBVIOUS
<1>3. /\ local \in Invocations /\ local.unrecorded = unrecorded /\ local.items = dg[d].items
      /\ local.pc = pc /\ local.until = dg[d].until
  BY <1>1, <1>2 DEF Invocations
<1>4. dg' = [dg EXCEPT ![d] = local]
  BY <1>1, <1>2 DEF Invocations
<1>5. DigestTyped'
  BY <1>1, <1>3, <1>4, InvocationMoves DEF DigestTyped
<1>6. \A e \in Digests : (Committed(e)' <=> Committed(e)) /\ dg'[e].items = dg[e].items /\ dg'[e].until = dg[e].until
  BY <1>1, <1>3, <1>4 DEF Committed
<1>7. \A o \in Orgs : Unanswered(o)'
  BY <1>6 DEF DigestIInv, Unanswered
<1> QED BY <1>5, <1>7 DEF DigestIInv

\* What an answer does to the companies: to none a date is lost, and whoever was answered stays it.
Answered ==
    /\ row' \in [Orgs -> OrgRows]
    /\ \A x \in Orgs : /\ row'[x].suppressed >= row[x].suppressed
                       /\ row'[x] = row[x] \/ row'[x].status # "none"

LEMMA AnswerIsStatus == ASSUME NEW answer \in Answers PROVE answer \in Held \cup Taken /\ answer # "none"
BY AnswersAreKnown DEF Held, Taken

LEMMA FeedbackMoves ==
    ASSUME DigestTyped, NEW o \in Orgs, NEW d \in Digests \cup {NoDigest}, NEW answer \in Answers,
           NEW days \in {SnoozeDays, BadfitDays} \cup (1..MaxSnoozeDays), Feedback(o, d, answer, days)
    PROVE  Answered
<1>1. row \in [Orgs -> OrgRows] /\ now \in 0..MaxDay /\ now \in 1..MaxDay
  BY DEF DigestTyped
<1>2. \A x \in Orgs : row[x].suppressed \in Dates /\ row[x].suppressed \in Nat /\ row[x].suppressed <= Forever
  BY <1>1, DatesAreDays DEF OrgRows, Dates
<1>3. PICK until : until = Suppressed(o, answer, days)
  OBVIOUS
<1>4. until \in Dates /\ until >= row[o].suppressed
  <2>1. CASE answer \in Taken
    <3>1. until = Forever /\ Forever \in Nat
      BY <1>3, <2>1, DaysAreDays DEF Suppressed
    <3> QED BY <1>2, <3>1 DEF Dates
  <2>2. CASE answer \notin Taken
    <3>1. now + days \in Dates /\ now + days \in Nat
      BY <1>1, DayIsDate, DatesAreDays
    <3>2. until = Later(row[o].suppressed, now + days)
      BY <1>3, <2>2 DEF Suppressed
    <3> QED BY <1>2, <3>1, <3>2, LaterIsMax
  <2> QED BY <2>1, <2>2
<1>5. PICK next : next = [digest |-> IF d = NoDigest THEN row[o].digest ELSE d, status |-> answer,
                          cooldown |-> 0, suppressed |-> until]
  OBVIOUS
<1>6. next \in OrgRows /\ next.suppressed = until /\ next.status # "none"
  BY <1>1, <1>4, <1>5, AnswerIsStatus, DatesAreDays DEF OrgRows
<1>7. row' = row \/ row' = [row EXCEPT ![o] = next]
  BY <1>1, <1>3, <1>5 DEF Feedback
<1> QED BY <1>1, <1>2, <1>4, <1>6, <1>7 DEF Answered

LEMMA CardMoves ==
    ASSUME DigestTyped, NEW o \in Orgs, NEW answer \in Answers, AnswerOnCard(o, answer)
    PROVE  Answered
<1>1. row \in [Orgs -> OrgRows] /\ row[o] \in OrgRows
  BY DEF DigestTyped
<1>2. \A x \in Orgs : row[x].suppressed \in Nat
  BY <1>1, DatesAreDays DEF OrgRows
<1>3. PICK next : next = [row[o] EXCEPT !.status = answer]
  OBVIOUS
<1>4. next \in OrgRows /\ next.suppressed = row[o].suppressed /\ next.status # "none"
  BY <1>1, <1>3, AnswerIsStatus DEF OrgRows
<1>5. row' = [row EXCEPT ![o] = next]
  BY <1>3 DEF AnswerOnCard
<1> QED BY <1>1, <1>2, <1>4, <1>5 DEF Answered

LEMMA AnswersMove ==
    ASSUME DigestTyped, NEW o \in Orgs, NEW answer \in Answers,
           \/ \E d \in Digests : PressButton(d, o, answer)
           \/ \E d \in Digests \cup {NoDigest} : CallApi(o, d, answer)
           \/ AnswerOnCard(o, answer)
    PROVE  /\ Answered
           /\ UNCHANGED <<now, dg>>
           /\ settled' \subseteq Digests \X Orgs \X Answers
<1>1. ASSUME NEW d \in Digests, PressButton(d, o, answer)
      PROVE  Answered /\ UNCHANGED <<now, dg>> /\ settled' \subseteq Digests \X Orgs \X Answers
  BY <1>1, FeedbackMoves DEF PressButton, DefaultDays, DigestTyped
<1>2. ASSUME NEW d \in Digests \cup {NoDigest}, CallApi(o, d, answer)
      PROVE  Answered /\ UNCHANGED <<now, dg, settled>>
  BY <1>2, FeedbackMoves DEF CallApi
<1>3. CASE AnswerOnCard(o, answer)
  BY <1>3, CardMoves DEF AnswerOnCard, DigestTyped
<1> QED BY <1>1, <1>2, <1>3 DEF DigestTyped

LEMMA AnswersKeep ==
    ASSUME DigestIInv, Answered, UNCHANGED <<now, dg>>, settled' \subseteq Digests \X Orgs \X Answers
    PROVE  DigestIInv'
BY DEF DigestIInv, DigestTyped, Answered, Unanswered, Committed, Is

LEMMA DigestKeeps == DigestIInv /\ [DigestNext]_digestVars => DigestIInv'
<1> SUFFICES ASSUME DigestIInv, [DigestNext]_digestVars PROVE DigestIInv'
  OBVIOUS
<1>1. DigestTyped /\ row \in [Orgs -> OrgRows] /\ dg \in [Digests -> Invocations]
      /\ \A d \in Digests : dg[d].unrecorded \subseteq dg[d].items /\ dg[d] \in Invocations
  BY DEF DigestIInv, DigestTyped
<1>2. ASSUME NEW d \in Digests, SendMessage(d) PROVE DigestIInv'
  <2>1. PICK unrecorded \in SUBSET dg[d].items : unrecorded = IF dg[d].skip THEN dg[d].items ELSE {}
    OBVIOUS
  <2> QED BY <1>2, <2>1, MessageKeeps DEF SendMessage, Is, Committed
<1>3. ASSUME NEW d \in Digests, ExpireButtons(d) PROVE DigestIInv'
  <2>1. dg' = [dg EXCEPT ![d].pc = "expired", ![d].unrecorded = dg[d].unrecorded]
    BY <1>1, <1>3 DEF ExpireButtons, Invocations
  <2>2. dg[d].unrecorded \in SUBSET dg[d].items
    BY <1>1
  <2> QED BY <1>3, <2>1, <2>2, MessageKeeps DEF ExpireButtons, Is, Committed
<1>4. ASSUME NEW d \in Digests, NEW o \in Orgs, RecordShown(d, o) PROVE DigestIInv'
  <2>1. PICK unrecorded \in SUBSET dg[d].items : unrecorded = dg[d].unrecorded \ {o}
    BY <1>1
  <2>2. PICK local : local = [dg[d] EXCEPT !.unrecorded = unrecorded]
    OBVIOUS
  <2>3. /\ local \in Invocations /\ local.unrecorded = unrecorded /\ local.items = dg[d].items
        /\ local.pc = dg[d].pc /\ local.until = dg[d].until
    BY <1>1, <2>2 DEF Invocations
  <2>4. dg' = [dg EXCEPT ![d] = local] /\ now' = now /\ settled' = settled
    BY <1>4, <2>1, <2>2 DEF RecordShown
  <2>5. PICK next : next = [row[o] EXCEPT !.digest = d]
    OBVIOUS
  <2>6. /\ next \in OrgRows /\ next.status = row[o].status /\ next.suppressed = row[o].suppressed
        /\ next.cooldown = row[o].cooldown
    BY <1>1, <2>5 DEF OrgRows
  <2>7. row' = [row EXCEPT ![o] = next]
    BY <1>4, <2>5 DEF RecordShown
  <2>8. local.pc # "idle"
    BY <1>1, <1>4, <2>3 DEF RecordShown, DigestTyped, Is
  <2>9. DigestTyped'
    BY <1>1, <2>1, <2>3, <2>4, <2>6, <2>7, <2>8, InvocationMoves
  <2>10. \A e \in Digests : (Committed(e)' <=> Committed(e)) /\ dg'[e].items = dg[e].items /\ dg'[e].until = dg[e].until
    BY <1>1, <2>3, <2>4 DEF Committed
  <2>11. \A x \in Orgs : row'[x].status = row[x].status /\ row'[x].suppressed = row[x].suppressed
                         /\ row'[x].cooldown = row[x].cooldown
    BY <1>1, <2>6, <2>7
  <2>12. \A x \in Orgs : Unanswered(x)'
    BY <2>10, <2>11 DEF DigestIInv, Unanswered
  <2> QED BY <2>9, <2>12 DEF DigestIInv
<1>5. CASE DayPasses
  <2>1. now' \in 1..MaxDay
    BY <1>1, <1>5, DaysAreDays DEF DayPasses, DigestTyped
  <2> QED BY <1>1, <1>5, <2>1 DEF DayPasses, DigestIInv, DigestTyped, Unanswered, Committed, Is
<1>6. CASE UNCHANGED digestVars
  BY <1>6 DEF digestVars, DigestIInv, DigestTyped, Unanswered, Committed, Is
<1>7. ASSUME NEW o \in Orgs, NEW answer \in Answers,
             \/ \E d \in Digests : PressButton(d, o, answer)
             \/ \E d \in Digests \cup {NoDigest} : CallApi(o, d, answer)
             \/ AnswerOnCard(o, answer)
      PROVE  DigestIInv'
  BY <1>1, <1>7, AnswersMove, AnswersKeep
<1> QED BY <1>2, <1>3, <1>4, <1>5, <1>6, <1>7, SelectItemsKeeps, CommitDigestKeeps, RollBackKeeps DEF DigestNext

LEMMA DigestAlways == DigestSpec => []DigestIInv
BY DigestBegins, DigestKeeps, PTL DEF DigestSpec

\* The state of the companies and the invocations keep their types: no date passes 'infinity'
\* (client_digest_org_state, runDigestForClientProfile).
THEOREM DigestTypeCorrect == DigestSpec => []DigestTypeOK
<1>1. DigestIInv => DigestTypeOK
  <2> SUFFICES ASSUME DigestIInv PROVE DigestTypeOK
    OBVIOUS
  <2>1. \A d \in Digests : dg[d] \in Invocations /\ dg[d].unrecorded \subseteq dg[d].items
    BY DEF DigestIInv, DigestTyped
  <2> QED BY <2>1 DEF DigestIInv, DigestTyped, DigestTypeOK, Invocations, OrgRows
<1> QED BY <1>1, DigestAlways, PTL

\* A company that was never answered rests for as long as the longest of its digests says,
\* however many there are, and in whatever order they are committed (runDigestForClientProfile).
THEOREM LongestCooldownRules == DigestSpec => []CooldownIsTheLongest
<1>1. DigestIInv => CooldownIsTheLongest
  <2> SUFFICES ASSUME DigestIInv, NEW o \in Orgs, row[o].status = "none"
               PROVE  Selectable(o) <=> \A d \in Digests : Committed(d) /\ o \in dg[d].items => dg[d].until <= now
    BY DEF CooldownIsTheLongest
  <2>1. Unanswered(o) /\ now \in Nat /\ now >= 1 /\ row[o].cooldown \in Nat
        /\ \A d \in Digests : dg[d].until \in Nat
    <3>1. Unanswered(o) /\ row[o] \in OrgRows /\ now \in 1..MaxDay /\ \A d \in Digests : dg[d] \in Invocations
      BY DEF DigestIInv, DigestTyped
    <3>2. row[o].cooldown \in Dates /\ \A d \in Digests : dg[d].until \in Dates
      BY <3>1 DEF OrgRows, Invocations
    <3>3. MaxDay \in Nat
      BY DaysAreDays
    <3>4. now \in Nat /\ now >= 1
      BY <3>1, <3>3
    <3> QED BY <3>1, <3>2, <3>4, DatesAreDays
  <2>2. Selectable(o) <=> row[o].cooldown <= now
    BY <2>1 DEF Selectable, Unanswered, Taken
  <2> QED BY <2>1, <2>2 DEF Unanswered
<1> QED BY <1>1, DigestAlways, PTL

\* No answer of a button or of the API loses its effect to a later one, to an older message or
\* to a digest that was selected before it (updateDigestOrgStateFeedbackCore).
THEOREM AnswersLast == DigestSpec => AnswersKeepTheirEffect
<1> DEFINE Lasts ==
      \A o \in Orgs :
          /\ row'[o].suppressed >= row[o].suppressed
          /\ row[o].suppressed > now =>
                \A d \in Digests : Is(d, "idle") => o \notin dg'[d].items
<1>1. DigestIInv /\ [DigestNext]_digestVars => Lasts
  <2> SUFFICES ASSUME DigestIInv, [DigestNext]_digestVars PROVE Lasts
    OBVIOUS
  <2>1. /\ DigestTyped /\ row \in [Orgs -> OrgRows] /\ dg \in [Digests -> Invocations]
        /\ \A d \in Digests : Is(d, "idle") => dg[d].items = {}
        /\ \A o \in Orgs : row[o].suppressed \in Nat
    BY DatesAreDays DEF DigestIInv, DigestTyped, OrgRows
  <2>2. ASSUME \A o \in Orgs : row'[o].suppressed >= row[o].suppressed,
               \A d \in Digests : Is(d, "idle") => dg'[d] = dg[d]
        PROVE  Lasts
    BY <2>1, <2>2
  <2>3. ASSUME NEW d \in Digests, SelectItems(d) PROVE Lasts
    <3>1. PICK items \in SUBSET {o \in Orgs : Selectable(o)}, skip \in BOOLEAN :
             dg' = [dg EXCEPT ![d] = [Waiting EXCEPT !.pc = "open", !.at = now, !.items = items, !.skip = skip]]
      BY <2>3 DEF SelectItems
    <3>2. dg'[d].items = items /\ \A e \in Digests \ {d} : dg'[e] = dg[e]
      BY <2>1, <3>1 DEF Waiting
    <3>3. now \in Nat /\ \A o \in items : row[o].suppressed <= now
      BY <2>1, <3>1, DaysAreDays DEF Selectable, DigestTyped
    <3>4. row' = row
      BY <2>3 DEF SelectItems
    <3> QED BY <2>1, <3>2, <3>3, <3>4
  <2>4. ASSUME NEW d \in Digests, CommitDigest(d) PROVE Lasts
    <3>1. \A o \in Orgs : row'[o].suppressed = row[o].suppressed
      BY <2>1, <2>4 DEF CommitDigest, OrgRows
    <3>2. \A e \in Digests : Is(e, "idle") => dg'[e] = dg[e]
      BY <2>1, <2>4 DEF CommitDigest, Is
    <3> HIDE DEF Lasts
    <3> QED BY <2>1, <2>2, <3>1, <3>2
  <2>5. ASSUME NEW d \in Digests, RollBack(d) \/ SendMessage(d) \/ ExpireButtons(d) PROVE Lasts
    <3>1. row' = row /\ \A e \in Digests : Is(e, "idle") => dg'[e] = dg[e]
      BY <2>1, <2>5 DEF RollBack, SendMessage, ExpireButtons, Is
    <3> HIDE DEF Lasts
    <3> QED BY <2>1, <2>2, <3>1
  <2>6. ASSUME NEW d \in Digests, NEW o \in Orgs, RecordShown(d, o) PROVE Lasts
    <3>1. \A x \in Orgs : row'[x].suppressed = row[x].suppressed
      BY <2>1, <2>6 DEF RecordShown, OrgRows
    <3>2. ~Is(d, "idle")
      BY <2>1, <2>6 DEF RecordShown, DigestTyped
    <3>3. \A e \in Digests : Is(e, "idle") => dg'[e] = dg[e]
      BY <2>1, <2>6, <3>2 DEF RecordShown
    <3> HIDE DEF Lasts
    <3> QED BY <2>1, <2>2, <3>1, <3>3
  <2>7. CASE DayPasses \/ UNCHANGED digestVars
    <3> HIDE DEF Lasts
    <3> QED BY <2>1, <2>2, <2>7 DEF DayPasses, digestVars
  <2>8. ASSUME NEW o \in Orgs, NEW answer \in Answers,
               \/ \E d \in Digests : PressButton(d, o, answer)
               \/ \E d \in Digests \cup {NoDigest} : CallApi(o, d, answer)
               \/ AnswerOnCard(o, answer)
        PROVE  Lasts
    <3> HIDE DEF Lasts
    <3> QED BY <2>1, <2>2, <2>8, AnswersMove DEF Answered
  <2> HIDE DEF Lasts
  <2> QED BY <2>3, <2>4, <2>5, <2>6, <2>7, <2>8 DEF DigestNext
<1>2. DigestIInv /\ [DigestNext]_digestVars => [Lasts]_digestVars
  BY <1>1
<1> HIDE DEF Lasts
<1>3. DigestSpec => [][Lasts]_digestVars
  BY <1>2, DigestAlways, PTL DEF DigestSpec
<1> QED BY <1>3 DEF AnswersKeepTheirEffect, Lasts
=============================================================================
