--------------------- MODULE NotificationDelivery_proofs ---------------------
(***************************************************************************)
(* Proofs about NotificationDelivery, for every set of runs, routes and    *)
(* dispatchers, whichever of them are faulty, and for every limit.         *)
(***************************************************************************)
EXTENDS NotificationDelivery, TLAPS

-----------------------------------------------------------------------------
(* Typing *)

Dispatching == {"expire", "claim", "send", "succeeded", "failed"}
OnRoute == Dispatching \ {"expire"}

\* A dispatcher in the middle of a dispatch has a run and, on a route, a key.
Placed(local) ==
    /\ local.pc \in Dispatching =>
          local.run \in Runs /\ \A r \in local.todo : <<local.run, r>> \in Keys
    /\ local.pc \in OnRoute =>
          local.route \in Routes /\ <<local.run, local.route>> \in Keys
    /\ local.pc = "failed" => local.kind \in Kinds

GoodLocal(local) == local \in Locals /\ Placed(local)

\* The type invariant and what it needs to be inductive: failed jobs have an attempt
\* left, and absent ones have used none.
RowsTyped ==
    /\ job \in [Keys -> [status : JobStatuses, attempts : 0..MaxAttempts]]
    /\ stale \subseteq {k \in Keys : Status(k, "sending")}
    /\ due \subseteq {k \in Keys : Status(k, "failed")}
    /\ before \subseteq due \X due
    /\ FailedJobHasAttemptLeft
    /\ \A k \in Keys : Status(k, "absent") => job[k].attempts = 0
DispatchersTyped ==
    d \in [Dispatchers -> Locals] /\ \A w \in Dispatchers : Placed(d[w])
Typed == TypeOK /\ RowsTyped /\ DispatchersTyped

\* One dispatcher moves to a good local; the others stay where they are.
LEMMA MoveTyped ==
    ASSUME Typed, NEW w \in Dispatchers, NEW local, GoodLocal(local), Becomes(w, local)
    PROVE  /\ DispatchersTyped'
           /\ d'[w] = local
           /\ \A v \in Dispatchers \ {w} : d'[v] = d[v]
BY DEF Typed, DispatchersTyped, GoodLocal, Becomes

\* The local of a dispatcher is good.
LEMMA LocalGood == ASSUME Typed, NEW w \in Dispatchers PROVE GoodLocal(d[w])
BY DEF Typed, DispatchersTyped, GoodLocal

\* A dispatcher on a route holds a key.
LEMMA KeyIsKey ==
    ASSUME Typed, NEW w \in Dispatchers, d[w].pc \in OnRoute
    PROVE  Key(w) \in Keys /\ d[w].route \in Routes
BY LocalGood DEF GoodLocal, Placed, Key

\* A dispatcher between two invocations is well-formed.
LEMMA IdleTyped == Idle \in Locals /\ 0 \in 0..(MaxAttempts - 1)
<1>1. 0 \in 0..(MaxAttempts - 1)
  BY PositiveBounds
<1>2. /\ {} \in SUBSET Runs /\ {} \in SUBSET Routes /\ "idle" \in Labels
      /\ "none" \in Kinds \cup {"none"}
  BY DEF Labels
<1> QED BY <1>1, <1>2 DEF Idle, Locals

\* The local of an idle dispatcher is good, also when it has work to do next.
LEMMA IdleGood ==
    ASSUME NEW label \in {"idle", "due", "batch"}, NEW batches \in SUBSET Runs
    PROVE  /\ GoodLocal([Idle EXCEPT !.pc = label, !.batches = batches])
           /\ [Idle EXCEPT !.pc = label, !.batches = batches].pc = label
<1> DEFINE local == [Idle EXCEPT !.pc = label, !.batches = batches]
<1>1. label \in Labels /\ label \notin Dispatching /\ label \notin OnRoute /\ label # "failed"
  BY DEF Labels, Dispatching, OnRoute
<1>2. local \in Locals /\ local.pc = label
  BY <1>1, IdleTyped DEF Locals
<1> QED BY <1>1, <1>2 DEF GoodLocal, Placed

\* A dispatcher without batches.
LEMMA NoBatches ==
    ASSUME NEW label \in {"idle", "due"}
    PROVE  GoodLocal([Idle EXCEPT !.pc = label]) /\ [Idle EXCEPT !.pc = label].pc = label
<1> DEFINE local == [Idle EXCEPT !.pc = label]
<1>1. label \in Labels /\ label \notin Dispatching /\ label \notin OnRoute /\ label # "failed"
  BY DEF Labels, Dispatching, OnRoute
<1>2. local \in Locals /\ local.pc = label
  BY <1>1, IdleTyped DEF Locals
<1> QED BY <1>1, <1>2 DEF GoodLocal, Placed

\* The end of a dispatch leaves a good local.
LEMMA OverGood ==
    ASSUME Typed, NEW w \in Dispatchers
    PROVE  GoodLocal(DispatchOver(w)) /\ DispatchOver(w).pc = "batch"
<1>1. d[w].batches \in SUBSET Runs
  BY LocalGood DEF GoodLocal, Locals
<1> QED BY <1>1, IdleGood DEF DispatchOver

\* So does the way to the next route.
LEMMA NextRouteGood ==
    ASSUME Typed, NEW w \in Dispatchers, d[w].pc \in Dispatching, NextRoute(w)
    PROVE  /\ DispatchersTyped'
           /\ d'[w].pc = "expire"
           /\ \A v \in Dispatchers \ {w} : d'[v] = d[v]
<1> DEFINE local == [d[w] EXCEPT !.pc = "expire", !.route = None, !.tries = 0, !.kind = "none"]
<1>1. d[w] \in Locals /\ Placed(d[w])
  BY LocalGood DEF GoodLocal
<1>2. /\ local \in Locals /\ local.pc = "expire"
      /\ local.run = d[w].run /\ local.todo = d[w].todo
  BY <1>1, IdleTyped DEF Locals, Labels
<1>3. GoodLocal(local)
  BY <1>1, <1>2 DEF GoodLocal, Placed, OnRoute
<1> HIDE DEF local
<1> QED BY <1>2, <1>3, MoveTyped DEF NextRoute, local

\* A dispatcher that comes to a failed call keeps its route.
LEMMA FailsGood ==
    ASSUME Typed, NEW w \in Dispatchers, d[w].pc \in OnRoute, NEW kind \in Kinds,
           Becomes(w, [d[w] EXCEPT !.pc = "failed", !.kind = kind])
    PROVE  /\ DispatchersTyped'
           /\ d'[w].pc = "failed" /\ d'[w].kind = kind /\ Key(w)' = Key(w)
           /\ \A v \in Dispatchers \ {w} : d'[v] = d[v]
<1> DEFINE local == [d[w] EXCEPT !.pc = "failed", !.kind = kind]
<1>1. d[w] \in Locals /\ Placed(d[w])
  BY LocalGood DEF GoodLocal
<1>2. /\ local \in Locals /\ local.pc = "failed" /\ local.kind = kind
      /\ local.run = d[w].run /\ local.todo = d[w].todo /\ local.route = d[w].route
  BY <1>1 DEF Locals, Labels
<1>3. GoodLocal(local)
  BY <1>1, <1>2 DEF GoodLocal, Placed, OnRoute, Dispatching
<1> HIDE DEF local
<1>4. Becomes(w, local)
  BY DEF local
<1> QED BY <1>2, <1>3, <1>4, MoveTyped DEF Key
\* A dispatch starts with the routes that have leads in the run.
LEMMA LoadRoutesGood ==
    ASSUME Typed, NEW w \in Dispatchers, NEW run \in Runs, NEW routes \in SUBSET Routes,
           LoadRoutes(w, run, routes)
    PROVE  /\ DispatchersTyped'
           /\ d'[w].pc = "expire"
           /\ \A v \in Dispatchers \ {w} : d'[v] = d[v]
<1> DEFINE todo == {r \in routes : Routable(r) /\ <<run, r>> \in Keys}
           local == [d[w] EXCEPT !.pc = "expire", !.batches = @ \ {run}, !.run = run,
                                 !.todo = todo]
<1>1. d[w] \in Locals
  BY LocalGood DEF GoodLocal
<1>2. todo \in SUBSET Routes /\ \A r \in todo : <<run, r>> \in Keys
  OBVIOUS
<1>3. /\ Becomes(w, local)
  BY DEF LoadRoutes
<1> HIDE DEF todo
<1>4. local \in Locals /\ local.pc = "expire" /\ local.run = run /\ local.todo = todo
  BY <1>1, <1>2 DEF Locals, Labels
<1>5. GoodLocal(local)
  BY <1>2, <1>4 DEF GoodLocal, Placed, OnRoute
<1> HIDE DEF local
<1> QED BY <1>3, <1>4, <1>5, MoveTyped

\* The visit of a route of the dispatch.
LEMMA VisitGood ==
    ASSUME Typed, NEW w \in Dispatchers, d[w].pc = "expire", NEW r \in d[w].todo,
           Becomes(w, [d[w] EXCEPT !.pc = "claim", !.todo = @ \ {r}, !.route = r])
    PROVE  /\ DispatchersTyped'
           /\ d'[w].pc = "claim" /\ r \in Routes /\ <<d[w].run, r>> \in Keys
           /\ \A v \in Dispatchers \ {w} : d'[v] = d[v]
<1> DEFINE local == [d[w] EXCEPT !.pc = "claim", !.todo = @ \ {r}, !.route = r]
<1>1. d[w] \in Locals /\ Placed(d[w])
  BY LocalGood DEF GoodLocal
<1>2. r \in Routes /\ <<d[w].run, r>> \in Keys /\ d[w].run \in Runs
      /\ \A q \in d[w].todo : <<d[w].run, q>> \in Keys
  BY <1>1 DEF Locals, Placed, Dispatching
<1>3. /\ local \in Locals /\ local.pc = "claim" /\ local.route = r
      /\ local.run = d[w].run /\ local.todo = d[w].todo \ {r}
  BY <1>1, <1>2 DEF Locals, Labels
<1>4. GoodLocal(local)
  BY <1>1, <1>2, <1>3 DEF GoodLocal, Placed, OnRoute, Dispatching
<1> HIDE DEF local
<1>5. Becomes(w, local)
  BY DEF local
<1> QED BY <1>2, <1>3, <1>4, <1>5, MoveTyped

\* A dispatcher that goes on to send its claimed job, or to record that it was sent.
LEMMA StageGood ==
    ASSUME Typed, NEW w \in Dispatchers, d[w].pc \in OnRoute, NEW tries \in 0..(MaxAttempts - 1),
           NEW label \in {"send", "succeeded"},
           Becomes(w, [d[w] EXCEPT !.pc = label, !.tries = tries])
    PROVE  /\ DispatchersTyped'
           /\ d'[w].pc = label /\ Key(w)' = Key(w)
           /\ \A v \in Dispatchers \ {w} : d'[v] = d[v]
<1> DEFINE local == [d[w] EXCEPT !.pc = label, !.tries = tries]
<1>1. d[w] \in Locals /\ Placed(d[w])
  BY LocalGood DEF GoodLocal
<1>2. /\ local \in Locals /\ local.pc = label
      /\ local.run = d[w].run /\ local.todo = d[w].todo /\ local.route = d[w].route
  BY <1>1 DEF Locals, Labels
<1>3. GoodLocal(local)
  BY <1>1, <1>2 DEF GoodLocal, Placed, OnRoute, Dispatching
<1> HIDE DEF local
<1>4. Becomes(w, local)
  BY DEF local
<1> QED BY <1>2, <1>3, <1>4, MoveTyped DEF Key
\* Declaring stale jobs dead keeps the rows typed.
LEMMA ExpireRows ==
    ASSUME Typed, NEW group \in SUBSET stale, Expire(group), UNCHANGED queue
    PROVE  RowsTyped'
<1>1. /\ \A k \in Keys : k \notin group => job'[k] = job[k]
      /\ \A k \in group : k \in Keys /\ job'[k].status = "dead_letter"
                         /\ job'[k].attempts = job[k].attempts
      /\ \A k \in group : job[k].status = "sending"
  BY DEF Expire, Typed, RowsTyped, Status
<1>2. job' \in [Keys -> [status : JobStatuses, attempts : 0..MaxAttempts]]
  BY DEF Expire, Typed, RowsTyped, JobStatuses
<1>3. stale' \subseteq {k \in Keys : job'[k].status = "sending"}
  BY <1>1 DEF Expire, Typed, RowsTyped, Status
<1>4. due' \subseteq {k \in Keys : job'[k].status = "failed"} /\ before' \subseteq due' \X due'
  BY <1>1 DEF queue, Typed, RowsTyped, Status
<1> QED BY <1>1, <1>2, <1>3, <1>4 DEF Typed, RowsTyped, Status, FailedJobHasAttemptLeft

\* One row changes; it is no longer stale, and if it was due it is failed all along.
LEMMA OneRow ==
    ASSUME Typed, NEW k \in Keys, NEW row \in [status : JobStatuses, attempts : 0..MaxAttempts],
           job' = [job EXCEPT ![k] = row], row.status # "absent",
           row.status = "failed" => row.attempts < MaxAttempts,
           stale' = stale \ {k},
           \/ UNCHANGED queue /\ ~Status(k, "failed")
           \/ /\ due' = due \ {k}
              /\ before' = {pair \in before : k \notin {pair[1], pair[2]}}
    PROVE  RowsTyped'
<1>1. /\ job'[k] = row /\ \A j \in Keys \ {k} : job'[j] = job[j]
      /\ job' \in [Keys -> [status : JobStatuses, attempts : 0..MaxAttempts]]
  BY DEF Typed, RowsTyped
<1>2. stale' \subseteq {j \in Keys : job'[j].status = "sending"}
  BY <1>1 DEF Typed, RowsTyped, Status
<1>3. k \notin due' /\ due' \subseteq due /\ before' \subseteq due' \X due'
  <2>1. CASE UNCHANGED queue /\ ~Status(k, "failed")
    BY <2>1 DEF queue, Typed, RowsTyped, Status
  <2>2. CASE due' = due \ {k} /\ before' = {pair \in before : k \notin {pair[1], pair[2]}}
    BY <2>2 DEF Typed, RowsTyped
  <2> QED BY <2>1, <2>2
<1>4. due' \subseteq {j \in Keys : job'[j].status = "failed"}
  BY <1>1, <1>3 DEF Typed, RowsTyped, Status
<1> QED BY <1>1, <1>2, <1>3, <1>4 DEF Typed, RowsTyped, Status, FailedJobHasAttemptLeft

\* The steps of the owners that only concern their memberships.
Membership == \E o \in Owners : LeaveWorkspace(o) \/ ReturnToWorkspace(o)

\* The first statement of a claim is refused and ends the dispatch, or the route is visited.
LEMMA StaleVisit ==
    ASSUME NEW w \in Dispatchers, ExpireStale(w)
    PROVE  \/ Rejects(w) /\ UNCHANGED <<job, stale, queue, accepted>>
           \/ \E r \in d[w].todo :
                 /\ Expire(stale \cap {<<d[w].run, r>>}) /\ UNCHANGED <<queue, accepted>>
                 /\ Becomes(w, [d[w] EXCEPT !.pc = "claim", !.todo = @ \ {r}, !.route = r])
BY DEF ExpireStale

\* The deletion of an account cancels the open jobs of its owner and leaves the others.
LEMMA Deletion ==
    ASSUME Typed, NEW o \in Owners, DeleteAccount(o)
    PROVE  /\ \A k \in Keys :
                 \/ /\ job'[k] = job[k]
                    /\ OwnerOf[k[2]] = o => job[k].status \notin {"sending", "failed"}
                 \/ /\ OwnerOf[k[2]] = o /\ job[k].status \in {"sending", "failed"}
                    /\ job'[k].status = "cancelled"
           /\ job' \in [Keys -> [status : JobStatuses, attempts : 0..MaxAttempts]]
           /\ stale' = {k \in stale : OwnerOf[k[2]] # o}
           /\ due' = {k \in due : OwnerOf[k[2]] # o}
           /\ before' \subseteq before /\ before' \subseteq due' \X due'
           /\ UNCHANGED <<accepted, d>>
<1> DEFINE open == {k \in {k \in Keys : OwnerOf[k[2]] = o} : job[k].status \in {"sending", "failed"}}
<1>1. job' = [k \in Keys |-> IF k \in open THEN [job[k] EXCEPT !.status = "cancelled"]
                                           ELSE job[k]]
  BY DEF DeleteAccount
<1>2. \A k \in Keys : /\ k \in open => job'[k] = [job[k] EXCEPT !.status = "cancelled"]
                      /\ k \notin open => job'[k] = job[k]
  BY <1>1
<1>3. \A k \in Keys : job[k] \in [status : JobStatuses, attempts : 0..MaxAttempts]
  BY DEF Typed, RowsTyped
<1>4. \A k \in open : /\ [job[k] EXCEPT !.status = "cancelled"].status = "cancelled"
                      /\ [job[k] EXCEPT !.status = "cancelled"]
                            \in [status : JobStatuses, attempts : 0..MaxAttempts]
  BY <1>3 DEF JobStatuses
<1>5. job' \in [Keys -> [status : JobStatuses, attempts : 0..MaxAttempts]]
  BY <1>1, <1>3, <1>4
<1>6. /\ stale' = {k \in stale : OwnerOf[k[2]] # o} /\ due' = {k \in due : OwnerOf[k[2]] # o}
  BY DEF DeleteAccount, Typed, RowsTyped
<1>7. before' \subseteq before /\ before' \subseteq due' \X due'
  <2>1. before' = {pair \in before : /\ pair[1] \notin {k \in Keys : OwnerOf[k[2]] = o}
                                     /\ pair[2] \notin {k \in Keys : OwnerOf[k[2]] = o}}
    BY DEF DeleteAccount
  <2>2. due \subseteq Keys /\ before \subseteq due \X due
    BY DEF Typed, RowsTyped
  <2> QED BY <1>6, <2>1, <2>2
<1>8. UNCHANGED <<accepted, d>>
  BY DEF DeleteAccount
<1> QED BY <1>2, <1>4, <1>5, <1>6, <1>7, <1>8

\* Every step keeps the rows typed.
LEMMA NextRows == ASSUME Typed, [Next]_vars PROVE RowsTyped'
<1>1. CASE UNCHANGED <<job, stale, queue>>
  BY <1>1 DEF queue, Typed, RowsTyped, Status, FailedJobHasAttemptLeft
<1>2. ASSUME NEW w \in Dispatchers, ExpireStale(w) PROVE RowsTyped'
  BY <1>1, <1>2, StaleVisit, ExpireRows
<1>3. ASSUME NEW w \in Dispatchers, SweepStale(w) PROVE RowsTyped'
  BY <1>3, ExpireRows DEF SweepStale
<1>4. ASSUME NEW w \in Dispatchers, ClaimJob(w) PROVE RowsTyped'
  <2> DEFINE k == Key(w)
             row == [job[k] EXCEPT !.status = "sending"]
  <2>1. k \in Keys
    BY <1>4, KeyIsKey DEF ClaimJob, At, OnRoute, Dispatching
  <2>2. /\ row \in [status : JobStatuses, attempts : 0..MaxAttempts] /\ row.status = "sending"
        /\ job' = [job EXCEPT ![k] = row]
    BY <1>4, <2>1 DEF ClaimJob, Typed, RowsTyped, JobStatuses
  <2>3. /\ stale' = stale \ {k} /\ due' = due \ {k}
        /\ before' = {pair \in before : k \notin {pair[1], pair[2]}}
    BY <1>4 DEF ClaimJob
  <2> HIDE DEF k, row
  <2> QED BY <2>1, <2>2, <2>3, OneRow
<1>5. ASSUME NEW w \in Dispatchers, RecordSuccess(w), ~UNCHANGED <<job, stale>> PROVE RowsTyped'
  <2> DEFINE k == Key(w)
             row == [status |-> "sent", attempts |-> d[w].tries + 1]
  <2>1. k \in Keys /\ d[w].tries + 1 \in 0..MaxAttempts
    BY <1>5, KeyIsKey, LocalGood, PositiveBounds
    DEF RecordSuccess, At, OnRoute, Dispatching, GoodLocal, Locals
  <2>2. /\ row \in [status : JobStatuses, attempts : 0..MaxAttempts] /\ row.status = "sent"
    BY <2>1 DEF JobStatuses
  <2>3. /\ job' = [job EXCEPT ![k] = row] /\ stale' = stale \ {k} /\ UNCHANGED queue
        /\ ~Status(k, "failed")
    BY <1>5 DEF RecordSuccess, MayRecord, OwnsJob, Status
  <2> HIDE DEF k, row
  <2> QED BY <2>1, <2>2, <2>3, OneRow
<1>6. ASSUME NEW w \in Dispatchers, RecordFailure(w), ~UNCHANGED <<job, stale>> PROVE RowsTyped'
  <2> DEFINE k == Key(w)
             retried == IsRetried(d[w].kind, d[w].tries + 1)
             row == [status |-> IF retried THEN "failed" ELSE "dead_letter",
                     attempts |-> d[w].tries + 1]
  <2>1. k \in Keys /\ d[w].tries + 1 \in 0..MaxAttempts
    BY <1>6, KeyIsKey, LocalGood, PositiveBounds
    DEF RecordFailure, At, OnRoute, Dispatching, GoodLocal, Locals
  <2>2. /\ row \in [status : JobStatuses, attempts : 0..MaxAttempts] /\ row.status # "absent"
        /\ row.status = "failed" => row.attempts < MaxAttempts
    BY <2>1 DEF JobStatuses, IsRetried
  <2>3. /\ job' = [job EXCEPT ![k] = row] /\ stale' = stale \ {k} /\ UNCHANGED queue
        /\ ~Status(k, "failed")
    BY <1>6 DEF RecordFailure, MayRecord, OwnsJob, Status
  <2> HIDE DEF k, row
  <2> QED BY <2>1, <2>2, <2>3, OneRow
<1>7. ASSUME NEW k \in Keys, TwoMinutesPass(k) \/ BackoffElapses(k) PROVE RowsTyped'
  BY <1>7 DEF TwoMinutesPass, BackoffElapses, queue, Typed, RowsTyped, Status,
              FailedJobHasAttemptLeft
<1>8. ASSUME NEW o \in Owners, DeleteAccount(o) PROVE RowsTyped'
  <2>1. /\ stale' \subseteq {k \in Keys : job'[k].status = "sending"}
        /\ due' \subseteq {k \in Keys : job'[k].status = "failed"}
    BY <1>8, Deletion DEF Typed, RowsTyped, Status
  <2>2. /\ \A k \in Keys : job'[k] = job[k] \/ job'[k].status = "cancelled"
        /\ job' \in [Keys -> [status : JobStatuses, attempts : 0..MaxAttempts]]
        /\ before' \subseteq due' \X due'
    BY <1>8, Deletion
  <2> QED BY <2>1, <2>2 DEF Typed, RowsTyped, Status, FailedJobHasAttemptLeft
<1>9. ASSUME NEW w \in Dispatchers, RecordSuccess(w) \/ RecordFailure(w)
      PROVE  RowsTyped'
  <2>1. CASE UNCHANGED <<job, stale>>
    BY <1>1, <1>9, <2>1 DEF RecordSuccess, RecordFailure
  <2>2. CASE ~UNCHANGED <<job, stale>>
    BY <1>5, <1>6, <1>9, <2>2 DEF RecordSuccess, RecordFailure
  <2> QED BY <2>1, <2>2
<1> QED
  BY <1>1, <1>2, <1>3, <1>4, <1>7, <1>8, <1>9
  DEF Next, Step, Time, vars, queue, StartDispatch, ReadDue, StartBatch, EndBatches,
      DenyClaim, RefuseClaim, Send, EndDispatch, Throw, Crash, Bind, Disconnect,
      LeaveWorkspace, ReturnToWorkspace

\* Every step keeps the dispatchers typed.
LEMMA NextDispatchers == ASSUME Typed, [Next]_vars PROVE DispatchersTyped'
<1>1. CASE UNCHANGED d
  BY <1>1 DEF Typed, DispatchersTyped
<1>2. ASSUME NEW w \in Dispatchers, StartDispatch(w) \/ StartBatch(w)
      PROVE  DispatchersTyped'
  <2>1. CASE StartDispatch(w)
    <3>1. PICK run \in Runs, routes \in {Telegram, Routes \ Telegram} : LoadRoutes(w, run, routes)
      BY <2>1 DEF StartDispatch
    <3>2. routes \in SUBSET Routes
      BY <3>1, TelegramRoutes
    <3> QED BY <3>1, <3>2, LoadRoutesGood
  <2>2. CASE StartBatch(w)
    <3>1. PICK run \in d[w].batches : LoadRoutes(w, run, Routes)
      BY <2>2 DEF StartBatch
    <3>2. run \in Runs
      BY <3>1, LocalGood DEF GoodLocal, Locals
    <3> QED BY <3>1, <3>2, LoadRoutesGood
  <2> QED BY <1>2, <2>1, <2>2
<1>3. ASSUME NEW w \in Dispatchers, ExpireStale(w) PROVE DispatchersTyped'
  <2>1. CASE Rejects(w)
    BY <2>1, OverGood, MoveTyped DEF Rejects
  <2>2. ASSUME NEW r \in d[w].todo,
               Becomes(w, [d[w] EXCEPT !.pc = "claim", !.todo = @ \ {r}, !.route = r])
        PROVE  DispatchersTyped'
    BY <1>3, <2>2, VisitGood DEF ExpireStale, At
  <2> QED BY <1>3, <2>1, <2>2, StaleVisit
<1>4. ASSUME NEW w \in Dispatchers, Rejects(w) PROVE DispatchersTyped'
  BY <1>4, OverGood, MoveTyped DEF Rejects
<1>5. ASSUME NEW w \in Dispatchers, NextRoute(w), d[w].pc \in Dispatching
      PROVE  DispatchersTyped'
  BY <1>5, NextRouteGood
<1>6. ASSUME NEW w \in Dispatchers, d[w].pc \in OnRoute, NEW kind \in Kinds,
             Becomes(w, [d[w] EXCEPT !.pc = "failed", !.kind = kind])
      PROVE  DispatchersTyped'
  BY <1>6, FailsGood
<1>7. ASSUME NEW w \in Dispatchers, ClaimJob(w) PROVE DispatchersTyped'
  <2>1. Key(w) \in Keys
    BY <1>7, KeyIsKey DEF ClaimJob, At, OnRoute, Dispatching
  <2>2. job[Key(w)].attempts \in 0..(MaxAttempts - 1)
    BY <1>7, <2>1, PositiveBounds
    DEF ClaimJob, Claimable, Typed, RowsTyped, Status, FailedJobHasAttemptLeft
  <2> QED BY <1>4, <1>7, <2>2, StageGood DEF ClaimJob, At, OnRoute, Dispatching
<1>8. ASSUME NEW w \in Dispatchers, Send(w) PROVE DispatchersTyped'
  <2>1. d[w] \in Locals /\ d[w].pc \in OnRoute
    BY <1>8, LocalGood DEF GoodLocal, Send, At, OnRoute, Dispatching
  <2>2. CASE Becomes(w, [d[w] EXCEPT !.pc = "succeeded"])
    <3>1. [d[w] EXCEPT !.pc = "succeeded"] = [d[w] EXCEPT !.pc = "succeeded", !.tries = d[w].tries]
          /\ d[w].tries \in 0..(MaxAttempts - 1)
      BY <2>1 DEF Locals
    <3> QED BY <2>1, <2>2, <3>1, StageGood
  <2> QED BY <1>6, <1>8, <2>1, <2>2 DEF Send, Kinds
<1>9. ASSUME NEW w \in Dispatchers, RecordSuccess(w) \/ RecordFailure(w)
      PROVE  DispatchersTyped'
  BY <1>5, <1>6, <1>9 DEF RecordSuccess, RecordFailure, At, OnRoute, Dispatching, Kinds
<1>10. ASSUME NEW w \in Dispatchers, SweepStale(w) \/ ReadDue(w) PROVE DispatchersTyped'
  <2>1. OldestRuns \in SUBSET Runs
    <3>1. \A k \in due : k[1] \in Runs
      BY KeysAreMatched DEF Typed, RowsTyped
    <3>2. \A run \in OldestRuns : \E k \in due : run = k[1]
      BY Zenon DEF OldestRuns
    <3> QED BY <3>1, <3>2
  <2> QED BY <1>10, <2>1, NoBatches, IdleGood, MoveTyped DEF SweepStale, ReadDue
<1>11. ASSUME NEW w \in Dispatchers, Becomes(w, Idle) PROVE DispatchersTyped'
  <2>1. GoodLocal(Idle)
    BY IdleTyped DEF GoodLocal, Placed, Idle, OnRoute, Dispatching
  <2> QED BY <1>11, <2>1, MoveTyped
<1>12. ASSUME NEW w \in Dispatchers, Throw(w) PROVE DispatchersTyped'
  <2>1. ASSUME At(w, "batch"), NEW run \in d[w].batches,
               Becomes(w, [d[w] EXCEPT !.batches = @ \ {run}])
        PROVE  DispatchersTyped'
    <3>1. d[w] \in Locals /\ d[w].pc = "batch"
      BY <2>1, LocalGood DEF GoodLocal, At
    <3>2. [d[w] EXCEPT !.batches = @ \ {run}] \in Locals
          /\ [d[w] EXCEPT !.batches = @ \ {run}].pc = "batch"
      BY <3>1 DEF Locals
    <3>3. GoodLocal([d[w] EXCEPT !.batches = @ \ {run}])
      BY <3>2 DEF GoodLocal, Placed, OnRoute, Dispatching
    <3> QED BY <2>1, <3>3, MoveTyped
  <2> QED BY <1>4, <1>11, <1>12, <2>1 DEF Throw
<1> QED
  BY <1>1, <1>2, <1>3, <1>4, <1>5, <1>7, <1>8, <1>9, <1>10, <1>11, <1>12
  DEF Next, Step, Time, vars, EndBatches, DenyClaim, RefuseClaim, EndDispatch, Crash,
      TwoMinutesPass, BackoffElapses, Bind, Disconnect, DeleteAccount, LeaveWorkspace,
      ReturnToWorkspace, At, Dispatching

\* Only an owner's own step changes the standing of that owner, and the deletion is final.
LEMMA OwnersMove ==
    ASSUME [Next]_vars
    PROVE  \/ UNCHANGED owner
           \/ \E o \in Owners :
                 \/ owner[o] = "active" /\ DeleteAccount(o) /\ owner' = [owner EXCEPT ![o] = "deleted"]
                 \/ owner[o] = "active" /\ LeaveWorkspace(o) /\ owner' = [owner EXCEPT ![o] = "left"]
                 \/ owner[o] = "left" /\ ReturnToWorkspace(o) /\ owner' = [owner EXCEPT ![o] = "active"]
<1>1. ASSUME NEW w \in Dispatchers,
             StartDispatch(w) \/ SweepStale(w) \/ Step(w) \/ Throw(w) \/ Crash(w)
      PROVE  UNCHANGED owner
  BY <1>1
  DEF Step, connections, StartDispatch, SweepStale, ReadDue, StartBatch, EndBatches, ExpireStale,
      ClaimJob, DenyClaim, RefuseClaim, Send, RecordSuccess, RecordFailure, EndDispatch, Throw,
      Crash
<1>2. CASE (\E r \in Routes : Bind(r) \/ Disconnect(r)) \/ Time \/ UNCHANGED vars
  BY <1>2 DEF Bind, Disconnect, Time, TwoMinutesPass, BackoffElapses, connections, vars
<1>3. ASSUME NEW o \in Owners, DeleteAccount(o)
      PROVE  owner[o] = "active" /\ owner' = [owner EXCEPT ![o] = "deleted"]
  BY <1>3 DEF DeleteAccount
<1>4. ASSUME NEW o \in Owners, LeaveWorkspace(o)
      PROVE  owner[o] = "active" /\ owner' = [owner EXCEPT ![o] = "left"]
  BY <1>4 DEF LeaveWorkspace
<1>5. ASSUME NEW o \in Owners, ReturnToWorkspace(o)
      PROVE  owner[o] = "left" /\ owner' = [owner EXCEPT ![o] = "active"]
  BY <1>5 DEF ReturnToWorkspace
<1> QED BY <1>1, <1>2, <1>3, <1>4, <1>5 DEF Next

\* Every step keeps the state typed.
LEMMA NextTyped == ASSUME Typed, [Next]_vars PROVE Typed'
<1>1. RowsTyped' /\ DispatchersTyped'
  BY NextRows, NextDispatchers
<1>2. owner' \in [Owners -> {"active", "left", "deleted"}]
  <2>1. ASSUME NEW o \in Owners, NEW status \in {"active", "left", "deleted"},
               owner' = [owner EXCEPT ![o] = status]
        PROVE  owner' \in [Owners -> {"active", "left", "deleted"}]
    BY <2>1 DEF Typed, TypeOK
  <2>2. CASE UNCHANGED owner
    BY <2>2 DEF Typed, TypeOK
  <2> QED
    BY <2>1, <2>2, OwnersMove
<1>3. /\ account' \in [Routes -> {"connected", "revoked"}]
      /\ endpoint' \in [Routes -> EndpointStatuses]
  <2> DEFINE Good == /\ account' \in [Routes -> {"connected", "revoked"}]
                     /\ endpoint' \in [Routes -> EndpointStatuses]
  <2>1. /\ account \in [Routes -> {"connected", "revoked"}]
        /\ endpoint \in [Routes -> EndpointStatuses]
    BY DEF Typed, TypeOK
  <2>2. CASE UNCHANGED <<account, endpoint>>
    BY <2>1, <2>2
  <2>3. ASSUME NEW w \in Dispatchers, RecordSuccess(w) \/ RecordFailure(w) PROVE Good
    BY <2>1, <2>3 DEF RecordSuccess, RecordFailure, EndpointStatuses
  <2>4. ASSUME NEW r \in Routes, Bind(r) \/ Disconnect(r) PROVE Good
    BY <2>1, <2>4 DEF Bind, Disconnect, EndpointStatuses
  <2>5. ASSUME NEW o \in Owners, DeleteAccount(o) PROVE Good
    BY <2>1, <2>5 DEF DeleteAccount, EndpointStatuses
  <2> HIDE DEF Good
  <2>6. ASSUME NEW w \in Dispatchers,
               StartDispatch(w) \/ SweepStale(w) \/ Step(w) \/ Throw(w) \/ Crash(w)
        PROVE  Good
    BY <2>2, <2>3, <2>6
    DEF Good, Step, connections, StartDispatch, SweepStale, ReadDue, StartBatch, EndBatches,
        ExpireStale, ClaimJob, DenyClaim, RefuseClaim, Send, EndDispatch, Throw, Crash
  <2>7. ASSUME Time \/ Membership \/ UNCHANGED vars PROVE Good
    BY <2>2, <2>7
    DEF Good, Time, Membership, connections, vars, TwoMinutesPass, BackoffElapses,
        LeaveWorkspace, ReturnToWorkspace
  <2>8. Good
    BY <2>4, <2>5, <2>6, <2>7 DEF Next, Membership
  <2> QED BY <2>8 DEF Good
<1>4. accepted' \in [Keys -> Nat]
  <2>1. ASSUME NEW w \in Dispatchers, Send(w) PROVE accepted' \in [Keys -> Nat]
    <3>1. Key(w) \in Keys /\ accepted \in [Keys -> Nat]
      BY <2>1, KeyIsKey DEF Send, At, OnRoute, Dispatching, Typed, TypeOK
    <3>2. \/ accepted' = accepted
          \/ accepted' = [accepted EXCEPT ![Key(w)] = accepted[Key(w)] + 1]
      BY <2>1 DEF Send
    <3> QED BY <3>1, <3>2
  <2>2. CASE UNCHANGED accepted
    BY <2>2 DEF Typed, TypeOK
  <2> QED
    BY <2>1, <2>2
    DEF Next, Step, Time, vars, StartDispatch, SweepStale, ReadDue, StartBatch, EndBatches,
        ExpireStale, ClaimJob, DenyClaim, RefuseClaim, RecordSuccess, RecordFailure,
        EndDispatch, Throw, Crash, TwoMinutesPass, BackoffElapses, Bind, Disconnect,
        DeleteAccount, LeaveWorkspace, ReturnToWorkspace
<1> QED BY <1>1, <1>2, <1>3, <1>4 DEF Typed, TypeOK, RowsTyped, DispatchersTyped, Status

\* The initial states are typed.
LEMMA InitTyped == Init => Typed
<1> SUFFICES ASSUME Init PROVE Typed
  OBVIOUS
<1>1. RowsTyped
  BY PositiveBounds DEF Init, RowsTyped, JobStatuses, Status, FailedJobHasAttemptLeft
<1>2. DispatchersTyped
  BY IdleTyped DEF Init, DispatchersTyped, Placed, Idle, OnRoute, Dispatching
<1> QED
  BY <1>1, <1>2 DEF Init, Typed, TypeOK, RowsTyped, DispatchersTyped, EndpointStatuses, Status

\* The typing invariant with its strengthening.
LEMMA AlwaysTyped == Spec => []Typed
BY InitTyped, NextTyped, PTL DEF Spec

\* Every variable keeps its type, and no attempt is counted past the limit.
THEOREM TypeCorrect == Spec => []TypeOK
<1>1. Typed => TypeOK
  BY DEF Typed
<1> QED BY <1>1, AlwaysTyped, PTL

\* A failed job has an attempt left.
THEOREM FailedIsRetryable == Spec => []FailedJobHasAttemptLeft
<1>1. Typed => FailedJobHasAttemptLeft
  BY DEF Typed, RowsTyped
<1> QED BY <1>1, AlwaysTyped, PTL
-----------------------------------------------------------------------------
(* At most one copy *)

\* The invariant behind the promise of the outbox.  A held job is not to be had for
\* anyone else, and the stage of its holder says whether it was accepted; a job that
\* can be had was not.
Held(w) ==
    Holding(w) =>
        /\ ~Status(Key(w), "absent") /\ ~Status(Key(w), "failed")
        /\ At(w, "send") => accepted[Key(w)] = 0
        /\ At(w, "succeeded") => accepted[Key(w)] = 1
        /\ At(w, "failed") /\ d[w].kind # "ambiguous" => accepted[Key(w)] = 0
Counted(k) ==
    /\ accepted[k] <= 1
    /\ Status(k, "absent") \/ Status(k, "failed") => accepted[k] = 0
    /\ Status(k, "sent") => accepted[k] = 1
SendInv ==
    /\ OneSenderPerJob
    /\ \A w \in Dispatchers : Held(w)
    /\ \A k \in Keys : Counted(k)

\* A step that only lets holders go and declares jobs dead keeps the invariant.
LEMMA QuietSend ==
    ASSUME SendInv, Typed, UNCHANGED accepted,
           \A v \in Dispatchers : d'[v] = d[v] \/ ~Holding(v)',
           \A k \in Keys : \/ job'[k].status = job[k].status
                           \/ job'[k].status \in {"dead_letter", "cancelled"}
    PROVE  SendInv'
<1>1. OneSenderPerJob'
  BY DEF SendInv, OneSenderPerJob, Holding, Key
<1>2. ASSUME NEW w \in Dispatchers PROVE Held(w)'
  <2> SUFFICES ASSUME Holding(w)' PROVE Held(w)'
    BY DEF Held
  <2>1. d'[w] = d[w] /\ Holding(w) /\ Key(w)' = Key(w)
    BY DEF Holding, Key
  <2>2. Key(w) \in Keys
    BY <2>1, KeyIsKey DEF Holding, OnRoute, Dispatching
  <2> QED BY <2>1, <2>2 DEF SendInv, Held, At, Status
<1>3. ASSUME NEW k \in Keys PROVE Counted(k)'
  BY DEF SendInv, Counted, Status
<1> QED BY <1>1, <1>2, <1>3 DEF SendInv

\* A dispatcher that ends up idle, between batches or before its next route holds nothing.
LEMMA LetsGo ==
    ASSUME Typed, NEW w \in Dispatchers,
           \/ Rejects(w)
           \/ NextRoute(w) /\ d[w].pc \in Dispatching
           \/ Becomes(w, Idle)
           \/ \E label \in {"due", "batch"}, batches \in SUBSET Runs :
                 Becomes(w, [Idle EXCEPT !.pc = label, !.batches = batches])
    PROVE  \A v \in Dispatchers : d'[v] = d[v] \/ ~Holding(v)'
<1>1. CASE Rejects(w)
  <2>1. GoodLocal(DispatchOver(w)) /\ DispatchOver(w).pc = "batch"
    BY OverGood
  <2> QED BY <1>1, <2>1, MoveTyped DEF Rejects, Holding
<1>2. CASE NextRoute(w) /\ d[w].pc \in Dispatching
  BY <1>2, NextRouteGood DEF Holding
<1>3. CASE Becomes(w, Idle)
  <2>1. GoodLocal(Idle) /\ Idle.pc = "idle"
    BY IdleTyped DEF GoodLocal, Placed, Idle, OnRoute, Dispatching
  <2> QED BY <1>3, <2>1, MoveTyped DEF Holding
<1>4. ASSUME NEW label \in {"due", "batch"}, NEW batches \in SUBSET Runs,
             Becomes(w, [Idle EXCEPT !.pc = label, !.batches = batches])
      PROVE  \A v \in Dispatchers : d'[v] = d[v] \/ ~Holding(v)'
  <2> DEFINE local == [Idle EXCEPT !.pc = label, !.batches = batches]
  <2>1. GoodLocal(local) /\ local.pc = label
    BY IdleGood
  <2>2. Becomes(w, local)
    BY <1>4
  <2> HIDE DEF local
  <2> QED BY <2>1, <2>2, MoveTyped DEF Holding
<1> QED BY <1>1, <1>2, <1>3, <1>4

\* The steps of a dispatcher that holds nothing before or after them.
LEMMA OffRouteSend ==
    ASSUME SendInv, Typed, NEW w \in Dispatchers,
           \/ StartDispatch(w) \/ StartBatch(w) \/ EndBatches(w) \/ SweepStale(w) \/ ReadDue(w)
           \/ ExpireStale(w) \/ DenyClaim(w) \/ RefuseClaim(w) \/ EndDispatch(w)
           \/ Throw(w) \/ Crash(w)
    PROVE  SendInv'
<1> DEFINE Quiet == \A v \in Dispatchers : d'[v] = d[v] \/ ~Holding(v)'
           Rows == \A k \in Keys : \/ job'[k].status = job[k].status
                                   \/ job'[k].status \in {"dead_letter", "cancelled"}
<1>1. UNCHANGED accepted
  BY DEF StartDispatch, StartBatch, EndBatches, SweepStale, ReadDue, ExpireStale, DenyClaim,
         RefuseClaim, EndDispatch, Throw, Crash
<1>2. Rows
  <2>1. ASSUME NEW group, Expire(group) PROVE Rows
    BY <2>1 DEF Expire, Typed, RowsTyped
  <2> QED
    BY <2>1 DEF StartDispatch, StartBatch, EndBatches, SweepStale, ReadDue, ExpireStale,
                DenyClaim, RefuseClaim, EndDispatch, Throw, Crash
<1>3. Quiet
  <2>1. ASSUME NEW run \in Runs, NEW routes \in SUBSET Routes, LoadRoutes(w, run, routes)
        PROVE  Quiet
    BY <2>1, LoadRoutesGood DEF Holding
  <2>2. CASE StartDispatch(w)
    <3>1. \A routes \in {Telegram, Routes \ Telegram} : routes \in SUBSET Routes
      BY TelegramRoutes
    <3> QED BY <2>1, <2>2, <3>1 DEF StartDispatch
  <2>3. CASE StartBatch(w)
    BY <2>1, <2>3, LocalGood DEF StartBatch, GoodLocal, Locals
  <2>4. CASE ExpireStale(w)
    <3>1. CASE Rejects(w)
      BY <3>1, LetsGo
    <3>2. ASSUME NEW r \in d[w].todo,
                 Becomes(w, [d[w] EXCEPT !.pc = "claim", !.todo = @ \ {r}, !.route = r])
          PROVE  Quiet
      BY <2>4, <3>2, VisitGood DEF ExpireStale, At, Holding
    <3> QED BY <2>4, <3>1, <3>2, StaleVisit
  <2>5. CASE SweepStale(w) \/ ReadDue(w)
    <3>1. OldestRuns \in SUBSET Runs
      <4>1. \A k \in due : k[1] \in Runs
        BY KeysAreMatched DEF Typed, RowsTyped
      <4>2. \A run \in OldestRuns : \E k \in due : run = k[1]
        BY Zenon DEF OldestRuns
      <4> QED BY <4>1, <4>2
    <3>2. CASE SweepStale(w)
      BY <3>2, NoBatches, MoveTyped DEF SweepStale, Holding
    <3>3. CASE ReadDue(w)
      BY <3>1, <3>3, LetsGo DEF ReadDue
    <3> QED BY <2>5, <3>2, <3>3
  <2>6. CASE Throw(w)
    <3>1. ASSUME At(w, "batch"), NEW run \in d[w].batches,
                 Becomes(w, [d[w] EXCEPT !.batches = @ \ {run}])
          PROVE  Quiet
      <4>1. d[w] \in Locals /\ d[w].pc = "batch"
        BY <3>1, LocalGood DEF GoodLocal, At
      <4>2. [d[w] EXCEPT !.batches = @ \ {run}] \in Locals
            /\ [d[w] EXCEPT !.batches = @ \ {run}].pc = "batch"
        BY <4>1 DEF Locals
      <4>3. GoodLocal([d[w] EXCEPT !.batches = @ \ {run}])
        BY <4>2 DEF GoodLocal, Placed, OnRoute, Dispatching
      <4> QED BY <3>1, <4>2, <4>3, MoveTyped DEF Holding
    <3>2. CASE Becomes(w, Idle)
      BY <3>2, LetsGo
    <3>3. CASE Rejects(w)
      BY <3>3, LetsGo
    <3> QED BY <2>6, <3>1, <3>2, <3>3 DEF Throw
  <2>7. CASE EndBatches(w) \/ DenyClaim(w) \/ RefuseClaim(w) \/ EndDispatch(w) \/ Crash(w)
    BY <2>7, LetsGo DEF EndBatches, DenyClaim, RefuseClaim, EndDispatch, Crash, At, Dispatching
  <2> QED BY <2>2, <2>3, <2>4, <2>5, <2>6, <2>7
<1> QED BY <1>1, <1>2, <1>3, QuietSend

\* A step of a dispatcher on its route, that touches the job of its key and no other.
LEMMA KeySend ==
    ASSUME SendInv, Typed, NEW w \in Dispatchers, NEW k \in Keys, d[w].pc \in OnRoute,
           k = Key(w),
           \A v \in Dispatchers \ {w} : d'[v] = d[v] /\ (Holding(v) => Key(v) # k),
           \A j \in Keys \ {k} : job'[j] = job[j] /\ accepted'[j] = accepted[j],
           Counted(k)', Holding(w)' => Key(w)' = k /\ Held(w)'
    PROVE  SendInv'
<1>1. ASSUME NEW v \in Dispatchers \ {w}
      PROVE  /\ Holding(v)' = Holding(v) /\ Key(v)' = Key(v)
             /\ Holding(v) => Key(v) \in Keys \ {k}
  BY <1>1, KeyIsKey DEF Holding, Key, OnRoute, Dispatching
<1>2. OneSenderPerJob'
  <2> SUFFICES ASSUME NEW u \in Dispatchers, NEW v \in Dispatchers, u # v,
                      Holding(u)', Holding(v)'
               PROVE  Key(u)' # Key(v)'
    BY DEF OneSenderPerJob
  <2>1. CASE u = w
    BY <1>1, <2>1
  <2>2. CASE v = w
    BY <1>1, <2>2
  <2>3. CASE u # w /\ v # w
    BY <1>1, <2>3 DEF SendInv, OneSenderPerJob
  <2> QED BY <2>1, <2>2, <2>3
<1>3. ASSUME NEW v \in Dispatchers \ {w} PROVE Held(v)'
  <2> SUFFICES ASSUME Holding(v)' PROVE Held(v)'
    BY DEF Held
  <2>1. /\ Key(v)' = Key(v) /\ Key(v) \in Keys /\ d'[v] = d[v] /\ Held(v) /\ Holding(v)
        /\ job'[Key(v)] = job[Key(v)] /\ accepted'[Key(v)] = accepted[Key(v)]
    BY <1>1 DEF SendInv
  <2> QED BY <2>1 DEF Held, At, Status
<1>4. Held(w)'
  BY DEF Held
<1>5. ASSUME NEW j \in Keys PROVE Counted(j)'
  BY DEF SendInv, Counted, Status
<1> QED BY <1>2, <1>3, <1>4, <1>5 DEF SendInv

\* A claim takes a job that nobody holds and that was never accepted.
LEMMA ClaimSend ==
    ASSUME SendInv, Typed, NEW w \in Dispatchers, ClaimJob(w)
    PROVE  SendInv'
<1> PICK k : k = Key(w)
  OBVIOUS
<1>1. d[w].pc = "claim" /\ d[w].pc \in OnRoute /\ k \in Keys
  BY KeyIsKey DEF ClaimJob, At, OnRoute, Dispatching
<1>2. Status(k, "absent") \/ Status(k, "failed")
  BY <1>1 DEF ClaimJob, Claimable, Typed, RowsTyped, Status
<1>3. accepted[k] = 0 /\ accepted' = accepted
  BY <1>1, <1>2 DEF SendInv, Counted, ClaimJob
<1>4. /\ job'[k].status = "sending"
      /\ \A j \in Keys \ {k} : job'[j] = job[j]
  BY <1>1 DEF ClaimJob, Typed, RowsTyped
<1>5. \A v \in Dispatchers \ {w} : Holding(v) => Key(v) # k
  BY <1>2 DEF SendInv, Held
<1>6. Counted(k)'
  BY <1>3, <1>4 DEF Counted, Status
<1>7. CASE Becomes(w, [d[w] EXCEPT !.pc = "send", !.tries = job[k].attempts])
  <2>1. job[k].attempts \in 0..(MaxAttempts - 1)
    BY <1>1, <1>2, PositiveBounds DEF Typed, RowsTyped, Status, FailedJobHasAttemptLeft
  <2>2. /\ d'[w].pc = "send" /\ Key(w)' = Key(w)
        /\ \A v \in Dispatchers \ {w} : d'[v] = d[v]
    BY <1>1, <1>7, <2>1, StageGood
  <2>3. Held(w)'
    BY <1>3, <1>4, <2>2 DEF Held, At, Status
  <2> QED BY <1>1, <1>3, <1>4, <1>5, <1>6, <2>2, <2>3, KeySend
<1>8. CASE Rejects(w)
  <2>1. /\ d'[w].pc = "batch"
        /\ \A v \in Dispatchers \ {w} : d'[v] = d[v]
    BY <1>8, OverGood, MoveTyped DEF Rejects
  <2>2. ~Holding(w)'
    BY <2>1 DEF Holding
  <2> QED BY <1>1, <1>3, <1>4, <1>5, <1>6, <2>1, <2>2, KeySend
<1> QED BY <1>7, <1>8 DEF ClaimJob

\* The one who holds a job sends its one copy.
LEMMA SendSend ==
    ASSUME SendInv, Typed, NEW w \in Dispatchers, Send(w)
    PROVE  SendInv'
<1> PICK k : k = Key(w)
  OBVIOUS
<1>1. d[w].pc = "send" /\ d[w].pc \in OnRoute /\ Holding(w) /\ k \in Keys
  BY KeyIsKey DEF Send, At, OnRoute, Dispatching, Holding
<1>2. /\ accepted[k] = 0 /\ ~Status(k, "absent") /\ ~Status(k, "failed") /\ ~Status(k, "sent")
  BY <1>1 DEF SendInv, Held, At, Counted
<1>3. \A v \in Dispatchers \ {w} : Holding(v) => Key(v) # k
  BY <1>1 DEF SendInv, OneSenderPerJob
<1>4. job' = job
  BY DEF Send
<1>5. d[w] \in Locals /\ [d[w] EXCEPT !.pc = "succeeded"]
                           = [d[w] EXCEPT !.pc = "succeeded", !.tries = d[w].tries]
  BY LocalGood DEF GoodLocal, Locals
<1>6. ASSUME Becomes(w, [d[w] EXCEPT !.pc = "succeeded"])
      PROVE  /\ d'[w].pc = "succeeded" /\ Key(w)' = k
             /\ \A v \in Dispatchers \ {w} : d'[v] = d[v]
  <2>1. d[w].tries \in 0..(MaxAttempts - 1)
    BY <1>5 DEF Locals
  <2> QED BY <1>1, <1>5, <1>6, <2>1, StageGood
<1>7. CASE accepted' = [accepted EXCEPT ![k] = @ + 1]
           /\ \/ Becomes(w, [d[w] EXCEPT !.pc = "succeeded"])
              \/ Becomes(w, [d[w] EXCEPT !.pc = "failed", !.kind = "ambiguous"])
  <2>1. accepted'[k] = 1 /\ \A j \in Keys \ {k} : accepted'[j] = accepted[j]
    BY <1>1, <1>2, <1>7 DEF Typed, TypeOK
  <2>2. /\ \/ d'[w].pc = "succeeded"
           \/ d'[w].pc = "failed" /\ d'[w].kind = "ambiguous"
        /\ Key(w)' = k
        /\ \A v \in Dispatchers \ {w} : d'[v] = d[v]
    <3>1. CASE Becomes(w, [d[w] EXCEPT !.pc = "failed", !.kind = "ambiguous"])
      BY <1>1, <3>1, FailsGood DEF Kinds
    <3>2. CASE Becomes(w, [d[w] EXCEPT !.pc = "succeeded"])
      BY <1>6, <3>2
    <3> QED BY <1>7, <3>1, <3>2
  <2>3. Counted(k)'
    BY <1>2, <1>4, <2>1 DEF Counted, Status
  <2>4. Held(w)'
    BY <1>2, <1>4, <2>1, <2>2 DEF Held, At, Status
  <2> QED BY <1>1, <1>3, <1>4, <2>1, <2>2, <2>3, <2>4, KeySend
<1>8. CASE accepted' = accepted
           /\ \E kind \in Kinds : Becomes(w, [d[w] EXCEPT !.pc = "failed", !.kind = kind])
  <2>1. /\ d'[w].pc = "failed" /\ Key(w)' = k
        /\ \A v \in Dispatchers \ {w} : d'[v] = d[v]
    BY <1>1, <1>8, FailsGood
  <2>2. Counted(k)'
    BY <1>1, <1>4, <1>8 DEF Counted, Status, SendInv
  <2>3. Held(w)'
    BY <1>2, <1>4, <1>8, <2>1 DEF Held, At, Status
  <2> QED BY <1>1, <1>3, <1>4, <1>8, <2>1, <2>2, <2>3, KeySend
<1> QED BY <1>7, <1>8 DEF Send

\* What the holder records agrees with what the provider did.
LEMMA RecordSend ==
    ASSUME SendInv, Typed, NEW w \in Dispatchers, RecordSuccess(w) \/ RecordFailure(w)
    PROVE  SendInv'
<1> PICK k : k = Key(w)
  OBVIOUS
<1>1. /\ d[w].pc \in {"succeeded", "failed"} /\ d[w].pc \in OnRoute
      /\ Holding(w) /\ k \in Keys
  BY KeyIsKey DEF RecordSuccess, RecordFailure, At, OnRoute, Dispatching, Holding
<1>2. ~Status(k, "absent") /\ ~Status(k, "failed") /\ Counted(k)
  BY <1>1 DEF SendInv, Held
<1>3. \A v \in Dispatchers \ {w} : Holding(v) => Key(v) # k
  BY <1>1 DEF SendInv, OneSenderPerJob
<1>4. accepted' = accepted
  BY DEF RecordSuccess, RecordFailure
<1>5. CASE RecordSuccess(w)
  <2>1. accepted[k] = 1
    BY <1>1, <1>5 DEF RecordSuccess, SendInv, Held, At
  <2>2. /\ job'[k] = job[k] \/ job'[k].status = "sent"
        /\ \A j \in Keys \ {k} : job'[j] = job[j]
    BY <1>1, <1>5 DEF RecordSuccess, Typed, RowsTyped
  <2>3. Counted(k)'
    BY <1>2, <1>4, <2>1, <2>2 DEF Counted, Status
  <2>4. /\ \A v \in Dispatchers \ {w} : d'[v] = d[v]
        /\ \/ d'[w].pc = "expire"
           \/ d'[w].pc = "failed" /\ d'[w].kind = "ambiguous" /\ Key(w)' = k
    BY <1>1, <1>5, NextRouteGood, FailsGood
    DEF RecordSuccess, Kinds, OnRoute, Dispatching
  <2>5. Holding(w)' => Key(w)' = k /\ Held(w)'
    BY <1>2, <2>2, <2>4 DEF Holding, Held, At, Status
  <2> QED BY <1>1, <1>3, <1>4, <2>2, <2>3, <2>4, <2>5, KeySend
<1>6. CASE RecordFailure(w)
  <2>1. /\ \/ job'[k] = job[k]
           \/ job'[k].status = "dead_letter"
           \/ job'[k].status = "failed" /\ d[w].kind = "rate_limited"
        /\ \A j \in Keys \ {k} : job'[j] = job[j]
    BY <1>1, <1>6 DEF RecordFailure, IsRetried, Typed, RowsTyped
  <2>2. d[w].kind = "rate_limited" => accepted[k] = 0
    BY <1>1, <1>6 DEF RecordFailure, SendInv, Held, At
  <2>3. Counted(k)'
    BY <1>2, <1>4, <2>1, <2>2 DEF Counted, Status
  <2>4. /\ d'[w].pc = "expire"
        /\ \A v \in Dispatchers \ {w} : d'[v] = d[v]
    BY <1>1, <1>6, NextRouteGood DEF RecordFailure, OnRoute, Dispatching
  <2>5. ~Holding(w)'
    BY <2>4 DEF Holding
  <2> QED BY <1>1, <1>3, <1>4, <2>1, <2>3, <2>4, <2>5, KeySend
<1> QED BY <1>5, <1>6

\* Every step keeps the invariant.
LEMMA NextSend == ASSUME SendInv, Typed, [Next]_vars PROVE SendInv'
<1>1. CASE UNCHANGED <<job, accepted, d>>
  BY <1>1, QuietSend
<1>2. ASSUME NEW o \in Owners, DeleteAccount(o) PROVE SendInv'
  <2>1. /\ \A k \in Keys : job'[k].status \in {job[k].status, "cancelled"}
        /\ UNCHANGED <<accepted, d>>
    BY <1>2, Deletion
  <2> QED BY <2>1, QuietSend
<1>3. ASSUME NEW w \in Dispatchers, StartDispatch(w) \/ SweepStale(w) \/ Step(w)
                                      \/ Throw(w) \/ Crash(w)
      PROVE  SendInv'
  BY <1>3, OffRouteSend, ClaimSend, SendSend, RecordSend DEF Step
<1>4. CASE (\E r \in Routes : Bind(r) \/ Disconnect(r)) \/ Time \/ Membership \/ UNCHANGED vars
  BY <1>1, <1>4
  DEF Bind, Disconnect, Time, TwoMinutesPass, BackoffElapses, Membership, LeaveWorkspace,
      ReturnToWorkspace, vars
<1> QED BY <1>2, <1>3, <1>4 DEF Next, Membership

\* The initial states satisfy it.
LEMMA InitSend == Init => SendInv
BY DEF Init, SendInv, OneSenderPerJob, Holding, Held, Counted, Status, At, Idle

\* The invariant behind the promise of the outbox.
LEMMA AlwaysSend == Spec => [](Typed /\ SendInv)
<1>1. Init => Typed /\ SendInv
  BY InitTyped, InitSend
<1>2. Typed /\ SendInv /\ [Next]_vars => (Typed /\ SendInv)'
  BY NextTyped, NextSend
<1> QED BY <1>1, <1>2, PTL DEF Spec

\* However many callers and retries there are, whoever crashes or stalls, the provider
\* accepts the digest of a job at most once.
THEOREM OneCopyAtMost == Spec => []AtMostOneCopy
<1>1. SendInv => AtMostOneCopy
  BY DEF SendInv, Counted, AtMostOneCopy
<1> QED BY <1>1, AlwaysSend, PTL

\* No two dispatchers ever work on one job.
THEOREM OneSender == Spec => []OneSenderPerJob
<1>1. SendInv => OneSenderPerJob
  BY DEF SendInv
<1> QED BY <1>1, AlwaysSend, PTL

\* A job to be tried again was never accepted, and one recorded as sent was.
THEOREM VerdictsAreTrue == Spec => []VerdictsMatchProvider
<1>1. SendInv => VerdictsMatchProvider
  BY DEF SendInv, Counted, VerdictsMatchProvider
<1> QED BY <1>1, AlwaysSend, PTL
-----------------------------------------------------------------------------
(* The verdict of a job *)

\* A step that changes the row of an open job only.
LEMMA RowsOfOpenJobs ==
    ASSUME Typed, [Next]_vars
    PROVE  \A k \in Keys : job[k].status \notin Open => job'[k] = job[k]
<1> DEFINE Stay == \A k \in Keys : job[k].status \notin Open => job'[k] = job[k]
<1>1. CASE UNCHANGED job
  BY <1>1
<1>2. ASSUME NEW group \in SUBSET stale, Expire(group) PROVE Stay
  BY <1>2 DEF Expire, Typed, RowsTyped, Status, Open
<1>3. ASSUME NEW w \in Dispatchers, ClaimJob(w) PROVE Stay
  <2>1. Key(w) \in Keys
    BY <1>3, KeyIsKey DEF ClaimJob, At, OnRoute, Dispatching
  <2>2. job[Key(w)].status \in Open
    BY <1>3, <2>1 DEF ClaimJob, Claimable, Typed, RowsTyped, Status, Open
  <2> QED BY <1>3, <2>1, <2>2 DEF ClaimJob, Typed, RowsTyped
<1>4. ASSUME NEW w \in Dispatchers, RecordSuccess(w) \/ RecordFailure(w) PROVE Stay
  <2>1. Key(w) \in Keys
    BY <1>4, KeyIsKey DEF RecordSuccess, RecordFailure, At, OnRoute, Dispatching
  <2>2. UNCHANGED job \/ job[Key(w)].status \in Open
    BY <1>4 DEF RecordSuccess, RecordFailure, MayRecord, OwnsJob, Status, Open
  <2> QED BY <1>1, <1>4, <2>1, <2>2 DEF RecordSuccess, RecordFailure, Typed, RowsTyped
<1>5. ASSUME NEW o \in Owners, DeleteAccount(o) PROVE Stay
  BY <1>5, Deletion DEF Open
<1> QED
  BY <1>1, <1>2, <1>3, <1>4, <1>5
  DEF Next, Step, Time, vars, StartDispatch, ReadDue, StartBatch, EndBatches, ExpireStale,
      SweepStale, DenyClaim, RefuseClaim, Send, EndDispatch, Throw, Crash, Bind, Disconnect,
      TwoMinutesPass, BackoffElapses, LeaveWorkspace, ReturnToWorkspace

\* The verdict of a job is final: neither a dispatcher that lost it, nor a sweep, nor the
\* deletion of the account rewrites it.
THEOREM FinalJobsAreFinal == Spec => FinalJobsStay
<1>1. Typed /\ [Next]_vars => \A k \in Keys : job[k].status \notin Open => job'[k] = job[k]
  BY RowsOfOpenJobs
<1> QED BY <1>1, AlwaysTyped, PTL DEF Spec, FinalJobsStay

\* After the deletion of the account no step opens a job.
LEMMA NextDeleted ==
    ASSUME Typed, DeletedOwnerHasNoOpenJob, [Next]_vars
    PROVE  DeletedOwnerHasNoOpenJob'
<1> DEFINE gone(k) == owner[OwnerOf[k[2]]] = "deleted"
           Shut(k) == job'[k].status \notin {"sending", "failed"}
<1>1. \A k \in Keys : OwnerOf[k[2]] \in Owners /\ k[2] \in Routes
  BY KeysAreMatched, RoutesAreOwned
<1>2. ASSUME NEW k \in Keys, gone(k) PROVE Shut(k)
  <2>1. job[k].status \notin {"sending", "failed"} /\ ~MayWrite(k[2])
    BY <1>2 DEF DeletedOwnerHasNoOpenJob, Status, MayWrite
  <2>2. CASE job[k].status \notin Open
    BY <2>1, <2>2, RowsOfOpenJobs
  <2>3. CASE job[k].status = "absent"
    <3>1. CASE UNCHANGED job
      BY <2>1, <3>1
    <3>2. ASSUME NEW group \in SUBSET stale, Expire(group) PROVE Shut(k)
      BY <2>1, <2>3, <3>2 DEF Expire, Typed, RowsTyped, Status
    <3>3. ASSUME NEW w \in Dispatchers, ClaimJob(w) PROVE Shut(k)
      <4>1. Key(w) \in Keys /\ MayWrite(d[w].route) /\ Key(w)[2] = d[w].route
        BY <3>3, KeyIsKey DEF ClaimJob, ClaimIsRefused, At, OnRoute, Dispatching, Key
      <4>2. Key(w) # k
        BY <2>1, <4>1
      <4>3. job'[k] = job[k]
        BY <3>3, <4>1, <4>2 DEF ClaimJob, Typed, RowsTyped
      <4> QED BY <2>1, <4>3
    <3>4. ASSUME NEW w \in Dispatchers, RecordSuccess(w) \/ RecordFailure(w) PROVE Shut(k)
      <4>1. job'[k] = job[k]
        BY <2>3, <3>4
        DEF RecordSuccess, RecordFailure, MayRecord, OwnsJob, Status, Typed, RowsTyped
      <4> QED BY <2>1, <4>1
    <3>5. ASSUME NEW o \in Owners, DeleteAccount(o) PROVE Shut(k)
      BY <2>1, <3>5, Deletion
    <3> HIDE DEF Shut
    <3>6. CASE \E w \in Dispatchers : ExpireStale(w) \/ SweepStale(w)
      <4>1. ASSUME NEW w \in Dispatchers, ExpireStale(w) PROVE Shut(k)
        BY <3>1, <3>2, <4>1, StaleVisit
      <4>2. ASSUME NEW w \in Dispatchers, SweepStale(w) PROVE Shut(k)
        BY <3>2, <4>2 DEF SweepStale
      <4> QED BY <3>6, <4>1, <4>2
    <3> QED
      BY <3>1, <3>3, <3>4, <3>5, <3>6
      DEF Next, Step, Time, vars, StartDispatch, ReadDue, StartBatch, EndBatches, DenyClaim,
          RefuseClaim, Send, EndDispatch, Throw, Crash, Bind, Disconnect, TwoMinutesPass,
          BackoffElapses, LeaveWorkspace, ReturnToWorkspace
  <2> QED BY <2>1, <2>2, <2>3 DEF Open
<1>3. ASSUME NEW k \in Keys, ~gone(k), owner'[OwnerOf[k[2]]] = "deleted" PROVE Shut(k)
  <2>1. PICK o \in Owners : DeleteAccount(o) /\ OwnerOf[k[2]] = o
    BY <1>1, <1>3, OwnersMove DEF Typed, TypeOK
  <2> QED BY <2>1, Deletion
<1> QED BY <1>2, <1>3 DEF DeletedOwnerHasNoOpenJob, Status

\* A deleted account has no open job, although dispatchers that read its routes before
\* may still be under way.
THEOREM DeletedHasNoOpenJob == Spec => []DeletedOwnerHasNoOpenJob
<1>1. Init => DeletedOwnerHasNoOpenJob
  BY KeysAreMatched, RoutesAreOwned DEF Init, DeletedOwnerHasNoOpenJob
<1>2. Typed /\ DeletedOwnerHasNoOpenJob /\ [Next]_vars => DeletedOwnerHasNoOpenJob'
  BY NextDeleted
<1> QED BY <1>1, <1>2, AlwaysTyped, PTL DEF Spec

-----------------------------------------------------------------------------
(* The outbox implements SendOnce *)

recorded == [k \in Keys |-> Verdict(k)]

\* A step that records the verdict v of some jobs, and disturbs no other verdict.
LEMMA RecordsVerdict ==
    ASSUME UNCHANGED accepted, NEW group \in SUBSET Keys, NEW v \in {"sent", "given_up"},
           \A k \in group : /\ job[k].status \in Open /\ Verdict(k)' = v
                            /\ v = "sent" => accepted[k] = 1,
           \A k \in Keys \ group : Verdict(k)' = Verdict(k)
    PROVE  Outbox!Next
<1>1. \A k \in group : recorded[k] = "open" /\ (v = "sent" => accepted[k] = 1)
  BY DEF recorded, Verdict
<1>2. recorded' = [k \in Keys |-> IF k \in group THEN v ELSE recorded[k]]
  BY DEF recorded
<1>3. Outbox!Close(group, v)
  BY <1>1, <1>2 DEF Outbox!Close, recorded
<1> QED BY <1>3 DEF Outbox!Next

\* Every step of the outbox is one of SendOnce, or changes nothing of it.
LEMMA NextRefines ==
    ASSUME Typed, SendInv, [Next]_vars
    PROVE  [Outbox!Next]_<<recorded, accepted>>
<1> DEFINE Same == UNCHANGED <<recorded, accepted>>
<1>1. CASE UNCHANGED <<job, accepted>>
  BY <1>1 DEF recorded, Verdict, Status
<1>2. ASSUME NEW group \in SUBSET stale, Expire(group), UNCHANGED accepted PROVE Outbox!Next
  <2>1. group \in SUBSET Keys /\ \A k \in group : job[k].status \in Open
    BY DEF Typed, RowsTyped, Status, Open
  <2>2. /\ \A k \in group : Verdict(k)' = "given_up"
        /\ \A k \in Keys \ group : Verdict(k)' = Verdict(k)
    BY <1>2, <2>1 DEF Expire, Verdict, Status, Open, Typed, RowsTyped
  <2> QED BY <1>2, <2>1, <2>2, RecordsVerdict
<1>3. ASSUME NEW w \in Dispatchers, ClaimJob(w) PROVE Same
  <2>1. Key(w) \in Keys
    BY <1>3, KeyIsKey DEF ClaimJob, At, OnRoute, Dispatching
  <2>2. job[Key(w)].status \in Open /\ job'[Key(w)].status \in Open
        /\ \A k \in Keys \ {Key(w)} : job'[k] = job[k]
    BY <1>3, <2>1 DEF ClaimJob, Claimable, Typed, RowsTyped, Status, Open
  <2>3. \A k \in Keys : Verdict(k)' = Verdict(k)
    BY <2>2 DEF Verdict, Status
  <2> QED BY <1>3, <2>3 DEF ClaimJob, recorded
<1>4. ASSUME NEW w \in Dispatchers, Send(w), ~UNCHANGED accepted PROVE Outbox!Next
  <2>1. Key(w) \in Keys /\ accepted[Key(w)] = 0
    <3>1. At(w, "send") /\ Holding(w) /\ d[w].pc \in OnRoute
      BY <1>4 DEF Send, At, OnRoute, Dispatching, Holding
    <3>2. Held(w)
      BY DEF SendInv
    <3> QED BY <3>1, <3>2, KeyIsKey DEF Held
  <2>2. accepted' = [accepted EXCEPT ![Key(w)] = 1]
    <3>1. accepted' = [accepted EXCEPT ![Key(w)] = accepted[Key(w)] + 1]
      BY <1>4 DEF Send
    <3> QED BY <2>1, <3>1
  <2>3. UNCHANGED recorded
    BY <1>4 DEF Send, recorded, Verdict, Status
  <2>4. Outbox!Accept(Key(w))
    BY <2>1, <2>2, <2>3 DEF Outbox!Accept, recorded
  <2> QED BY <2>1, <2>4 DEF Outbox!Next
<1>5. ASSUME NEW w \in Dispatchers, RecordSuccess(w), ~UNCHANGED job PROVE Outbox!Next
  <2> PICK k : k = Key(w)
    OBVIOUS
  <2>1. k \in Keys /\ accepted[k] = 1 /\ UNCHANGED accepted
    BY <1>5, KeyIsKey DEF RecordSuccess, At, OnRoute, Dispatching, SendInv, Held, Holding
  <2>2. /\ job[k].status = "sending" /\ job'[k].status = "sent"
        /\ \A j \in Keys \ {k} : job'[j] = job[j]
    BY <1>5, <2>1 DEF RecordSuccess, MayRecord, OwnsJob, Status, Typed, RowsTyped
  <2>3. /\ job[k].status \in Open /\ Verdict(k)' = "sent"
        /\ \A j \in Keys \ {k} : Verdict(j)' = Verdict(j)
    BY <2>2 DEF Verdict, Status, Open
  <2> PICK group : group = {k}
    OBVIOUS
  <2>4. group \in SUBSET Keys /\ (\A j \in group : j = k) /\ Keys \ group = Keys \ {k}
    BY <2>1
  <2> QED BY <2>1, <2>3, <2>4, RecordsVerdict
<1>6. ASSUME NEW w \in Dispatchers, RecordFailure(w), ~UNCHANGED job PROVE Outbox!Next \/ Same
  <2> PICK k : k = Key(w)
    OBVIOUS
  <2>1. k \in Keys /\ UNCHANGED accepted
    BY <1>6, KeyIsKey DEF RecordFailure, At, OnRoute, Dispatching
  <2>2. /\ job[k].status = "sending" /\ job'[k].status \in {"failed", "dead_letter"}
        /\ \A j \in Keys \ {k} : job'[j] = job[j]
    BY <1>6, <2>1 DEF RecordFailure, MayRecord, OwnsJob, Status, Typed, RowsTyped
  <2>3. \A j \in Keys \ {k} : Verdict(j)' = Verdict(j)
    BY <2>2 DEF Verdict, Status
  <2>4. CASE job'[k].status = "failed"
    <3>1. Verdict(k)' = Verdict(k)
      BY <2>2, <2>4 DEF Verdict, Open
    <3> QED BY <2>1, <2>3, <3>1 DEF recorded
  <2>5. CASE job'[k].status = "dead_letter"
    <3>1. job[k].status \in Open /\ Verdict(k)' = "given_up"
      BY <2>2, <2>5 DEF Verdict, Status, Open
    <3> PICK group : group = {k}
      OBVIOUS
    <3>2. group \in SUBSET Keys /\ (\A j \in group : j = k) /\ Keys \ group = Keys \ {k}
      BY <2>1
    <3> QED BY <2>1, <2>3, <3>1, <3>2, RecordsVerdict
  <2> QED BY <2>2, <2>4, <2>5
<1>7. ASSUME NEW o \in Owners, DeleteAccount(o) PROVE Outbox!Next
  <2> PICK group : group = {k \in Keys : /\ OwnerOf[k[2]] = o
                                         /\ job[k].status \in {"sending", "failed"}}
    OBVIOUS
  <2>1. /\ \A k \in group : k \in Keys /\ job[k].status \in Open /\ job'[k].status = "cancelled"
        /\ \A k \in Keys \ group : job'[k] = job[k]
    BY <1>7, Deletion DEF Open
  <2>2. /\ \A k \in group : k \in Keys /\ job[k].status \in Open /\ Verdict(k)' = "given_up"
        /\ \A k \in Keys \ group : Verdict(k)' = Verdict(k)
    BY <2>1 DEF Verdict, Status, Open
  <2>3. UNCHANGED accepted /\ group \in SUBSET Keys
    BY <1>7, Deletion
  <2> QED BY <2>2, <2>3, RecordsVerdict
<1>8. ASSUME NEW w \in Dispatchers,
             ExpireStale(w) \/ SweepStale(w) \/ Send(w) \/ RecordSuccess(w) \/ RecordFailure(w)
      PROVE  Outbox!Next \/ Same
  <2>1. CASE ExpireStale(w) \/ SweepStale(w)
    <3>1. CASE UNCHANGED <<job, accepted>>
      BY <3>1 DEF recorded, Verdict, Status
    <3>2. CASE ExpireStale(w)
      BY <1>2, <3>1, <3>2, StaleVisit
    <3>3. CASE SweepStale(w)
      BY <1>2, <3>3 DEF SweepStale
    <3> QED BY <2>1, <3>2, <3>3
  <2>2. CASE Send(w) /\ UNCHANGED accepted
    BY <1>1, <2>2 DEF Send, recorded, Verdict, Status
  <2>3. CASE (RecordSuccess(w) \/ RecordFailure(w)) /\ UNCHANGED job
    BY <2>3 DEF RecordSuccess, RecordFailure, recorded, Verdict, Status
  <2> QED BY <1>4, <1>5, <1>6, <1>8, <2>1, <2>2, <2>3
<1> HIDE DEF Same
<1>9. UNCHANGED <<job, accepted>> => Same
  BY DEF Same, recorded, Verdict, Status
<1>10. ASSUME NEW w \in Dispatchers,
              \/ StartDispatch(w) \/ ReadDue(w) \/ StartBatch(w) \/ EndBatches(w) \/ DenyClaim(w)
              \/ RefuseClaim(w) \/ EndDispatch(w) \/ Throw(w) \/ Crash(w)
       PROVE  Same
  BY <1>9, <1>10
  DEF StartDispatch, ReadDue, StartBatch, EndBatches, DenyClaim, RefuseClaim, EndDispatch,
      Throw, Crash
<1>11. ASSUME (\E r \in Routes : Bind(r) \/ Disconnect(r)) \/ Time \/ Membership \/ UNCHANGED vars
       PROVE  Same
  <2>1. UNCHANGED <<job, accepted>>
    BY <1>11
    DEF Bind, Disconnect, Time, TwoMinutesPass, BackoffElapses, Membership, LeaveWorkspace,
        ReturnToWorkspace, vars
  <2> QED BY <1>9, <2>1
<1>12. ASSUME NEW w \in Dispatchers, \/ StartDispatch(w) \/ SweepStale(w) \/ Step(w)
                                       \/ Throw(w) \/ Crash(w)
       PROVE  Outbox!Next \/ Same
  BY <1>3, <1>8, <1>10, <1>12 DEF Step
<1>13. CASE \E w \in Dispatchers : \/ StartDispatch(w) \/ SweepStale(w) \/ Step(w)
                                   \/ Throw(w) \/ Crash(w)
  BY <1>12, <1>13 DEF Same
<1>14. CASE \E o \in Owners : DeleteAccount(o)
  BY <1>7, <1>14
<1>15. CASE (\E r \in Routes : Bind(r) \/ Disconnect(r)) \/ Time \/ Membership \/ UNCHANGED vars
  BY <1>11, <1>15 DEF Same
<1> QED BY <1>13, <1>14, <1>15 DEF Next, Membership

\* The outbox keeps the promise of SendOnce for its jobs, with crashes, lost answers,
\* retries, stalled dispatchers and deleted accounts.
THEOREM OutboxSendsOnce == Spec => SendsOnce
<1>1. Init => Outbox!Init
  <2> SUFFICES ASSUME Init PROVE Outbox!Init
    OBVIOUS
  <2>1. \A k \in Keys : Verdict(k) = "open"
    BY DEF Init, Verdict, Open
  <2> QED BY <2>1 DEF Init, Outbox!Init
<1>2. Typed /\ SendInv /\ [Next]_vars => [Outbox!Next]_<<recorded, accepted>>
  BY NextRefines
<1> QED BY <1>1, <1>2, AlwaysSend, PTL DEF Spec, SendsOnce, Outbox!Spec, recorded
-----------------------------------------------------------------------------
(* Disconnected routes *)

\* A step of one dispatcher gives it a new local.
Acts(w) ==
    \/ StartDispatch(w) \/ SweepStale(w) \/ ReadDue(w) \/ StartBatch(w) \/ EndBatches(w)
    \/ ExpireStale(w) \/ ClaimJob(w) \/ DenyClaim(w) \/ RefuseClaim(w) \/ Send(w)
    \/ RecordSuccess(w) \/ RecordFailure(w) \/ EndDispatch(w) \/ Throw(w) \/ Crash(w)

\* It is not under way to the route r.
Away(w, r) == r \notin d[w].todo \cup {d[w].route}

\* Only the local of the one that acts changes.
LEMMA OneActs ==
    ASSUME Typed, NEW w \in Dispatchers, Acts(w), NEW v \in Dispatchers \ {w}
    PROVE  d'[v] = d[v]
<1>1. ASSUME NEW local, Becomes(w, local) PROVE d'[v] = d[v]
  BY <1>1 DEF Becomes, Typed, DispatchersTyped
<1>2. ASSUME NextRoute(w) \/ Rejects(w) \/ \E run, routes : LoadRoutes(w, run, routes)
      PROVE  d'[v] = d[v]
  BY <1>1, <1>2 DEF NextRoute, Rejects, LoadRoutes
<1>3. CASE StartDispatch(w) \/ StartBatch(w) \/ DenyClaim(w) \/ RefuseClaim(w) \/ EndDispatch(w)
           \/ RecordFailure(w)
  BY <1>2, <1>3 DEF StartDispatch, StartBatch, DenyClaim, RefuseClaim, EndDispatch, RecordFailure
<1>4. CASE SweepStale(w) \/ ReadDue(w) \/ EndBatches(w) \/ Crash(w)
  BY <1>1, <1>4 DEF SweepStale, ReadDue, EndBatches, Crash
<1>5. CASE ExpireStale(w)
  BY <1>1, <1>2, <1>5, StaleVisit
<1>6. CASE ClaimJob(w)
  BY <1>1, <1>2, <1>6 DEF ClaimJob
<1>7. CASE Send(w)
  BY <1>1, <1>7 DEF Send
<1>8. CASE RecordSuccess(w)
  BY <1>1, <1>2, <1>8 DEF RecordSuccess
<1>9. CASE Throw(w)
  BY <1>1, <1>2, <1>9 DEF Throw
<1> QED BY <1>3, <1>4, <1>5, <1>6, <1>7, <1>8, <1>9 DEF Acts

\* A dispatcher does not set out for a route that is disconnected.
LEMMA StaysAway ==
    ASSUME Typed, NEW w \in Dispatchers, Acts(w),
           NEW r \in Routes, account[r] = "revoked", Away(w, r)
    PROVE  Away(w, r)'
<1>1. d[w] \in Locals /\ r # None
  BY LocalGood, NoneIsNothing DEF GoodLocal
<1>2. ASSUME NEW local, Becomes(w, local), r \notin local.todo, r # local.route
      PROVE  Away(w, r)'
  BY <1>2 DEF Becomes, Typed, DispatchersTyped, Away
<1>3. ASSUME Rejects(w) PROVE Away(w, r)'
  <2>1. DispatchOver(w).todo = {} /\ DispatchOver(w).route = None
    BY DEF DispatchOver, Idle
  <2> QED BY <1>1, <1>2, <1>3, <2>1 DEF Rejects
<1>4. ASSUME NextRoute(w) PROVE Away(w, r)'
  <2> DEFINE local == [d[w] EXCEPT !.pc = "expire", !.route = None, !.tries = 0, !.kind = "none"]
  <2>1. local.todo = d[w].todo /\ local.route = None
    BY <1>1 DEF Locals
  <2>2. Becomes(w, local)
    BY <1>4 DEF NextRoute
  <2> HIDE DEF local
  <2> QED BY <1>1, <1>2, <2>1, <2>2 DEF Away
<1>5. ASSUME NEW run, NEW routes, LoadRoutes(w, run, routes) PROVE Away(w, r)'
  <2> DEFINE todo == {q \in routes : Routable(q) /\ <<run, q>> \in Keys}
             local == [d[w] EXCEPT !.pc = "expire", !.batches = @ \ {run}, !.run = run,
                                   !.todo = todo]
  <2>1. r \notin todo
    BY DEF Routable
  <2>2. Becomes(w, local)
    BY <1>5 DEF LoadRoutes
  <2> HIDE DEF todo
  <2>3. local.todo = todo /\ local.route = d[w].route
    BY <1>1 DEF Locals
  <2> HIDE DEF local
  <2> QED BY <1>2, <2>1, <2>2, <2>3 DEF Away
<1>6. ASSUME ExpireStale(w), ~Rejects(w) PROVE Away(w, r)'
  <2>1. PICK q \in d[w].todo :
           Becomes(w, [d[w] EXCEPT !.pc = "claim", !.todo = @ \ {q}, !.route = q])
    BY <1>6, StaleVisit
  <2> DEFINE local == [d[w] EXCEPT !.pc = "claim", !.todo = @ \ {q}, !.route = q]
  <2>2. local.todo = d[w].todo \ {q} /\ local.route = q
    BY <1>1 DEF Locals
  <2>3. Becomes(w, local)
    BY <2>1
  <2> HIDE DEF local
  <2> QED BY <1>2, <2>1, <2>2, <2>3 DEF Away
<1>7. ASSUME NEW label, NEW kind, Becomes(w, [d[w] EXCEPT !.pc = label, !.kind = kind])
      PROVE  Away(w, r)'
  <2> DEFINE local == [d[w] EXCEPT !.pc = label, !.kind = kind]
  <2>1. local.todo = d[w].todo /\ local.route = d[w].route
    BY <1>1 DEF Locals
  <2>2. Becomes(w, local)
    BY <1>7
  <2> HIDE DEF local
  <2> QED BY <1>2, <2>1, <2>2 DEF Away
<1>8. ASSUME NEW label, NEW tries, Becomes(w, [d[w] EXCEPT !.pc = label, !.tries = tries])
      PROVE  Away(w, r)'
  <2> DEFINE local == [d[w] EXCEPT !.pc = label, !.tries = tries]
  <2>1. local.todo = d[w].todo /\ local.route = d[w].route
    BY <1>1 DEF Locals
  <2>2. Becomes(w, local)
    BY <1>8
  <2> HIDE DEF local
  <2> QED BY <1>2, <2>1, <2>2 DEF Away
<1>9. ASSUME NEW label, NEW batches, Becomes(w, [Idle EXCEPT !.pc = label, !.batches = batches])
      PROVE  Away(w, r)'
  <2> DEFINE local == [Idle EXCEPT !.pc = label, !.batches = batches]
  <2>1. local.todo = {} /\ local.route = None
    BY DEF Idle
  <2>2. Becomes(w, local)
    BY <1>9
  <2> HIDE DEF local
  <2> QED BY <1>1, <1>2, <2>1, <2>2
<1>10. ASSUME Becomes(w, Idle) PROVE Away(w, r)'
  <2>1. Idle.todo = {} /\ Idle.route = None
    BY DEF Idle
  <2> QED BY <1>1, <1>2, <1>10, <2>1
<1>11. CASE StartDispatch(w) \/ StartBatch(w)
  BY <1>5, <1>11 DEF StartDispatch, StartBatch
<1>12. CASE DenyClaim(w) \/ RefuseClaim(w) \/ EndDispatch(w) \/ RecordFailure(w)
  BY <1>3, <1>4, <1>12 DEF DenyClaim, RefuseClaim, EndDispatch, RecordFailure
<1>13. CASE SweepStale(w)
  <2> DEFINE local == [Idle EXCEPT !.pc = "due"]
  <2>1. local.todo = {} /\ local.route = None
    BY DEF Idle
  <2>2. Becomes(w, local)
    BY <1>13 DEF SweepStale
  <2> HIDE DEF local
  <2> QED BY <1>1, <1>2, <2>1, <2>2
<1>14. CASE ReadDue(w)
  BY <1>9, <1>14 DEF ReadDue
<1>15. CASE EndBatches(w) \/ Crash(w)
  BY <1>10, <1>15 DEF EndBatches, Crash
<1>16. CASE ClaimJob(w)
  BY <1>3, <1>8, <1>16 DEF ClaimJob
<1>17. CASE Send(w)
  <2>1. CASE Becomes(w, [d[w] EXCEPT !.pc = "succeeded"])
    <3> DEFINE local == [d[w] EXCEPT !.pc = "succeeded"]
    <3>1. local.todo = d[w].todo /\ local.route = d[w].route
      BY <1>1 DEF Locals
    <3>2. Becomes(w, local)
      BY <2>1
    <3> HIDE DEF local
    <3> QED BY <1>2, <3>1, <3>2 DEF Away
  <2> QED BY <1>7, <1>17, <2>1 DEF Send
<1>18. CASE RecordSuccess(w)
  BY <1>4, <1>7, <1>18 DEF RecordSuccess
<1>19. CASE Throw(w)
  <2>1. ASSUME NEW run, Becomes(w, [d[w] EXCEPT !.batches = @ \ {run}]) PROVE Away(w, r)'
    <3> DEFINE local == [d[w] EXCEPT !.batches = @ \ {run}]
    <3>1. local.todo = d[w].todo /\ local.route = d[w].route
      BY <1>1 DEF Locals
    <3>2. Becomes(w, local)
      BY <2>1
    <3> HIDE DEF local
    <3> QED BY <1>2, <3>1, <3>2 DEF Away
  <2> QED BY <1>3, <1>10, <1>19, <2>1 DEF Throw
<1> QED
  BY <1>3, <1>6, <1>11, <1>12, <1>13, <1>14, <1>15, <1>16, <1>17, <1>18, <1>19 DEF Acts

\* Once the dispatches under way at its disconnection are through, a route is never sent
\* to again.
THEOREM DisconnectLasts == Spec => DisconnectIsLasting
<1> DEFINE Quiet(r) == \A k \in Keys : k[2] = r => accepted'[k] = accepted[k]
<1>1. ASSUME Typed, [Next]_vars, NEW r \in Routes, account[r] = "revoked", ~Busy(r)
      PROVE  ~Busy(r)' /\ Quiet(r)
  <2>1. \A w \in Dispatchers : Away(w, r)
    BY <1>1 DEF Busy, Away
  <2>2. ASSUME NEW w \in Dispatchers, Acts(w) PROVE ~Busy(r)' /\ Quiet(r)
    <3>1. \A v \in Dispatchers : Away(v, r)'
      <4>1. Away(w, r)'
        BY <1>1, <2>1, <2>2, StaysAway
      <4>2. ASSUME NEW v \in Dispatchers \ {w} PROVE Away(v, r)'
        BY <1>1, <2>1, <2>2, OneActs DEF Away
      <4> QED BY <4>1, <4>2
    <3>2. CASE Send(w)
      <4>1. Key(w) \in Keys /\ Key(w)[2] # r
        BY <1>1, <2>1, <3>2, KeyIsKey DEF Send, At, OnRoute, Dispatching, Away, Key
      <4>2. \A k \in Keys \ {Key(w)} : accepted'[k] = accepted[k]
        BY <1>1, <3>2, <4>1 DEF Send, Typed, TypeOK
      <4> QED BY <3>1, <4>1, <4>2 DEF Busy, Away
    <3>3. CASE ~Send(w)
      <4>1. UNCHANGED accepted
        BY <2>2, <3>3
        DEF Acts, StartDispatch, SweepStale, ReadDue, StartBatch, EndBatches, ExpireStale,
            ClaimJob, DenyClaim, RefuseClaim, RecordSuccess, RecordFailure, EndDispatch, Throw,
            Crash
      <4> QED BY <3>1, <4>1 DEF Busy, Away
    <3> QED BY <3>2, <3>3
  <2>3. CASE UNCHANGED <<accepted, d>>
    BY <2>1, <2>3 DEF Busy, Away
  <2>4. CASE \E w \in Dispatchers : StartDispatch(w) \/ SweepStale(w) \/ Step(w) \/ Throw(w)
                                    \/ Crash(w)
    BY <2>2, <2>4 DEF Step, Acts
  <2>5. CASE \/ (\E o \in Owners : DeleteAccount(o)) \/ Membership \/ Time
             \/ (\E r2 \in Routes : Bind(r2) \/ Disconnect(r2)) \/ UNCHANGED vars
    BY <2>3, <2>5
    DEF DeleteAccount, Membership, LeaveWorkspace, ReturnToWorkspace, Time, TwoMinutesPass,
        BackoffElapses, Bind, Disconnect, vars
  <2> QED BY <1>1, <2>4, <2>5 DEF Next, Membership
<1>2. Typed /\ [Next]_vars =>
         \A r \in Routes :
            account[r] = "revoked" /\ ~Busy(r) =>
               /\ ~Busy(r)'
               /\ \A k \in Keys : k[2] = r => accepted'[k] = accepted[k]
  BY <1>1
<1> QED BY <1>2, AlwaysTyped, PTL DEF Spec, DisconnectIsLasting
=============================================================================
