--------------------------- MODULE DigestFeedback ---------------------------
(***************************************************************************)
(* What one client profile is offered, and what becomes of its answers:    *)
(* the transaction of runDigestForClientProfile, the rows of               *)
(* client_digest_org_state that it reads and writes, and the writers it    *)
(* races with: the buttons of a message (the webhooks), the feedback API,  *)
(* the buttons of the lead card, and the record of an onboarding digest.   *)
(*                                                                         *)
(* A digest is one invocation, and names its run and its candidates: a     *)
(* candidate is a digest and a company.  Its rows become visible with the  *)
(* commit, and whoever writes a row that it has written waits for that;    *)
(* so its writes are one step, apart from its reading.  NOW() is the start *)
(* of a transaction; the clock counts days.  A webhook's transaction (the  *)
(* claim of the event, the answer, the end of the event) is one step, and  *)
(* one that is rolled back is none.                                        *)
(*                                                                         *)
(* The names are kept apart from those of DailyRadar, whose handlers make  *)
(* the digests, so that one module may extend both.                        *)
(***************************************************************************)
EXTENDS Integers, FiniteSetsExt

CONSTANTS
    Orgs,          \* the companies with evidence
    Digests,       \* invocations of runDigestForClientProfile
    Answers,       \* what the customer can answer: 'accepted' is stored as contacted
    CooldownDays,  \* the cooldowns that invocations ask for
    SnoozeDays,    \* DEFAULT_SNOOZE_DAYS
    MaxSnoozeDays, \* MAX_SNOOZE_DAYS
    BadfitDays,    \* DEFAULT_BADFIT_SUPPRESSION_DAYS
    MaxDay,        \* bound of the clock
    Forever,       \* 'infinity'
    NoDigest       \* the digest of a row that none has written

Held == {"snooze", "badfit", "dismissed"}
Taken == {"contacted", "replied", "meeting", "won"}

ASSUME NoDigestIsNobodys == NoDigest \notin Digests
ASSUME AnswersAreKnown == Answers \subseteq Held \cup Taken
ASSUME DaysAreDays ==
    /\ CooldownDays \subseteq Nat \ {0} /\ {SnoozeDays, MaxSnoozeDays, BadfitDays} \subseteq Nat \ {0}
    /\ MaxDay \in Nat \ {0} /\ Forever \in Nat
    /\ \A n \in CooldownDays \cup {SnoozeDays, MaxSnoozeDays, BadfitDays} : Forever > MaxDay + n

VARIABLES
    now,     \* the day
    row,     \* client_digest_org_state of each company; an absent row is Fresh
    dg,      \* each invocation and the message that is sent for it
    settled  \* the buttons whose event is 'processed'

digestVars == <<now, row, dg, settled>>

\* Dates are days; 0 is no date, and the time before the first.
Dates == 0..Forever
Fresh == [digest |-> NoDigest, status |-> "none", cooldown |-> 0, suppressed |-> 0]

\* An invocation: skip is skipStateWrite (the onboarding test digest), at the day its
\* transaction began, items the companies it offers, unrecorded those whose offer the
\* onboarding has still to record, until the cooldown it gave them.
Waiting == [pc |-> "idle", skip |-> FALSE, at |-> 0, items |-> {}, until |-> 0,
            unrecorded |-> {}]

DigestInit ==
    /\ now = 1
    /\ row = [o \in Orgs |-> Fresh]
    /\ dg = [d \in Digests |-> Waiting]
    /\ settled = {}

Is(d, label) == dg[d].pc = label
Committed(d) == dg[d].pc \in {"committed", "sent", "expired"}
Later(a, b) == Max({a, b})

-----------------------------------------------------------------------------
(* runDigestForClientProfile *)

\* The WHERE clause on the state of a company, as of a transaction of this day.
Selectable(o) ==
    /\ row[o].suppressed <= now /\ row[o].cooldown <= now
    /\ row[o].status \notin Taken

\* BEGIN and the selection.  Which companies have evidence that fits the profile, and
\* rank among the first, is anything.
SelectItems(d) ==
    /\ Is(d, "idle")
    /\ \E items \in SUBSET {o \in Orgs : Selectable(o)}, skip \in BOOLEAN :
          dg' = [dg EXCEPT ![d] = [Waiting EXCEPT !.pc = "open", !.at = now,
                                                  !.items = items, !.skip = skip]]
    /\ UNCHANGED <<now, row, settled>>

\* The ON CONFLICT clause of the digest for a company it offers.
CooledAnew(o, until) == until
Cooled(o, until) == Later(row[o].cooldown, until)

\* The candidates, the state of their companies and the COMMIT.
CommitDigest(d) ==
    /\ Is(d, "open")
    /\ \E days \in CooldownDays :
          LET until == IF dg[d].skip THEN 0 ELSE dg[d].at + days IN
          /\ row' = [o \in Orgs |->
                IF o \in dg[d].items /\ ~dg[d].skip
                THEN [row[o] EXCEPT !.digest = d, !.cooldown = Cooled(o, until)]
                ELSE row[o]]
          /\ dg' = [dg EXCEPT ![d] = [@ EXCEPT !.pc = "committed", !.at = 0, !.until = until]]
    /\ UNCHANGED <<now, settled>>

\* A statement is rejected, two digests deadlock, or the process dies.
RollBack(d) ==
    /\ Is(d, "open")
    /\ dg' = [dg EXCEPT ![d] = [Waiting EXCEPT !.pc = "failed"]]
    /\ UNCHANGED <<now, row, settled>>

\* The message with the buttons arrives; it may never be sent.
SendMessage(d) ==
    /\ Is(d, "committed")
    /\ dg' = [dg EXCEPT ![d].pc = "sent", ![d].unrecorded = IF dg[d].skip THEN dg[d].items ELSE {}]
    /\ UNCHANGED <<now, row, settled>>

\* Seven days later its buttons have expired.
ExpireButtons(d) ==
    /\ Is(d, "sent")
    /\ dg' = [dg EXCEPT ![d].pc = "expired"]
    /\ UNCHANGED <<now, row, settled>>

\* recordClientProfileDigestShownOutcomes, one company after the other; an error is
\* swallowed and leaves the rest unrecorded.
RecordShown(d, o) ==
    /\ o \in dg[d].unrecorded
    /\ row' = [row EXCEPT ![o].digest = d]
    /\ dg' = [dg EXCEPT ![d].unrecorded = @ \ {o}]
    /\ UNCHANGED <<now, settled>>

-----------------------------------------------------------------------------
(* The answers *)

Rank(status) ==
    CASE status = "contacted" -> 1 [] status = "replied" -> 2
      [] status = "meeting" -> 3 [] status = "won" -> 4 [] OTHER -> 0

\* The WHERE clause of the ON CONFLICT: neither of an older candidate nor a downgrade.
IsCurrent(o, d) == d = NoDigest \/ row[o].digest \in {NoDigest, d}
MayBecome(o, answer) == Rank(answer) >= Rank(row[o].status)

\* suppressedUpdateSql
SuppressedAnew(o, answer, days) ==
    IF answer \in Taken THEN Forever ELSE now + days
Suppressed(o, answer, days) ==
    IF answer \in Taken THEN Forever ELSE Later(row[o].suppressed, now + days)

\* updateDigestOrgStateFeedbackCore, for a candidate or (NoDigest) for the company.  A
\* stale answer is no error.
Feedback(o, d, answer, days) ==
    row' = IF IsCurrent(o, d) /\ MayBecome(o, answer)
           THEN [row EXCEPT ![o] = [digest |-> IF d = NoDigest THEN @.digest ELSE d,
                                    status |-> answer, cooldown |-> 0,
                                    suppressed |-> Suppressed(o, answer, days)]]
           ELSE row

DefaultDays(answer) == IF answer = "snooze" THEN SnoozeDays ELSE BadfitDays

\* A callback of a button, pressed again or delivered again as often as may be.
PressButton(d, o, answer) ==
    /\ Is(d, "sent") /\ o \in dg[d].items
    /\ <<d, o, answer>> \notin settled
    /\ Feedback(o, d, answer, DefaultDays(answer))
    /\ settled' = settled \cup {<<d, o, answer>>}
    /\ UNCHANGED <<now, dg>>

\* POST /api/digest/feedback: for a company or for a candidate of it, and with a length
\* for a snooze; it is not deduplicated.
CallApi(o, d, answer) ==
    /\ d # NoDigest => Committed(d) /\ o \in dg[d].items
    /\ \E days \in IF answer = "snooze" THEN 1..MaxSnoozeDays ELSE {BadfitDays} :
          Feedback(o, d, answer, days)
    /\ UNCHANGED <<now, dg, settled>>

\* updateLeadFeedback writes the status, and no date.
AnswerOnCard(o, answer) ==
    /\ row' = [row EXCEPT ![o].status = answer]
    /\ UNCHANGED <<now, dg, settled>>

DayPasses ==
    /\ now < MaxDay
    /\ now' = now + 1
    /\ UNCHANGED <<row, dg, settled>>

-----------------------------------------------------------------------------

DigestNext ==
    \/ \E d \in Digests :
          \/ SelectItems(d) \/ CommitDigest(d) \/ RollBack(d)
          \/ SendMessage(d) \/ ExpireButtons(d)
          \/ \E o \in Orgs : RecordShown(d, o)
          \/ \E o \in Orgs, answer \in Answers : PressButton(d, o, answer)
    \/ \E o \in Orgs, answer \in Answers :
          (\E d \in Digests \cup {NoDigest} : CallApi(o, d, answer)) \/ AnswerOnCard(o, answer)
    \/ DayPasses

DigestSpec == DigestInit /\ [][DigestNext]_digestVars

-----------------------------------------------------------------------------
(* Properties *)

\* Every variable keeps its type.
DigestTypeOK ==
    /\ now \in 1..MaxDay
    /\ row \in [Orgs -> [digest : Digests \cup {NoDigest},
                         status : {"none"} \cup Held \cup Taken,
                         cooldown : Dates, suppressed : Dates]]
    /\ \A d \in Digests :
          /\ dg[d].pc \in {"idle", "open", "committed", "sent", "expired", "failed"}
          /\ dg[d].skip \in BOOLEAN /\ dg[d].at \in 0..MaxDay /\ dg[d].until \in Dates
          /\ dg[d].items \subseteq Orgs /\ dg[d].unrecorded \subseteq dg[d].items
    /\ settled \subseteq Digests \X Orgs \X Answers

\* An answer keeps its effect: whatever is pressed, called or answered on the card
\* afterwards, and whichever digest commits late, a company is not selected again
\* before the latest date that any answer of a button or of the API has set
\* (buildDigestFeedbackActionPlan, the selection of runDigestForClientProfile).
AnswersKeepTheirEffect ==
    [][\A o \in Orgs :
          /\ row'[o].suppressed >= row[o].suppressed
          /\ row[o].suppressed > now =>
                \A d \in Digests : Is(d, "idle") => o \notin dg'[d].items]_digestVars

\* A company that was never answered rests for as long as the longest of the digests
\* it was in says, whatever order they began and committed in, and not a day longer,
\* even if none of them was ever sent (the state written by runDigestForClientProfile).
CooldownIsTheLongest ==
    \A o \in Orgs : row[o].status = "none" =>
        (Selectable(o) <=>
            \A d \in Digests :
                Committed(d) /\ o \in dg[d].items => dg[d].until <= now)

-----------------------------------------------------------------------------
(* What the documentation says of it *)

\* docs/specs/2026-06-27-delivery-paths-web-push-email.md: never for a company "в
\* cooldown/contacted/suppressed (уже в SQL)".  A digest offers it all the same if
\* another one, or an answer, is committed between its selection and its commit.
OnlySelectableIsOffered ==
    [][\A d \in Digests : Is(d, "open") /\ Committed(d)' =>
          \A o \in dg[d].items : Selectable(o)]_digestVars

\* docs/product.md: the answers are used "для suppression/reweighting будущих
\* дайджестов".  One that is given on the lead card holds nothing back.
RejectedIsHeldBack ==
    [][\A o \in Orgs : row'[o].status # row[o].status /\ row'[o].status \in Held =>
          ~Selectable(o)']_digestVars

\* SPEC.md: a callback is "отражён в будущих suppression/reweighting решениях".  The
\* answer to the only message there is gets lost if a digest was made since that was
\* never sent, or if the message is of an onboarding that has not recorded it yet.
PressedIsKept ==
    [][\A d \in Digests, o \in Orgs, answer \in Answers :
          /\ <<d, o, answer>> \in settled' \ settled
          /\ \A e \in Digests \ {d} : dg[e].pc \notin {"sent", "expired"}
          => Rank(row'[o].status) > 0 \/ row'[o].status = answer]_digestVars
=============================================================================
