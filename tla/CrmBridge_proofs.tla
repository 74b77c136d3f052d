--------------------------- MODULE CrmBridge_proofs ---------------------------
(***************************************************************************)
(* Proofs about CrmBridge, for every set of attempts, events and bodies    *)
(* and any number of credentials, and about OutcomeLedger, whose events    *)
(* the bridge brings, for any versions, bounds and times.                  *)
(***************************************************************************)
EXTENDS CrmBridge, OutcomeLedger, FiniteSetTheorems, SequenceTheorems, WellFoundedInduction, TLAPS

-----------------------------------------------------------------------------
(* Typing *)

\* An attempt that has a claim has a body, one that has been answered has an answer, and
\* one that has loaded the delivery has the credential that was active.
InFlight == {"send", "answered", "own"}
LocalOK(x) ==
    /\ att[x].pc \in InFlight => att[x].body \in Attempts
    /\ att[x].pc \in {"answered", "own"} => att[x].answer \in Results
    /\ att[x].pc = "claim" => att[x].cred \in Credentials
Typed == TypeOK /\ \A x \in Attempts : LocalOK(x)

LEMMA InitTyped == Init => Typed
BY NoneIsNoAttempt, CredentialsAreCounted
DEF Init, Typed, TypeOK, LocalOK, InFlight, Labels, Results, Told, Codes, Credentials, Unsettled,
    NoClaim, Unrecorded, Locals

\* What the actions of an attempt change when it moves, or ends.
LEMMA GotoMoves ==
    ASSUME Typed, NEW x \in Attempts, NEW label \in Labels, Goto(x, label)
    PROVE  /\ att' \in [Attempts -> Locals]
           /\ att'[x].pc = label /\ att'[x].body = att[x].body /\ att'[x].cred = att[x].cred
           /\ att'[x].answer = att[x].answer /\ att'[x].told = att[x].told
           /\ \A y \in Attempts \ {x} : att'[y] = att[y]
<1> DEFINE local == [att[x] EXCEPT !.pc = label]
<1>1. att \in [Attempts -> Locals]
  BY DEF Typed, TypeOK
<1>2. /\ local \in Locals /\ local.pc = label /\ local.body = att[x].body /\ local.cred = att[x].cred
      /\ local.answer = att[x].answer /\ local.told = att[x].told
  BY <1>1 DEF Locals
<1>3. att' = [att EXCEPT ![x] = local]
  BY <1>1 DEF Goto
<1> HIDE DEF local
<1> QED BY <1>1, <1>2, <1>3

LEMMA EndMoves ==
    ASSUME Typed, NEW x \in Attempts, NEW told \in Told, Ends(x, told)
    PROVE  /\ att' \in [Attempts -> Locals]
           /\ att'[x].pc = "done" /\ att'[x].told = told
           /\ \A y \in Attempts \ {x} : att'[y] = att[y]
<1> DEFINE local == [att[x] EXCEPT !.pc = "done", !.told = told]
<1>1. att \in [Attempts -> Locals]
  BY DEF Typed, TypeOK
<1>2. local \in Locals /\ local.pc = "done" /\ local.told = told
  BY <1>1 DEF Locals, Labels
<1>3. att' = [att EXCEPT ![x] = local]
  BY <1>1 DEF Ends
<1> HIDE DEF local
<1> QED BY <1>1, <1>2, <1>3

LEMMA LocalMoves ==
    ASSUME Typed, NEW x \in Attempts, NEW local \in Locals, att' = [att EXCEPT ![x] = local]
    PROVE  att' \in [Attempts -> Locals] /\ att'[x] = local /\ \A y \in Attempts \ {x} : att'[y] = att[y]
BY DEF Typed, TypeOK

LEMMA ToldOf ==
    ASSUME Typed
    PROVE  /\ Settled => delivery.status \in Told /\ delivery.status \in Results
           /\ Results \subseteq Told
           /\ {"missing", "in_progress", "error"} \subseteq Told
BY DEF Typed, TypeOK, Settled, Told, Results, Unsettled

\* Every step keeps all of it.
LEMMA NextTyped == ASSUME Typed, [Next]_vars PROVE Typed'
<1> USE DEF Typed
<1>1. CASE UNCHANGED vars
  BY <1>1 DEF vars, setup, outbound, inbound, TypeOK, LocalOK
<1>2. ASSUME NEW x \in Attempts, Begin(x) PROVE Typed'
  <2>1. CASE Settled /\ Ends(x, delivery.status)
    BY <1>2, <2>1, EndMoves, ToldOf DEF Begin, TypeOK, LocalOK, setup, inbound, InFlight
  <2>2. CASE ~Settled /\ Goto(x, "load")
    BY <1>2, <2>2, GotoMoves DEF Begin, TypeOK, LocalOK, setup, inbound, InFlight, Labels
  <2> QED BY <1>2, <2>1, <2>2 DEF Begin
<1>3. ASSUME NEW x \in Attempts, Load(x) PROVE Typed'
  <2>1. CASE active # 0 /\ current
    <3>1. active \in Credentials /\ active \in 0..MaxCredentials
      BY <2>1, CredentialsAreCounted DEF TypeOK, Credentials
    <3> DEFINE local == [att[x] EXCEPT !.pc = "claim", !.cred = active]
    <3>2. att[x] \in Locals
      BY DEF TypeOK
    <3>3. local \in Locals /\ local.pc = "claim" /\ local.cred = active
      BY <3>1, <3>2 DEF Locals, Labels
    <3>4. att' = [att EXCEPT ![x] = local]
      BY <1>3, <2>1 DEF Load, TypeOK
    <3> HIDE DEF local
    <3>5. att' \in [Attempts -> Locals] /\ att'[x] = local /\ \A y \in Attempts \ {x} : att'[y] = att[y]
      BY <3>3, <3>4, LocalMoves
    <3>6. \A y \in Attempts : LocalOK(y)'
      BY <3>1, <3>3, <3>5 DEF LocalOK, InFlight
    <3> QED BY <1>3, <3>5, <3>6 DEF Load, TypeOK, setup, inbound
  <2>2. CASE ~(active # 0 /\ current)
    <3>1. Ends(x, "missing")
      BY <1>3, <2>2 DEF Load
    <3> QED BY <1>3, <3>1, EndMoves, ToldOf DEF Load, TypeOK, LocalOK, setup, inbound, InFlight
  <2> QED BY <2>1, <2>2
<1>4. ASSUME NEW x \in Attempts, Claim(x) PROVE Typed'
  <2>1. BodyToSend(x) \in Attempts /\ att[x].cred \in Credentials
    BY <1>4 DEF Claim, At, LocalOK, TypeOK, BodyToSend
  <2>2. CASE /\ claim' = [token |-> x, body |-> BodyToSend(x), cred |-> att[x].cred]
             /\ att' = [att EXCEPT ![x].pc = "send", ![x].body = BodyToSend(x)]
    <3> HIDE DEF Typed
    <3>1. claim' \in [token : Attempts, body : Attempts, cred : Credentials]
      BY <2>1, <2>2
    <3> DEFINE local == [att[x] EXCEPT !.pc = "send", !.body = BodyToSend(x)]
    <3>2. att[x] \in Locals
      BY DEF Typed, TypeOK
    <3>3. local \in Locals /\ local.pc = "send" /\ local.body = BodyToSend(x)
      BY <2>1, <3>2 DEF Locals, Labels
    <3>4. att' = [att EXCEPT ![x] = local]
      BY <2>2 DEF Typed, TypeOK
    <3> HIDE DEF local
    <3>5. att' \in [Attempts -> Locals] /\ att'[x] = local /\ \A y \in Attempts \ {x} : att'[y] = att[y]
      BY <3>3, <3>4, LocalMoves
    <3>6. \A y \in Attempts : LocalOK(y)'
      BY <2>1, <3>3, <3>5 DEF Typed, LocalOK, InFlight
    <3> QED BY <1>4, <3>1, <3>5, <3>6 DEF Claim, Typed, TypeOK, setup, inbound
  <2>3. CASE Ends(x, "in_progress") /\ UNCHANGED claim
    BY <1>4, <2>3, EndMoves, ToldOf DEF Claim, TypeOK, LocalOK, setup, inbound, InFlight
  <2> QED BY <1>4, <2>2, <2>3 DEF Claim
<1>5. ASSUME NEW x \in Attempts, Send(x) PROVE Typed'
  <2>1. att[x].body \in Attempts
    BY <1>5 DEF Send, At, LocalOK, InFlight
  <2>2. PICK accepted \in BOOLEAN :
           /\ crm' = IF accepted THEN crm \cup {att[x].body} ELSE crm
           /\ \E answer \in Answers(accepted) :
                 att' = [att EXCEPT ![x].pc = "answered", ![x].answer = answer]
    BY <1>5 DEF Send
  <2>3. PICK answer \in Results : att' = [att EXCEPT ![x].pc = "answered", ![x].answer = answer]
    BY <2>2 DEF Answers, Results
  <2> HIDE DEF Typed
  <2>4. crm' \subseteq Attempts
    BY <2>1, <2>2 DEF Typed, TypeOK
  <2> DEFINE local == [att[x] EXCEPT !.pc = "answered", !.answer = answer]
  <2>5. att[x] \in Locals
    BY DEF Typed, TypeOK
  <2>6. local \in Locals /\ local.pc = "answered" /\ local.body = att[x].body /\ local.answer = answer
    BY <2>3, <2>5 DEF Locals, Labels
  <2>7. att' = [att EXCEPT ![x] = local]
    BY <2>3 DEF Typed, TypeOK
  <2> HIDE DEF local
  <2>8. att' \in [Attempts -> Locals] /\ att'[x] = local /\ \A y \in Attempts \ {x} : att'[y] = att[y]
    BY <2>6, <2>7, LocalMoves
  <2>9. \A y \in Attempts : LocalOK(y)'
    BY <2>1, <2>6, <2>8 DEF Typed, LocalOK, InFlight
  <2> QED BY <1>5, <2>4, <2>8, <2>9 DEF Send, Typed, TypeOK, setup, inbound
<1>6. ASSUME NEW x \in Attempts, Own(x) PROVE Typed'
  <2>1. CASE Goto(x, "own")
    BY <1>6, <2>1, GotoMoves DEF Own, At, TypeOK, LocalOK, setup, inbound, InFlight, Labels
  <2>2. CASE Ends(x, IF Settled THEN delivery.status ELSE "in_progress")
    BY <1>6, <2>2, EndMoves, ToldOf DEF Own, TypeOK, LocalOK, setup, inbound, InFlight
  <2> QED BY <1>6, <2>1, <2>2 DEF Own
<1>7. ASSUME NEW x \in Attempts, Finalize(x) PROVE Typed'
  <2>1. att[x].body \in Attempts /\ att[x].answer \in Results
    BY <1>7 DEF Finalize, At, LocalOK, InFlight
  <2>2. delivery' \in [status : Results, body : Attempts] \cup {Unsettled}
    BY <1>7, <2>1 DEF Finalize, TypeOK, BodyOf
  <2>3. ResultOf(x) \in Told
    BY <2>1, ToldOf DEF ResultOf
  <2> QED BY <1>7, <2>2, <2>3, EndMoves DEF Finalize, TypeOK, LocalOK, setup, inbound, InFlight
<1>8. ASSUME NEW x \in Attempts, Ends(x, "error"), UNCHANGED <<setup, claim, delivery, crm, inbound>>
      PROVE  Typed'
  BY <1>8, EndMoves, ToldOf DEF TypeOK, LocalOK, setup, inbound, InFlight
<1>9. CASE Rotate
  BY <1>9, CredentialsAreCounted DEF Rotate, TypeOK, LocalOK, outbound, inbound, Credentials
<1>10. CASE RevokeCredential
  BY <1>10, CredentialsAreCounted DEF RevokeCredential, TypeOK, LocalOK, outbound, inbound
<1>11. CASE Supersede
  BY <1>11 DEF Supersede, TypeOK, LocalOK, outbound, inbound
<1>12. ASSUME NEW c \in Credentials, NEW e \in Events, NEW b \in Bodies, Callback(c, e, b) PROVE Typed'
  <2>1. PICK code \in Codes \ {"none"} :
           /\ receipt' = [receipt EXCEPT ![c][e] = code]
           /\ ledger' = IF code = "accepted" /\ ledger[e] = Unrecorded
                        THEN [ledger EXCEPT ![e] = [body |-> b, cred |-> c]] ELSE ledger
    BY <1>12 DEF Callback
  <2>2. receipt' \in [Credentials -> [Events -> Codes]]
    BY <2>1 DEF TypeOK
  <2>3. ledger' \in [Events -> [body : Bodies, cred : Credentials] \cup {Unrecorded}]
    BY <2>1 DEF TypeOK
  <2> QED BY <1>12, <2>2, <2>3 DEF Callback, TypeOK, LocalOK, setup, outbound
<1> QED
  BY <1>1, <1>2, <1>3, <1>4, <1>5, <1>6, <1>7, <1>8, <1>9, <1>10, <1>11, <1>12
  DEF Next, Deliver, Deadlock, Crash

LEMMA AlwaysTyped == Spec => []Typed
<1>1. Init => Typed
  BY InitTyped
<1>2. Typed /\ [Next]_vars => Typed'
  BY NextTyped
<1> QED BY <1>1, <1>2, PTL DEF Spec

\* Type correctness, for any number of attempts and credentials.
THEOREM TypeCorrect == Spec => []TypeOK
<1>1. Typed => TypeOK
  BY DEF Typed
<1> QED BY <1>1, AlwaysTyped, PTL

-----------------------------------------------------------------------------
(* What is recorded, and what is told *)

\* An attempt that was answered with success has sent a body that the CRM accepted.
Answered ==
    /\ \A x \in Attempts :
          att[x].pc \in {"answered", "own"} /\ att[x].answer = "succeeded" => att[x].body \in crm
    /\ SucceededIsReceived

LEMMA AnsweredStays ==
    ASSUME Typed, Answered, crm \subseteq crm',
           \A x \in Attempts : att'[x] = att[x] \/ att'[x].pc \notin {"answered", "own"},
           delivery' = delivery
    PROVE  Answered'
BY DEF Answered, SucceededIsReceived

LEMMA NextAnswered == ASSUME Typed, Answered, [Next]_vars PROVE Answered'
<1>1. CASE UNCHANGED vars
  BY <1>1, AnsweredStays DEF vars, outbound
<1>2. ASSUME NEW x \in Attempts, Begin(x) PROVE Answered'
  BY <1>2, AnsweredStays, EndMoves, GotoMoves, ToldOf DEF Begin, Labels
<1>3. ASSUME NEW x \in Attempts, Load(x) PROVE Answered'
  <2>1. \/ Ends(x, "missing")
        \/ att' = [att EXCEPT ![x].pc = "claim", ![x].cred = active]
    BY <1>3 DEF Load
  <2>2. \A y \in Attempts : att'[y] = att[y] \/ att'[y].pc \notin {"answered", "own"}
    BY <2>1, EndMoves, ToldOf DEF Typed, TypeOK, Locals
  <2> QED BY <1>3, <2>2, AnsweredStays DEF Load
<1>4. ASSUME NEW x \in Attempts, Claim(x) PROVE Answered'
  <2>1. \/ Ends(x, "in_progress")
        \/ att' = [att EXCEPT ![x].pc = "send", ![x].body = BodyToSend(x)]
    BY <1>4 DEF Claim
  <2>2. \A y \in Attempts : att'[y] = att[y] \/ att'[y].pc \notin {"answered", "own"}
    BY <2>1, EndMoves, ToldOf DEF Typed, TypeOK, Locals
  <2> QED BY <1>4, <2>2, AnsweredStays DEF Claim
<1>5. ASSUME NEW x \in Attempts, Send(x) PROVE Answered'
  <2>1. PICK accepted \in BOOLEAN :
           /\ crm' = IF accepted THEN crm \cup {att[x].body} ELSE crm
           /\ \E answer \in Answers(accepted) :
                 att' = [att EXCEPT ![x].pc = "answered", ![x].answer = answer]
    BY <1>5 DEF Send
  <2>2. PICK answer \in Answers(accepted) : att' = [att EXCEPT ![x].pc = "answered", ![x].answer = answer]
    BY <2>1
  <2>3. /\ att'[x].body = att[x].body /\ att'[x].answer = answer
        /\ \A y \in Attempts \ {x} : att'[y] = att[y]
    BY <2>2 DEF Typed, TypeOK, Locals
  <2>4. answer = "succeeded" => att[x].body \in crm'
    BY <2>1, <2>2 DEF Answers
  <2>5. crm \subseteq crm' /\ delivery' = delivery
    BY <1>5, <2>1 DEF Send
  <2> QED BY <2>3, <2>4, <2>5 DEF Answered, SucceededIsReceived
<1>6. ASSUME NEW x \in Attempts, Own(x) PROVE Answered'
  <2>1. CASE Goto(x, "own")
    BY <1>6, <2>1, GotoMoves DEF Own, At, Answered, SucceededIsReceived, Labels
  <2>2. CASE Ends(x, IF Settled THEN delivery.status ELSE "in_progress")
    BY <1>6, <2>2, AnsweredStays, EndMoves, ToldOf DEF Own
  <2> QED BY <1>6, <2>1, <2>2 DEF Own
<1>7. ASSUME NEW x \in Attempts, Finalize(x) PROVE Answered'
  <2>1. att[x].answer \in Results
    BY <1>7 DEF Finalize, At, Typed, LocalOK
  <2>2. \A y \in Attempts : att'[y] = att[y] \/ att'[y].pc \notin {"answered", "own"}
    BY <1>7, <2>1, EndMoves, ToldOf DEF Finalize, ResultOf
  <2>3. crm' = crm
    BY <1>7 DEF Finalize
  <2>4. CASE Settled
    BY <1>7, <2>2, <2>3, <2>4, AnsweredStays DEF Finalize
  <2>5. CASE ~Settled
    <3>1. delivery' = [status |-> att[x].answer, body |-> att[x].body]
      BY <1>7, <2>5 DEF Finalize, BodyOf
    <3>2. SucceededIsReceived'
      BY <1>7, <2>3, <3>1 DEF Finalize, At, Answered, SucceededIsReceived
    <3> QED BY <2>2, <2>3, <3>2 DEF Answered
  <2> QED BY <2>4, <2>5
<1>8. ASSUME NEW x \in Attempts, Ends(x, "error"), UNCHANGED <<setup, claim, delivery, crm, inbound>>
      PROVE  Answered'
  BY <1>8, AnsweredStays, EndMoves, ToldOf
<1>9. CASE Rotate \/ RevokeCredential \/ Supersede
  BY <1>9, AnsweredStays DEF Rotate, RevokeCredential, Supersede, outbound
<1>10. ASSUME NEW c \in Credentials, NEW e \in Events, NEW b \in Bodies, Callback(c, e, b) PROVE Answered'
  BY <1>10, AnsweredStays DEF Callback, outbound
<1> QED
  BY <1>1, <1>2, <1>3, <1>4, <1>5, <1>6, <1>7, <1>8, <1>9, <1>10 DEF Next, Deliver, Deadlock, Crash

\* A delivery recorded as succeeded was accepted by the CRM with the body that is recorded.
THEOREM SucceededWasReceived == Spec => []SucceededIsReceived
<1>1. Init => Answered
  BY DEF Init, Answered, SucceededIsReceived, Unsettled
<1>2. Typed /\ Answered /\ [Next]_vars => Answered'
  BY NextAnswered
<1>3. Answered => SucceededIsReceived
  BY DEF Answered
<1> QED BY <1>1, <1>2, <1>3, AlwaysTyped, PTL DEF Spec

\* A delivery that is recorded is never changed, and who ends is told nothing else.
LEMMA NextTold == ASSUME Typed, ToldIsRecorded, [Next]_vars PROVE ToldIsRecorded'
<1> DEFINE Same(y) == att'[y].told = att[y].told \/ att'[y].told \notin Results
                      \/ (Settled /\ att'[y].told = delivery.status)
<1>1. ASSUME delivery' = delivery, \A y \in Attempts : Same(y) PROVE ToldIsRecorded'
  BY <1>1 DEF ToldIsRecorded
<1>2. CASE UNCHANGED vars
  BY <1>1, <1>2 DEF vars, outbound
<1>3. ASSUME NEW x \in Attempts, Begin(x) PROVE ToldIsRecorded'
  BY <1>1, <1>3, EndMoves, GotoMoves, ToldOf DEF Begin, Labels
<1>4. ASSUME NEW x \in Attempts, Load(x) PROVE ToldIsRecorded'
  <2>1. \/ Ends(x, "missing")
        \/ att' = [att EXCEPT ![x].pc = "claim", ![x].cred = active]
    BY <1>4 DEF Load
  <2>2. \A y \in Attempts : Same(y)
    BY <2>1, EndMoves, ToldOf DEF Typed, TypeOK, Locals, Results
  <2> QED BY <1>1, <1>4, <2>2 DEF Load
<1>5. ASSUME NEW x \in Attempts, Claim(x) PROVE ToldIsRecorded'
  <2>1. \/ Ends(x, "in_progress")
        \/ att' = [att EXCEPT ![x].pc = "send", ![x].body = BodyToSend(x)]
    BY <1>5 DEF Claim
  <2>2. CASE Ends(x, "in_progress")
    <3>1. \A y \in Attempts : Same(y)
      BY <2>2, EndMoves, ToldOf DEF Results
    <3> QED BY <1>1, <1>5, <3>1 DEF Claim
  <2>3. CASE att' = [att EXCEPT ![x].pc = "send", ![x].body = BodyToSend(x)]
    <3>1. \A y \in Attempts : Same(y)
      BY <2>3 DEF Typed, TypeOK, Locals
    <3> QED BY <1>1, <1>5, <3>1 DEF Claim
  <2> QED BY <2>1, <2>2, <2>3
<1>6. ASSUME NEW x \in Attempts, Send(x) PROVE ToldIsRecorded'
  <2>1. PICK answer : att' = [att EXCEPT ![x].pc = "answered", ![x].answer = answer]
    BY <1>6 DEF Send
  <2>2. \A y \in Attempts : Same(y)
    BY <2>1 DEF Typed, TypeOK, Locals
  <2> QED BY <1>1, <1>6, <2>2 DEF Send
<1>7. ASSUME NEW x \in Attempts, Own(x) PROVE ToldIsRecorded'
  <2>1. CASE Goto(x, "own")
    BY <1>1, <1>7, <2>1, GotoMoves DEF Own, Labels
  <2>2. CASE Ends(x, IF Settled THEN delivery.status ELSE "in_progress")
    <3> DEFINE told == IF Settled THEN delivery.status ELSE "in_progress"
    <3>1. told \in Told /\ (told \in Results => Settled /\ told = delivery.status)
      BY ToldOf DEF Results
    <3> HIDE DEF told
    <3>2. \A y \in Attempts : Same(y)
      BY <2>2, <3>1, EndMoves DEF told
    <3> QED BY <1>1, <1>7, <3>2 DEF Own
  <2> QED BY <1>7, <2>1, <2>2 DEF Own
<1>8. ASSUME NEW x \in Attempts, Finalize(x) PROVE ToldIsRecorded'
  <2>1. att[x].answer \in Results
    BY <1>8 DEF Finalize, At, Typed, LocalOK
  <2>2. /\ att'[x].told = ResultOf(x) /\ \A y \in Attempts \ {x} : att'[y] = att[y]
    BY <1>8, <2>1, EndMoves, ToldOf DEF Finalize, ResultOf
  <2>3. CASE Settled
    BY <1>1, <1>8, <2>2, <2>3 DEF Finalize, ResultOf
  <2>4. CASE ~Settled
    <3>1. \A y \in Attempts : att[y].told \notin Results
      BY <2>4 DEF ToldIsRecorded, Settled, Results
    <3>2. delivery'.status = att[x].answer /\ ResultOf(x) = att[x].answer
      BY <1>8, <2>4 DEF Finalize, ResultOf
    <3> QED BY <2>2, <3>1, <3>2 DEF ToldIsRecorded
  <2> QED BY <2>3, <2>4
<1>9. ASSUME NEW x \in Attempts, Ends(x, "error"), UNCHANGED <<setup, claim, delivery, crm, inbound>>
      PROVE  ToldIsRecorded'
  BY <1>1, <1>9, EndMoves, ToldOf DEF Results
<1>10. CASE Rotate \/ RevokeCredential \/ Supersede
  BY <1>1, <1>10 DEF Rotate, RevokeCredential, Supersede, outbound
<1>11. ASSUME NEW c \in Credentials, NEW e \in Events, NEW b \in Bodies, Callback(c, e, b)
       PROVE  ToldIsRecorded'
  BY <1>1, <1>11 DEF Callback, outbound
<1> QED
  BY <1>2, <1>3, <1>4, <1>5, <1>6, <1>7, <1>8, <1>9, <1>10, <1>11 DEF Next, Deliver, Deadlock, Crash

\* Everybody is told the one result that is recorded.
THEOREM ToldWasRecorded == Spec => []ToldIsRecorded
<1>1. Init => ToldIsRecorded
  BY DEF Init, ToldIsRecorded, Results
<1>2. Typed /\ ToldIsRecorded /\ [Next]_vars => ToldIsRecorded'
  BY NextTold
<1> QED BY <1>1, <1>2, AlwaysTyped, PTL DEF Spec
-----------------------------------------------------------------------------
(* One body *)

\* While there is no result, all that is sent, and all that the CRM has, is the body of the
\* claim: a claim is deleted only when there is one.
OneClaim ==
    ~Settled =>
        /\ crm \subseteq {claim.body}
        /\ claim = NoClaim => crm = {}
        /\ \A x \in Attempts : att[x].pc \in InFlight => claim # NoClaim /\ att[x].body = claim.body

LEMMA OneClaimStays ==
    ASSUME Typed, OneClaim, claim' = claim, delivery' = delivery, crm' = crm,
           \A x \in Attempts :
              \/ att'[x].pc \notin InFlight
              \/ att[x].pc \in InFlight /\ att'[x].body = att[x].body
    PROVE  OneClaim'
BY DEF OneClaim, Settled

LEMMA NextOneClaim == ASSUME Typed, OneClaim, [Next]_vars PROVE OneClaim'
<1> DEFINE Same(y) == att'[y] = att[y] \/ att'[y].pc \notin InFlight
                      \/ (att[y].pc \in InFlight /\ att'[y].body = att[y].body)
<1>1. ASSUME claim' = claim, delivery' = delivery, crm' = crm, \A y \in Attempts : Same(y)
      PROVE  OneClaim'
  BY <1>1, OneClaimStays
<1>2. CASE UNCHANGED vars
  BY <1>1, <1>2 DEF vars, outbound
<1>3. ASSUME NEW x \in Attempts, NEW told \in Told, Ends(x, told) PROVE \A y \in Attempts : Same(y)
  BY <1>3, EndMoves DEF InFlight
<1>4. ASSUME NEW x \in Attempts, Begin(x) PROVE OneClaim'
  <2>1. CASE Settled /\ Ends(x, delivery.status)
    BY <1>1, <1>3, <1>4, <2>1, ToldOf DEF Begin
  <2>2. CASE Goto(x, "load")
    BY <1>1, <1>4, <2>2, GotoMoves DEF Begin, Labels, InFlight
  <2> QED BY <1>4, <2>1, <2>2 DEF Begin
<1>5. ASSUME NEW x \in Attempts, Load(x) PROVE OneClaim'
  <2>1. CASE Ends(x, "missing")
    BY <1>1, <1>3, <1>5, <2>1, ToldOf DEF Load
  <2>2. CASE att' = [att EXCEPT ![x].pc = "claim", ![x].cred = active]
    <3>1. \A y \in Attempts : Same(y)
      BY <2>2 DEF Typed, TypeOK, Locals, InFlight
    <3> QED BY <1>1, <1>5, <3>1 DEF Load
  <2> QED BY <1>5, <2>1, <2>2 DEF Load
<1>6. ASSUME NEW x \in Attempts, Claim(x) PROVE OneClaim'
  <2>1. CASE Ends(x, "in_progress") /\ UNCHANGED claim
    BY <1>1, <1>3, <1>6, <2>1, ToldOf DEF Claim
  <2>2. CASE /\ claim' = [token |-> x, body |-> BodyToSend(x), cred |-> att[x].cred]
             /\ att' = [att EXCEPT ![x].pc = "send", ![x].body = BodyToSend(x)]
    <3>1. /\ claim'.body = BodyToSend(x) /\ claim'.token = x
          /\ att'[x].body = BodyToSend(x) /\ \A y \in Attempts \ {x} : att'[y] = att[y]
      BY <2>2 DEF Typed, TypeOK, Locals
    <3>2. claim' # NoClaim
      BY <3>1, NoneIsNoAttempt DEF NoClaim
    <3>3. crm' = crm /\ (Settled <=> Settled')
      BY <1>6 DEF Claim, Settled
    <3>4. CASE claim = NoClaim
      BY <3>1, <3>2, <3>3, <3>4 DEF OneClaim
    <3>5. CASE claim # NoClaim
      BY <3>1, <3>2, <3>3, <3>5 DEF OneClaim, BodyToSend
    <3> QED BY <3>4, <3>5
  <2> QED BY <1>6, <2>1, <2>2 DEF Claim
<1>7. ASSUME NEW x \in Attempts, Send(x) PROVE OneClaim'
  <2>1. PICK answer : att' = [att EXCEPT ![x].pc = "answered", ![x].answer = answer]
    BY <1>7 DEF Send
  <2>2. att[x].pc \in InFlight
    BY <1>7 DEF Send, At, InFlight
  <2>3. att'[x].body = att[x].body /\ \A y \in Attempts \ {x} : att'[y] = att[y]
    BY <2>1 DEF Typed, TypeOK, Locals
  <2>4. crm' \subseteq crm \cup {att[x].body} /\ claim' = claim /\ delivery' = delivery
    BY <1>7 DEF Send
  <2> QED BY <2>2, <2>3, <2>4 DEF OneClaim, Settled
<1>8. ASSUME NEW x \in Attempts, Own(x) PROVE OneClaim'
  <2>1. CASE Goto(x, "own")
    BY <1>1, <1>8, <2>1, GotoMoves DEF Own, At, Labels, InFlight
  <2>2. CASE Ends(x, IF Settled THEN delivery.status ELSE "in_progress")
    <3>1. (IF Settled THEN delivery.status ELSE "in_progress") \in Told
      BY ToldOf
    <3> QED BY <1>1, <1>3, <1>8, <2>2, <3>1 DEF Own
  <2> QED BY <1>8, <2>1, <2>2 DEF Own
<1>9. ASSUME NEW x \in Attempts, Finalize(x) PROVE OneClaim'
  <2>1. att[x].answer \in Results
    BY <1>9 DEF Finalize, At, Typed, LocalOK
  <2>2. Settled'
    BY <1>9, <2>1 DEF Finalize, Settled, Results
  <2> QED BY <2>2 DEF OneClaim
<1>10. ASSUME NEW x \in Attempts, Ends(x, "error"), UNCHANGED <<setup, claim, delivery, crm, inbound>>
       PROVE  OneClaim'
  BY <1>1, <1>3, <1>10, ToldOf
<1>11. CASE Rotate \/ RevokeCredential \/ Supersede
  BY <1>1, <1>11 DEF Rotate, RevokeCredential, Supersede, outbound
<1>12. ASSUME NEW c \in Credentials, NEW e \in Events, NEW b \in Bodies, Callback(c, e, b) PROVE OneClaim'
  BY <1>1, <1>12 DEF Callback, outbound
<1> QED
  BY <1>2, <1>4, <1>5, <1>6, <1>7, <1>8, <1>9, <1>10, <1>11, <1>12 DEF Next, Deliver, Deadlock, Crash

\* Until there is a result the CRM sees one body only.
THEOREM OneBodyAtFirst == Spec => []OneBodyUntilSettled
<1>1. Init => OneClaim
  BY DEF Init, OneClaim, InFlight
<1>2. Typed /\ OneClaim /\ [Next]_vars => OneClaim'
  BY NextOneClaim
<1>3. OneClaim => OneBodyUntilSettled
  <2> SUFFICES ASSUME OneClaim, ~Settled PROVE Cardinality(crm) <= 1
    BY DEF OneBodyUntilSettled
  <2>1. crm \subseteq {claim.body}
    BY DEF OneClaim
  <2>2. IsFiniteSet({claim.body}) /\ Cardinality({claim.body}) = 1
    BY FS_Singleton
  <2> QED BY <2>1, <2>2, FS_Subset
<1> QED BY <1>1, <1>2, <1>3, AlwaysTyped, PTL DEF Spec

-----------------------------------------------------------------------------
(* Callbacks *)

LEMMA NextReceipts == ASSUME Typed, ReceiptsMatchLedger, [Next]_vars PROVE ReceiptsMatchLedger'
<1>1. CASE UNCHANGED inbound
  BY <1>1 DEF inbound, ReceiptsMatchLedger
<1>2. ASSUME NEW c \in Credentials, NEW e \in Events, NEW b \in Bodies, Callback(c, e, b)
      PROVE  ReceiptsMatchLedger'
  <2>1. PICK code \in Codes \ {"none"} :
           /\ code = "accepted" => ledger[e] = Unrecorded \/ SameEvent(e, b, c)
           /\ receipt' = [receipt EXCEPT ![c][e] = code]
           /\ ledger' = IF code = "accepted" /\ ledger[e] = Unrecorded
                        THEN [ledger EXCEPT ![e] = [body |-> b, cred |-> c]] ELSE ledger
    BY <1>2 DEF Callback
  <2>2. receipt[c][e] = "none" /\ ledger[e].cred # c
    BY <1>2 DEF Callback, ReceiptsMatchLedger
  <2>3. code = "accepted" => ledger[e] = Unrecorded
    BY <2>1, <2>2 DEF SameEvent
  <2>4. /\ receipt'[c][e] = code
        /\ \A c2 \in Credentials, e2 \in Events : <<c2, e2>> # <<c, e>> => receipt'[c2][e2] = receipt[c2][e2]
    BY <2>1 DEF Typed, TypeOK
  <2>5. CASE code = "accepted"
    <3>1. \A c2 \in Credentials : ledger[e].cred # c2 /\ receipt[c2][e] # "accepted"
      BY <2>3, <2>5 DEF Unrecorded, Credentials, ReceiptsMatchLedger
    <3>2. ledger'[e].cred = c /\ \A e2 \in Events \ {e} : ledger'[e2] = ledger[e2]
      BY <2>1, <2>3, <2>5 DEF Typed, TypeOK
    <3> QED BY <2>4, <2>5, <3>1, <3>2 DEF ReceiptsMatchLedger
  <2>6. CASE code # "accepted"
    <3>1. ledger' = ledger
      BY <2>1, <2>6
    <3> QED BY <2>2, <2>4, <2>6, <3>1 DEF ReceiptsMatchLedger
  <2> QED BY <2>5, <2>6
<1> QED
  BY <1>1, <1>2
  DEF Next, Deliver, vars, Begin, Load, Claim, Send, Own, Finalize, Crash, Deadlock, Rotate,
      RevokeCredential, Supersede

\* What the CRM is told of an outcome agrees with the ledger, over any number of rotations.
THEOREM ReceiptsAgree == Spec => []ReceiptsMatchLedger
<1>1. Init => ReceiptsMatchLedger
  BY DEF Init, ReceiptsMatchLedger, Unrecorded, Credentials
<1>2. Typed /\ ReceiptsMatchLedger /\ [Next]_vars => ReceiptsMatchLedger'
  BY NextReceipts
<1> QED BY <1>1, <1>2, AlwaysTyped, PTL DEF Spec

-----------------------------------------------------------------------------
(* OutcomeLedger: the rows, and what a step that records nothing leaves of a decision *)

\* The rows: what statuses there are, that an absent row of the episode is one value, and that the
\* events are a sequence, of whatever they are.
RowsAreRows ==
    /\ opp = [v \in Versions |-> [life |-> opp[v].life, status |-> opp[v].status,
                                  until |-> opp[v].until, valid |-> opp[v].valid]]
    /\ \A v \in Versions : opp[v].status \in Statuses
    /\ episode = [status |-> episode.status, until |-> episode.until]
    /\ episode.status \in Decided \cup {"none", "snoozed"}
    /\ episode.status = "none" => episode = NoEpisode
EventsAreSequences ==
    /\ events = [v \in Versions |-> events[v]]
    /\ \A v \in Versions : events[v] \in Seq(Range(events[v]))

\* One opportunity of the pair is current; the row of the episode says what its own says, or is
\* missing, in which case a decision has no deadline.
OneCurrent == \A u, v \in Versions : Current(u) /\ Current(v) => u = v
EpisodeFollows ==
    \A v \in Versions : Current(v) /\ opp[v].status \in Decided \cup {"snoozed"} =>
        \/ episode = [status |-> opp[v].status, until |-> opp[v].until]
        \/ episode = NoEpisode /\ (opp[v].status \in Decided => opp[v].until = 0)

LedgerInv == RowsAreRows /\ EventsAreSequences /\ OneCurrent /\ EpisodeFollows

\* A sequence with one more member is another sequence, over its own members.
LEMMA AppendGrows ==
    ASSUME NEW s, NEW e, s \in Seq(Range(s))
    PROVE  Append(s, e) \in Seq(Range(Append(s, e))) /\ Append(s, e) # s
<1> DEFINE T == Range(s) \cup {e}
           t == Append(s, e)
<1>1. s \in Seq(T)
  BY DEF T
<1>2. t \in Seq(T) /\ Len(t) = Len(s) + 1 /\ Len(s) \in Nat
  BY <1>1, AppendProperties, LenProperties
<1> HIDE DEF t, T
<1>3. t \in [1..Len(t) -> T] /\ Len(t) \in Nat
  BY <1>2, LenProperties
<1>4. t \in [1..Len(t) -> Range(t)]
  BY <1>3 DEF Range
<1>5. t \in Seq(Range(t))
  BY <1>3, <1>4
<1> QED BY <1>2, <1>5 DEF t

\* Nothing built yet: the invariant holds.
LEMMA InitLedger == OutcomeInit => LedgerInv
<1> SUFFICES ASSUME OutcomeInit PROVE LedgerInv
  OBVIOUS
<1>1. RowsAreRows
  BY DEF OutcomeInit, RowsAreRows, Unbuilt, NoEpisode, Decided, Statuses
<1>2. <<>> \in Seq(Range(<<>>))
  OBVIOUS
<1>3. EventsAreSequences
  BY <1>2 DEF OutcomeInit, EventsAreSequences
<1>4. OneCurrent /\ EpisodeFollows
  BY DEF OutcomeInit, OneCurrent, EpisodeFollows, Current, Unbuilt
<1> QED BY <1>1, <1>3, <1>4 DEF LedgerInv

\* What is kept of a projection is a status that an episode or an opportunity may have.
LEMMA KeptIsStatus ==
    ASSUME NEW p
    PROVE  /\ Kept(p) = [status |-> Kept(p).status, until |-> Kept(p).until]
           /\ Kept(p).status \in Decided \cup {"new", "snoozed"}
BY DEF Kept, Legacy, Decided

\* An event that is recorded makes the ledger longer.
LEMMA TakingAppends ==
    ASSUME LedgerInv, NEW v \in Versions, NEW e, NEW p, Takes(v, e, p)
    PROVE  EventsAreSequences' /\ events' # events
<1> DEFINE t == Append(events[v], Entry(v, e))
<1>1. events' = [events EXCEPT ![v] = t]
  BY DEF Takes
<1>2. t \in Seq(Range(t)) /\ t # events[v]
  BY AppendGrows DEF LedgerInv, EventsAreSequences
<1> HIDE DEF t
<1>3. events = [u \in Versions |-> events[u]] /\ \A u \in Versions : events[u] \in Seq(Range(events[u]))
  BY DEF LedgerInv, EventsAreSequences
<1>4. /\ events' = [u \in Versions |-> events'[u]] /\ events'[v] = t
      /\ \A u \in Versions \ {v} : events'[u] = events[u]
  BY <1>1, <1>3
<1> QED BY <1>2, <1>3, <1>4 DEF EventsAreSequences

\* The event of a user or of the job that wakes, with the older statuses.
LEMMA RecordKeeps ==
    ASSUME LedgerInv, NEW v \in Versions, NEW e, NEW p, Takes(v, e, p), opp' = WithStatus(v, e, p)
    PROVE  LedgerInv' /\ events' # events
<1>1. EventsAreSequences' /\ events' # events
  BY TakingAppends
<1>2. CASE e.type \in Closing \cup {"shown"}
  <2>1. opp' = opp /\ episode' = episode
    BY <1>2 DEF WithStatus, Takes
  <2> QED BY <1>1, <2>1 DEF LedgerInv, RowsAreRows, OneCurrent, EpisodeFollows, Current
<1>3. CASE e.type \notin Closing \cup {"shown"}
  <2> DEFINE k == Kept(p)
  <2>1. k = [status |-> k.status, until |-> k.until] /\ k.status \in Decided \cup {"new", "snoozed"}
    BY KeptIsStatus
  <2>2. opp' = [opp EXCEPT ![v].status = k.status, ![v].until = k.until]
    BY <1>3 DEF WithStatus
  <2>3. episode' = IF k.status = "new" THEN NoEpisode ELSE k
    BY <1>3 DEF Takes
  <2>4. Current(v)
    BY DEF Takes, Accepts
  <2> HIDE DEF k
  <2>5. \A u \in Versions : opp[u] = [life |-> opp[u].life, status |-> opp[u].status,
                                      until |-> opp[u].until, valid |-> opp[u].valid]
    BY DEF LedgerInv, RowsAreRows
  <2>6. DOMAIN opp = Versions
    BY DEF LedgerInv, RowsAreRows
  <2>7. /\ opp' = [u \in Versions |-> opp'[u]]
        /\ opp'[v] = [life |-> opp[v].life, status |-> k.status, until |-> k.until, valid |-> opp[v].valid]
        /\ \A u \in Versions \ {v} : opp'[u] = opp[u]
    BY <2>2, <2>5, <2>6
  <2>8. opp' = [u \in Versions |-> [life |-> opp'[u].life, status |-> opp'[u].status,
                                    until |-> opp'[u].until, valid |-> opp'[u].valid]]
    BY <2>5, <2>7
  <2>9. \A u \in Versions : opp'[u].status \in Statuses
    BY <2>1, <2>7 DEF LedgerInv, RowsAreRows, Statuses
  <2>10. RowsAreRows'
    BY <2>1, <2>3, <2>8, <2>9 DEF RowsAreRows, NoEpisode, Decided
  <2>11. \A u \in Versions : Current(u)' <=> Current(u)
    BY <2>7 DEF Current
  <2>12. OneCurrent'
    BY <2>11 DEF LedgerInv, OneCurrent
  <2>13. EpisodeFollows'
    <3> SUFFICES ASSUME NEW u \in Versions, Current(u)', opp'[u].status \in Decided \cup {"snoozed"}
                 PROVE  episode' = [status |-> opp'[u].status, until |-> opp'[u].until]
      BY DEF EpisodeFollows
    <3>1. u = v
      BY <2>4, <2>11 DEF LedgerInv, OneCurrent
    <3> QED BY <2>1, <2>3, <2>7, <3>1 DEF Decided
  <2> QED BY <1>1, <2>10, <2>12, <2>13 DEF LedgerInv
<1> QED BY <1>2, <1>3

\* The opportunity of a build is the only one that is current.
LEMMA StoringKeeps ==
    ASSUME LedgerInv, NEW x \in Versions, NEW kept, NEW valid, Stores(x, kept, valid),
           kept.status \in Statuses,
           episode' = [status |-> episode'.status, until |-> episode'.until],
           episode'.status \in Decided \cup {"none", "snoozed"},
           episode'.status = "none" => episode' = NoEpisode,
           kept.status \in Decided \cup {"snoozed"} =>
               \/ episode' = [status |-> kept.status, until |-> kept.until]
               \/ episode' = NoEpisode /\ (kept.status \in Decided => kept.until = 0)
    PROVE  /\ RowsAreRows' /\ OneCurrent' /\ EpisodeFollows'
           /\ Current(x)' /\ opp'[x].status = kept.status /\ opp'[x].until = kept.until
<1>1. /\ opp' = [u \in Versions |-> opp'[u]]
      /\ opp'[x] = [life |-> "current", status |-> kept.status, until |-> kept.until, valid |-> valid]
      /\ \A u \in Versions \ {x} :
            opp'[u] = IF Current(u) THEN [Unbuilt EXCEPT !.life = "superseded"] ELSE opp[u]
  BY DEF Stores
<1>2. \A u \in Versions \ {x} :
         /\ opp'[u] = [life |-> opp'[u].life, status |-> opp'[u].status,
                       until |-> opp'[u].until, valid |-> opp'[u].valid]
         /\ opp'[u].status \in Statuses
         /\ opp'[u].life # "current"
  BY <1>1 DEF LedgerInv, RowsAreRows, Unbuilt, Current, Statuses
<1>3. /\ opp'[x] = [life |-> opp'[x].life, status |-> opp'[x].status,
                    until |-> opp'[x].until, valid |-> opp'[x].valid]
      /\ opp'[x].life = "current" /\ opp'[x].status = kept.status /\ opp'[x].until = kept.until
  BY <1>1
<1>4. RowsAreRows'
  BY <1>1, <1>2, <1>3 DEF RowsAreRows
<1>5. Current(x)' /\ \A u \in Versions : Current(u)' => u = x
  BY <1>2, <1>3 DEF Current
<1>6. OneCurrent'
  BY <1>5 DEF OneCurrent
<1>7. EpisodeFollows'
  BY <1>3, <1>5 DEF EpisodeFollows
<1> QED BY <1>3, <1>4, <1>5, <1>6, <1>7

\* The row of the episode as a build takes it.
LEMMA EpisodeIsRow ==
    ASSUME LedgerInv, NEW v \in Versions
    PROVE  /\ EpisodeOf(v) = [status |-> EpisodeOf(v).status, until |-> EpisodeOf(v).until]
           /\ EpisodeOf(v).status \in Decided \cup {"none", "snoozed"}
           /\ EpisodeOf(v).status = "none" => EpisodeOf(v) = NoEpisode
           /\ episode # NoEpisode => EpisodeOf(v) = episode
           /\ Current(v) /\ opp[v].status = "snoozed" =>
                 EpisodeOf(v) = [status |-> opp[v].status, until |-> opp[v].until]
           /\ Current(v) /\ opp[v].status \in Decided =>
                 \/ EpisodeOf(v) = [status |-> opp[v].status, until |-> opp[v].until]
                 \/ EpisodeOf(v) = NoEpisode /\ opp[v].until = 0
<1>1. CASE episode # NoEpisode \/ ~Current(v) \/ opp[v].status # "snoozed"
  <2>1. EpisodeOf(v) = episode
    BY <1>1 DEF EpisodeOf
  <2> QED BY <1>1, <2>1 DEF LedgerInv, RowsAreRows, EpisodeFollows, Decided
<1>2. CASE episode = NoEpisode /\ Current(v) /\ opp[v].status = "snoozed"
  <2>1. EpisodeOf(v) = [status |-> "snoozed", until |-> opp[v].until]
    BY <1>2 DEF EpisodeOf
  <2> QED BY <1>2, <2>1 DEF Decided
<1> QED BY <1>1, <1>2

\* What a step that records nothing leaves of the decision about an opportunity.
Outlives(v) ==
    \E x \in Versions :
        /\ Current(x)'
        /\ \/ opp'[x].status = opp[v].status /\ opp'[x].until = opp[v].until
           \/ /\ opp'[x].status = "expired"
              /\ opp[v].status = "snoozed" \/ v \in job.asleep
              /\ ~hiring' \/ opp[v].valid < now
AllOutlive == \A v \in Versions : Current(v) /\ opp[v].status \in Decided \cup {"snoozed"} => Outlives(v)

\* A build that leaves the snooze asleep, or finds none.
LEMMA BuildKeeps ==
    ASSUME LedgerInv, NEW x \in Versions, NEW v \in Versions, NEW valid, Build(x, v, valid)
    PROVE  LedgerInv' /\ AllOutlive
<1>1. PICK score \in {"new", "dismissed"} : Stores(x, Preserved(v, score), valid)
  BY DEF Build
<1>2. episode' = EpisodeOf(v) /\ events' = events
  BY DEF Build
<1> DEFINE kept == Preserved(v, score)
<1>3. /\ EpisodeOf(v) # NoEpisode => kept = EpisodeOf(v)
      /\ EpisodeOf(v) = NoEpisode =>
            kept = [status |-> IF Current(v) /\ opp[v].status \in Decided THEN opp[v].status ELSE score,
                    until |-> 0]
  BY DEF Preserved
<1> HIDE DEF kept
<1>4. /\ EpisodeOf(v) = [status |-> EpisodeOf(v).status, until |-> EpisodeOf(v).until]
      /\ EpisodeOf(v).status \in Decided \cup {"none", "snoozed"}
      /\ EpisodeOf(v).status = "none" => EpisodeOf(v) = NoEpisode
  BY EpisodeIsRow
<1>5. kept.status \in Statuses
  BY <1>3, <1>4 DEF Statuses, Decided
<1>6. kept.status \in Decided \cup {"snoozed"} =>
         \/ EpisodeOf(v) = [status |-> kept.status, until |-> kept.until]
         \/ EpisodeOf(v) = NoEpisode /\ (kept.status \in Decided => kept.until = 0)
  BY <1>3, <1>4
<1>7. Stores(x, kept, valid)
  BY <1>1 DEF kept
<1>8. /\ RowsAreRows' /\ OneCurrent' /\ EpisodeFollows'
      /\ Current(x)' /\ opp'[x].status = kept.status /\ opp'[x].until = kept.until
  BY <1>2, <1>4, <1>5, <1>6, <1>7, StoringKeeps
<1>9. LedgerInv'
  BY <1>2, <1>8 DEF LedgerInv, EventsAreSequences
<1>10. AllOutlive
  <2> SUFFICES ASSUME NEW u \in Versions, Current(u), opp[u].status \in Decided \cup {"snoozed"}
               PROVE  kept.status = opp[u].status /\ kept.until = opp[u].until
    BY <1>8 DEF AllOutlive, Outlives
  <2>1. u = v
    BY DEF Build, Builds, LedgerInv, OneCurrent
  <2>2. CASE opp[u].status = "snoozed"
    <3>1. EpisodeOf(v) = [status |-> opp[v].status, until |-> opp[v].until]
      BY <2>1, <2>2, EpisodeIsRow
    <3>2. EpisodeOf(v) # NoEpisode
      BY <2>1, <2>2, <3>1 DEF NoEpisode
    <3> QED BY <1>3, <2>1, <3>1, <3>2
  <2>3. CASE opp[u].status \in Decided
    <3>1. \/ EpisodeOf(v) = [status |-> opp[v].status, until |-> opp[v].until]
          \/ EpisodeOf(v) = NoEpisode /\ opp[v].until = 0
      BY <2>1, <2>3, EpisodeIsRow
    <3>2. CASE EpisodeOf(v) = NoEpisode /\ opp[v].until = 0
      BY <1>3, <2>1, <2>3, <3>2
    <3>3. CASE EpisodeOf(v) = [status |-> opp[v].status, until |-> opp[v].until]
      <4>1. EpisodeOf(v) # NoEpisode
        BY <2>1, <2>3, <3>3 DEF NoEpisode, Decided
      <4> QED BY <1>3, <2>1, <3>3, <4>1
    <3> QED BY <3>1, <3>2, <3>3
  <2> QED BY <2>2, <2>3
<1> QED BY <1>9, <1>10

\* A build that finds the snooze over records its end first.
LEMMA BuildAwakeKeeps ==
    ASSUME LedgerInv, NEW x \in Versions, NEW v \in Versions, NEW valid, BuildAwake(x, v, valid)
    PROVE  LedgerInv' /\ events' # events
<1> DEFINE e == Wakes(EpisodeOf(v).until)
           p == Projected(v, e)
           k == Kept(p)
<1>1. Takes(v, e, p) /\ Stores(x, k, valid)
  BY DEF BuildAwake
<1>2. e.type = "resumed"
  BY DEF Wakes, Event
<1> HIDE DEF e, p
<1>3. k = [status |-> k.status, until |-> k.until] /\ k.status \in Decided \cup {"new", "snoozed"}
  BY KeptIsStatus
<1>4. episode' = IF k.status = "new" THEN NoEpisode ELSE k
  BY <1>1, <1>2 DEF Takes, Closing
<1> HIDE DEF k
<1>5. /\ k.status \in Statuses
      /\ episode' = [status |-> episode'.status, until |-> episode'.until]
      /\ episode'.status \in Decided \cup {"none", "snoozed"}
      /\ episode'.status = "none" => episode' = NoEpisode
      /\ k.status \in Decided \cup {"snoozed"} => episode' = [status |-> k.status, until |-> k.until]
  BY <1>3, <1>4 DEF NoEpisode, Statuses, Decided
<1>6. RowsAreRows' /\ OneCurrent' /\ EpisodeFollows'
  BY <1>1, <1>5, StoringKeeps
<1>7. EventsAreSequences' /\ events' # events
  BY <1>1, TakingAppends
<1> QED BY <1>6, <1>7 DEF LedgerInv

\* The rows stay; the episode may be taken from the current one.
LEMMA UnchangedKeeps ==
    ASSUME LedgerInv, opp' = opp, events' = events,
           episode' = episode \/ \E v \in Versions : Current(v) /\ episode' = EpisodeOf(v)
    PROVE  LedgerInv' /\ AllOutlive
<1>1. AllOutlive
  BY DEF AllOutlive, Outlives, Current
<1>2. EventsAreSequences' /\ OneCurrent'
  BY DEF LedgerInv, EventsAreSequences, OneCurrent, Current
<1>3. CASE episode' = episode
  BY <1>1, <1>2, <1>3 DEF LedgerInv, RowsAreRows, EpisodeFollows, Current
<1>4. ASSUME NEW v \in Versions, Current(v), episode' = EpisodeOf(v)
      PROVE  LedgerInv'
  <2>1. RowsAreRows'
    BY <1>4, EpisodeIsRow DEF LedgerInv, RowsAreRows
  <2>2. \A u \in Versions : Current(u)' => u = v
    BY <1>4 DEF LedgerInv, OneCurrent, Current
  <2>3. EpisodeFollows'
    BY <1>4, <2>2, EpisodeIsRow DEF EpisodeFollows, Current, Decided
  <2> QED BY <1>2, <2>1, <2>3 DEF LedgerInv
<1> QED BY <1>1, <1>3, <1>4

\* What a change of the status leaves of a row.
LEMMA StatusChanges ==
    ASSUME NEW r, NEW status,
           r = [life |-> r.life, status |-> r.status, until |-> r.until, valid |-> r.valid]
    PROVE  LET n == [r EXCEPT !.status = status]
           IN /\ n = [life |-> n.life, status |-> n.status, until |-> n.until, valid |-> n.valid]
              /\ n.life = r.life /\ n.status = status /\ n.until = r.until /\ n.valid = r.valid
OBVIOUS

\* The last statement of the expiry job.
LEMMA EndKeeps ==
    ASSUME LedgerInv, NEW closes \in BOOLEAN, ExpireEnd(closes)
    PROVE  LedgerInv' /\ AllOutlive
<1> DEFINE gone == {v \in Versions : /\ Current(v)
                                     /\ opp[v].status \in {"new", "snoozed"} \/ v \in job.asleep
                                     /\ closes \/ Over(v)}
<1>1. /\ opp' = [v \in Versions |-> IF v \in gone THEN [opp[v] EXCEPT !.status = "expired"] ELSE opp[v]]
      /\ episode' = IF gone # {} /\ episode.status = "snoozed" THEN NoEpisode ELSE episode
      /\ events' = events /\ hiring' = (hiring /\ ~closes)
  BY DEF ExpireEnd
<1>2. \A v \in Versions : v \in gone =>
         /\ Current(v)
         /\ opp[v].status \in {"new", "snoozed"} \/ v \in job.asleep
         /\ closes \/ ~hiring \/ opp[v].valid < now
  BY DEF Over
<1>0. gone \subseteq Versions
  OBVIOUS
<1> HIDE DEF gone
<1>3. \A v \in Versions : opp[v] = [life |-> opp[v].life, status |-> opp[v].status,
                                    until |-> opp[v].until, valid |-> opp[v].valid]
  BY DEF LedgerInv, RowsAreRows
<1>4. ASSUME NEW v \in Versions
      PROVE  /\ opp'[v] = [life |-> opp'[v].life, status |-> opp'[v].status,
                           until |-> opp'[v].until, valid |-> opp'[v].valid]
             /\ opp'[v].life = opp[v].life /\ opp'[v].until = opp[v].until
             /\ opp'[v].status = IF v \in gone THEN "expired" ELSE opp[v].status
  <2>1. CASE v \in gone
    <3>1. opp'[v] = [opp[v] EXCEPT !.status = "expired"]
      BY <1>1, <2>1
    <3> QED BY <1>3, <2>1, <3>1, StatusChanges
  <2>2. CASE v \notin gone
    BY <1>1, <1>3, <2>2
  <2> QED BY <2>1, <2>2
<1>5. opp' = [v \in Versions |-> [life |-> opp'[v].life, status |-> opp'[v].status,
                                  until |-> opp'[v].until, valid |-> opp'[v].valid]]
  BY <1>1, <1>3, <1>4
<1>6. RowsAreRows'
  BY <1>1, <1>4, <1>5 DEF LedgerInv, RowsAreRows, Statuses, NoEpisode
<1>7. \A v \in Versions : Current(v)' <=> Current(v)
  BY <1>4 DEF Current
<1>8. EventsAreSequences' /\ OneCurrent'
  BY <1>1, <1>7 DEF LedgerInv, EventsAreSequences, OneCurrent
<1>9. EpisodeFollows'
  <2> SUFFICES ASSUME NEW v \in Versions, Current(v)', opp'[v].status \in Decided \cup {"snoozed"}
               PROVE  opp'[v].status = opp[v].status /\ opp'[v].until = opp[v].until /\ episode' = episode
    BY <1>7 DEF LedgerInv, EpisodeFollows
  <2>1. v \notin gone
    BY <1>4 DEF Decided
  <2>2. \A u \in Versions : u \notin gone
    BY <1>2, <1>7, <2>1 DEF LedgerInv, OneCurrent
  <2> QED BY <1>0, <1>1, <1>4, <2>1, <2>2
<1>10. AllOutlive
  <2> SUFFICES ASSUME NEW v \in Versions, Current(v), opp[v].status \in Decided \cup {"snoozed"}
               PROVE  Outlives(v)
    BY DEF AllOutlive
  <2>1. CASE v \in gone
    <3>1. opp[v].status = "snoozed" \/ v \in job.asleep
      BY <1>2, <2>1 DEF Decided
    <3>2. ~hiring' \/ opp[v].valid < now
      BY <1>1, <1>2, <2>1
    <3> QED BY <1>4, <1>7, <2>1, <3>1, <3>2 DEF Outlives
  <2>2. CASE v \notin gone
    BY <1>4, <1>7, <2>2 DEF Outlives
  <2> QED BY <2>1, <2>2
<1> QED BY <1>6, <1>8, <1>9, <1>10 DEF LedgerInv

\* Every step keeps the invariant, and either records an event or lets all decisions outlive it.
LEMMA LedgerMoves ==
    ASSUME LedgerInv, [OutcomeNext]_outcomeVars
    PROVE  LedgerInv' /\ (events' = events => AllOutlive)
<1>1. ASSUME NEW v \in Versions, NEW e, Records(v, e)
      PROVE  LedgerInv' /\ events' # events
  BY <1>1, RecordKeeps DEF Records
<1>2. ASSUME NEW v \in Versions, NEW at \in Ticks, NEW type \in Commercial, Step(v, type, at)
      PROVE  LedgerInv' /\ events' # events
  BY <1>1, <1>2 DEF Step
<1>3. ASSUME NEW v \in Versions, NEW at \in Ticks, Correct(v, at)
      PROVE  LedgerInv' /\ events' # events
  BY <1>1, <1>3 DEF Correct
<1>4. ASSUME NEW v \in Versions, Resume(v) \/ Show(v) \/ \E until \in 1..MaxTime + 1 : Snooze(v, until)
      PROVE  LedgerInv' /\ events' # events
  BY <1>1, <1>4 DEF Resume, Show, Snooze
<1>5. ASSUME NEW v \in Versions, ExpireWake(v)
      PROVE  LedgerInv' /\ events' # events
  BY <1>5, RecordKeeps DEF ExpireWake
<1>6. ASSUME NEW v \in Versions, BuildUnchanged(v)
      PROVE  LedgerInv' /\ AllOutlive
  BY <1>6, UnchangedKeeps DEF BuildUnchanged
<1>7. CASE ExpireLook \/ ExpireFails \/ Rebuild \/ Tick \/ UNCHANGED outcomeVars
  BY <1>7, UnchangedKeeps DEF ExpireLook, ExpireFails, Rebuild, Tick, outcomeVars
<1> QED BY <1>2, <1>3, <1>4, <1>5, <1>6, <1>7, BuildKeeps, BuildAwakeKeeps, EndKeeps DEF OutcomeNext

\* At any time at most one version of the opportunity is the current one, and the episode says what
\* its row says, so that neither the build nor the jobs find a decision they could overwrite.
THEOREM LedgerInvariant == OutcomeSpec => []LedgerInv
<1>1. LedgerInv /\ [OutcomeNext]_outcomeVars => LedgerInv'
  BY LedgerMoves
<1> QED BY InitLedger, <1>1, PTL DEF OutcomeSpec

-----------------------------------------------------------------------------
(* OutcomeLedger: what a history of events sums up to *)

\* Among numbers there is a least one: what an induction over the events is done with.
LEMMA LeastNumber ==
    ASSUME NEW T, T \subseteq Nat, T # {}
    PROVE  \E m \in T : \A k \in T : m <= k
<1>1. PICK m \in T : \A k \in T : ~(<<k, m>> \in OpToRel(<, Nat))
  BY NatLessThanWellFounded, WFMin
<1>2. ASSUME NEW k \in T, ~(m <= k) PROVE FALSE
  <2>1. k < m /\ k \in Nat /\ m \in Nat
    BY <1>2
  <2>2. <<k, m>> \in OpToRel(<, Nat)
    BY <2>1 DEF OpToRel
  <2> QED BY <1>1, <2>2
<1> QED BY <1>2

\* The effective events up to the n-th that are of some types, or that move the stage, and the last
\* of such events, or 0.
Counted(l, n, S) == {i \in Effective(l) : i <= n /\ l[i].type \in S}
Moves(l, n) == {i \in Effective(l) : i <= n /\ MovesStage(l[i])}
IsLast(m, S) == m \in S \cup {0} /\ \A i \in S : i <= m

\* The projection p says of the first n events of l: which of the effective ones moved the stage
\* last, whether it is put off, what became of the meeting, and how often one was arranged.
SumsMoves(p, l, n) ==
    /\ IsLast(p.last, Moves(l, n))
    /\ p.lastAt = IF p.last = 0 THEN 0 ELSE l[p.last].at
    /\ p.last # 0 => p.stage = l[p.last].new
SumsFlow(p, l, n) ==
    \E i \in 0..n :
        /\ IsLast(i, Counted(l, n, {"snoozed", "resumed"}))
        /\ IF i # 0 /\ l[i].type = "snoozed"
           THEN p.workflow = "snoozed" /\ p.until = l[i].until
           ELSE p.workflow = "active" /\ p.until = 0
SumsMeeting(p, l, n) ==
    \E i \in 0..n :
        /\ IsLast(i, Counted(l, n, Meetings))
        /\ p.meeting = IF i = 0 THEN "none" ELSE IF l[i].type = "meeting" THEN "scheduled" ELSE l[i].type
        /\ p.meetingAt = IF i = 0 THEN 0 ELSE l[i].at
SumsCount(p, l, n) ==
    /\ IsLast(p.meetingId, Counted(l, n, {"meeting"}))
    /\ p.attempts = Cardinality(Counted(l, n, {"meeting"}))
Sums(p, l, n) == SumsMoves(p, l, n) /\ SumsFlow(p, l, n) /\ SumsMeeting(p, l, n) /\ SumsCount(p, l, n)

\* What there is in an effective set.
LEMMA EffectiveTyped ==
    ASSUME NEW l \in Seq(Entries)
    PROVE  /\ Len(l) \in Nat /\ DOMAIN l = 1..Len(l)
           /\ \A i \in 1..Len(l) : l[i] \in Entries
           /\ Effective(l) \subseteq 1..Len(l)
           /\ \A n, S : Counted(l, n, S) \subseteq 1..Len(l) /\ \A i \in Counted(l, n, S) : i <= n
           /\ \A n : Moves(l, n) \subseteq 1..Len(l) /\ \A i \in Moves(l, n) : i <= n
BY DEF Effective, Counted, Moves

\* There is a last one, it is the only one, and it is what Max finds.
LEMMA LastExists ==
    ASSUME NEW n \in Nat, NEW S, S \subseteq 1..n
    PROVE  \E m \in 0..n : IsLast(m, S)
<1> DEFINE T == {m \in Nat : \A i \in S : i <= m}
<1>1. n \in T
  OBVIOUS
<1>2. PICK m \in T : \A k \in T : m <= k
  BY <1>1, LeastNumber
<1>3. m \in 0..n
  BY <1>1, <1>2
<1>4. ASSUME m \notin S, m # 0 PROVE FALSE
  <2>1. m - 1 \in Nat
    BY <1>3, <1>4
  <2>2. \A i \in S : i <= m - 1
    BY <1>2, <1>4
  <2> QED BY <1>2, <2>1, <2>2
<1> QED BY <1>2, <1>3, <1>4 DEF IsLast

\* There is one last number only.
LEMMA LastIsOne ==
    ASSUME NEW n \in Nat, NEW S, S \subseteq 1..n, NEW m, NEW k, IsLast(m, S), IsLast(k, S)
    PROVE  m = k /\ m \in 0..n
<1>1. m \in 0..n /\ k \in 0..n
  BY DEF IsLast
<1> QED BY <1>1 DEF IsLast

\* Max finds the last number, or 0.
LEMMA MaxIsLast ==
    ASSUME NEW n \in Nat, NEW S, S \subseteq 1..n
    PROVE  IsLast(Max({0} \cup S), S) /\ Max({0} \cup S) \in 0..n
<1>1. PICK m \in 0..n : IsLast(m, S)
  BY LastExists
<1>2. m \in {0} \cup S /\ \A y \in {0} \cup S : m >= y
  BY <1>1 DEF IsLast
<1> DEFINE M == Max({0} \cup S)
<1>3. M \in {0} \cup S /\ \A y \in {0} \cup S : M >= y
  BY <1>2 DEF Max
<1> HIDE DEF M
<1>4. IsLast(M, S)
  BY <1>3 DEF IsLast
<1>5. M \in 0..n
  BY <1>3
<1> QED BY <1>4, <1>5 DEF M

\* One more event.
LEMMA LastAdded ==
    ASSUME NEW n \in Nat, NEW S, S \subseteq 1..n
    PROVE  IsLast(n + 1, S \cup {n + 1})
BY DEF IsLast

\* What an event that counts adds.
LEMMA CountedAdds ==
    ASSUME NEW l \in Seq(Entries), NEW n \in Nat, n + 1 \in Effective(l)
    PROVE  /\ \A S : Counted(l, n + 1, S) =
                        IF l[n + 1].type \in S THEN Counted(l, n, S) \cup {n + 1} ELSE Counted(l, n, S)
           /\ Moves(l, n + 1) = IF MovesStage(l[n + 1]) THEN Moves(l, n) \cup {n + 1} ELSE Moves(l, n)
           /\ \A S : Counted(l, n, S) \subseteq 1..n
           /\ Moves(l, n) \subseteq 1..n
<1>1. \A i \in Effective(l) : i <= n + 1 <=> i <= n \/ i = n + 1
  BY EffectiveTyped
<1>2. Effective(l) \subseteq Nat \ {0}
  BY EffectiveTyped
<1> QED BY <1>1, <1>2 DEF Counted, Moves

\* An event that does not count adds nothing.
LEMMA CountedStays ==
    ASSUME NEW l \in Seq(Entries), NEW n \in Nat, n + 1 \notin Effective(l)
    PROVE  (\A S : Counted(l, n + 1, S) = Counted(l, n, S)) /\ Moves(l, n + 1) = Moves(l, n)
<1>1. \A i \in Effective(l) : i <= n + 1 <=> i <= n
  BY EffectiveTyped
<1> QED BY <1>1 DEF Counted, Moves

-----------------------------------------------------------------------------
(* OutcomeLedger: one event more *)

\* The parts of the projection after an event.
LEMMA ReducedIs ==
    ASSUME NEW q \in Projections, NEW e \in Entries, NEW i \in Nat, NEW p, p = Reduced(q, e, i)
    PROVE  /\ p \in Projections
           /\ p.stage = (IF MovesStage(e) THEN e.new ELSE q.stage)
           /\ p.last = (IF MovesStage(e) THEN i ELSE q.last)
           /\ p.lastAt = (IF MovesStage(e) THEN e.at ELSE q.lastAt)
           /\ e.type = "snoozed" => p.workflow = "snoozed" /\ p.until = e.until
           /\ e.type = "resumed" => p.workflow = "active" /\ p.until = 0
           /\ e.type \notin {"snoozed", "resumed"} => p.workflow = q.workflow /\ p.until = q.until
           /\ e.type \in Meetings => p.meeting = (IF e.type = "meeting" THEN "scheduled" ELSE e.type)
           /\ e.type \in Meetings => p.meetingAt = e.at
           /\ e.type \notin Meetings => p.meeting = q.meeting /\ p.meetingAt = q.meetingAt
           /\ p.meetingId = (IF e.type = "meeting" THEN i ELSE q.meetingId)
           /\ p.attempts = (IF e.type = "meeting" THEN q.attempts + 1 ELSE q.attempts)
<1> DEFINE r == IF e.type = "snoozed" THEN [q EXCEPT !.workflow = "snoozed", !.until = e.until]
                ELSE IF e.type = "resumed" THEN [q EXCEPT !.workflow = "active", !.until = 0]
                ELSE IF MovesStage(e) THEN [q EXCEPT !.stage = e.new, !.last = i, !.lastAt = e.at]
                ELSE q
<1>1. /\ e.type \in Types /\ e.at \in Ticks /\ e.until \in 0..MaxTime + 1 /\ e.new \in Stages
      /\ MaxTime \in Nat
  BY BoundsAreNatural DEF Entries
<1>2. /\ r \in Projections
      /\ r.stage = (IF MovesStage(e) THEN e.new ELSE q.stage)
      /\ r.last = (IF MovesStage(e) THEN i ELSE q.last)
      /\ r.lastAt = (IF MovesStage(e) THEN e.at ELSE q.lastAt)
      /\ e.type = "snoozed" => r.workflow = "snoozed" /\ r.until = e.until
      /\ e.type = "resumed" => r.workflow = "active" /\ r.until = 0
      /\ e.type \notin {"snoozed", "resumed"} => r.workflow = q.workflow /\ r.until = q.until
      /\ r.meeting = q.meeting /\ r.meetingAt = q.meetingAt
      /\ r.meetingId = q.meetingId /\ r.attempts = q.attempts
  <2>1. MovesStage(e) => e.type \notin {"snoozed", "resumed"}
    BY DEF MovesStage, Stepping, Stages
  <2>2. CASE e.type = "snoozed"
    BY <1>1, <2>1, <2>2 DEF Projections
  <2>3. CASE e.type = "resumed"
    <3>1. r = [q EXCEPT !.workflow = "active", !.until = 0] /\ 0 \in 0..MaxTime + 1 /\ ~MovesStage(e)
      BY <1>1, <2>1, <2>3
    <3> HIDE DEF r
    <3>2. r \in Projections /\ r.workflow = "active" /\ r.until = 0
      BY <3>1 DEF Projections
    <3> QED BY <2>3, <3>1, <3>2 DEF Projections
  <2>4. CASE e.type \notin {"snoozed", "resumed"} /\ MovesStage(e)
    BY <1>1, <2>1, <2>4 DEF Projections
  <2>5. CASE e.type \notin {"snoozed", "resumed"} /\ ~MovesStage(e)
    BY <1>1, <2>1, <2>5 DEF Projections
  <2> QED BY <2>2, <2>3, <2>4, <2>5
<1>3. /\ e.type = "meeting" =>
            p = [r EXCEPT !.meeting = "scheduled", !.meetingId = i, !.meetingAt = e.at, !.attempts = @ + 1]
      /\ e.type \in Closing => p = [r EXCEPT !.meeting = e.type, !.meetingAt = e.at]
      /\ e.type \notin Meetings => p = r
  <2>1. q # NoProjection
    BY NoProjectionIsNone
  <2> QED BY <2>1 DEF Reduced, Meetings, Closing
<1> HIDE DEF r
<1>4. CASE e.type = "meeting"
  <2>1. p = [r EXCEPT !.meeting = "scheduled", !.meetingId = i, !.meetingAt = e.at, !.attempts = @ + 1]
    BY <1>3, <1>4
  <2>2. /\ p \in Projections /\ p.meeting = "scheduled" /\ p.meetingId = i /\ p.meetingAt = e.at
        /\ p.attempts = r.attempts + 1
    <3>1. PICK a \in Nat : a = r.attempts + 1
      BY <1>2 DEF Projections
    <3>2. p = [r EXCEPT !.meeting = "scheduled", !.meetingId = i, !.meetingAt = e.at, !.attempts = a]
      BY <2>1, <3>1
    <3>3. "scheduled" \in {"none", "scheduled"} \cup Closing
      OBVIOUS
    <3> QED BY <1>1, <1>2, <3>1, <3>2, <3>3 DEF Projections
  <2>3. /\ p.stage = r.stage /\ p.last = r.last /\ p.lastAt = r.lastAt
        /\ p.workflow = r.workflow /\ p.until = r.until
    BY <1>2, <2>1 DEF Projections
  <2> QED BY <1>2, <1>4, <2>2, <2>3 DEF Meetings
<1>5. CASE e.type \in Closing
  <2>1. PICK m \in Closing : m = e.type
    BY <1>5
  <2>2. PICK t \in Ticks : t = e.at
    BY <1>1
  <2>3. p = [r EXCEPT !.meeting = m, !.meetingAt = t] /\ r \in Projections
    BY <1>2, <1>3, <1>5, <2>1, <2>2
  <2>4. /\ p \in Projections /\ p.meeting = m /\ p.meetingAt = t
        /\ p.stage = r.stage /\ p.last = r.last /\ p.lastAt = r.lastAt
        /\ p.workflow = r.workflow /\ p.until = r.until
        /\ p.meetingId = r.meetingId /\ p.attempts = r.attempts
    BY <2>3 DEF Projections
  <2>5. e.type # "meeting" /\ e.type \in Meetings
    BY <1>5 DEF Closing, Meetings
  <2> QED BY <1>2, <2>1, <2>2, <2>4, <2>5
<1>6. CASE e.type \notin Meetings
  BY <1>1, <1>2, <1>3, <1>6 DEF Meetings
<1> QED BY <1>4, <1>5, <1>6 DEF Meetings

-----------------------------------------------------------------------------
(* OutcomeLedger: what the reduced projection says *)

\* How many there are, with one more.
LEMMA CountAdded ==
    ASSUME NEW n \in Nat, NEW S, S \subseteq 1..n
    PROVE  Cardinality(S \cup {n + 1}) = Cardinality(S) + 1
<1>1. IsFiniteSet(1..n)
  BY FS_Interval
<1>2. IsFiniteSet(S)
  BY <1>1, FS_Subset
<1>3. n + 1 \notin S
  OBVIOUS
<1> QED BY <1>2, <1>3, FS_AddElement

\* A projection without events.
LEMMA FreshTyped ==
    ASSUME NEW s \in Stages
    PROVE  Fresh(s) \in Projections
<1>1. 0 \in Ticks /\ 0 \in 0..MaxTime + 1
  BY BoundsAreNatural DEF Ticks
<1> QED BY <1>1 DEF Fresh, Projections

\* It sums up a history of which nothing counts.
LEMMA FreshSums ==
    ASSUME NEW l \in Seq(Entries), NEW n \in Nat, NEW s \in Stages, \A i \in Effective(l) : ~(i <= n)
    PROVE  Sums(Fresh(s), l, n)
<1>1. (\A S : Counted(l, n, S) = {}) /\ Moves(l, n) = {}
  BY DEF Counted, Moves
<1>2. IsLast(0, {}) /\ 0 \in 0..n /\ Cardinality({}) = 0
  BY FS_EmptySet DEF IsLast
<1> QED BY <1>1, <1>2 DEF Sums, SumsMoves, SumsFlow, SumsMeeting, SumsCount, Fresh

\* The first event counts on an opportunity of which nothing is known.
LEMMA ReducedFirst ==
    ASSUME NEW e \in Entries, NEW i \in Nat
    PROVE  Reduced(NoProjection, e, i) = Reduced(Fresh(e.prev), e, i)
<1>1. Fresh(e.prev) # NoProjection
  BY FreshTyped, NoProjectionIsNone DEF Entries
<1> QED BY <1>1 DEF Reduced

\* An effective event keeps true what the projection says of the stage.
LEMMA ReducedSumsMoves ==
    ASSUME NEW l \in Seq(Entries), NEW n \in Nat, n + 1 \in Effective(l),
           NEW q \in Projections, SumsMoves(q, l, n)
    PROVE  SumsMoves(Reduced(q, l[n + 1], n + 1), l, n + 1)
<1>1. PICK e \in Entries : e = l[n + 1] /\ n + 1 \in Nat
  BY EffectiveTyped
<1>2. PICK i \in Nat : i = n + 1
  OBVIOUS
<1>3. PICK p : p = Reduced(q, e, i)
  OBVIOUS
<1>4. /\ p.stage = (IF MovesStage(e) THEN e.new ELSE q.stage)
      /\ p.last = (IF MovesStage(e) THEN i ELSE q.last)
      /\ p.lastAt = (IF MovesStage(e) THEN e.at ELSE q.lastAt)
  BY <1>3, ReducedIs
<1>5. CASE MovesStage(e)
  <2>1. Moves(l, n + 1) = Moves(l, n) \cup {n + 1} /\ Moves(l, n) \subseteq 1..n
    BY <1>1, <1>5, CountedAdds
  <2>2. IsLast(n + 1, Moves(l, n + 1))
    BY <2>1, LastAdded
  <2> QED BY <1>1, <1>2, <1>3, <1>4, <1>5, <2>2 DEF SumsMoves
<1>6. CASE ~MovesStage(e)
  <2>1. Moves(l, n + 1) = Moves(l, n)
    BY <1>1, <1>6, CountedAdds
  <2> QED BY <1>1, <1>2, <1>3, <1>4, <1>6, <2>1 DEF SumsMoves
<1> QED BY <1>5, <1>6

\* The same of the snooze,
LEMMA ReducedSumsFlow ==
    ASSUME NEW l \in Seq(Entries), NEW n \in Nat, n + 1 \in Effective(l),
           NEW q \in Projections, SumsFlow(q, l, n)
    PROVE  SumsFlow(Reduced(q, l[n + 1], n + 1), l, n + 1)
<1> DEFINE S == {"snoozed", "resumed"}
<1>1. PICK e \in Entries : e = l[n + 1] /\ n + 1 \in Nat
  BY EffectiveTyped
<1>2. PICK i \in Nat : i = n + 1
  OBVIOUS
<1>3. PICK p : p = Reduced(q, e, i)
  OBVIOUS
<1>4. /\ e.type = "snoozed" => p.workflow = "snoozed" /\ p.until = e.until
      /\ e.type = "resumed" => p.workflow = "active" /\ p.until = 0
      /\ e.type \notin {"snoozed", "resumed"} => p.workflow = q.workflow /\ p.until = q.until
  BY <1>3, ReducedIs
<1>5. CASE e.type \in S
  <2>1. Counted(l, n + 1, S) = Counted(l, n, S) \cup {n + 1} /\ Counted(l, n, S) \subseteq 1..n
    BY <1>1, <1>5, CountedAdds
  <2>2. IsLast(n + 1, Counted(l, n + 1, S))
    BY <2>1, LastAdded
  <2>3. n + 1 \in 0..n + 1 /\ n + 1 # 0
    OBVIOUS
  <2> QED BY <1>1, <1>2, <1>3, <1>4, <1>5, <2>2, <2>3 DEF SumsFlow
<1>6. CASE e.type \notin S
  <2>1. Counted(l, n + 1, S) = Counted(l, n, S)
    BY <1>1, <1>6, CountedAdds
  <2>2. 0..n \subseteq 0..n + 1
    OBVIOUS
  <2> QED BY <1>1, <1>2, <1>3, <1>4, <1>6, <2>1, <2>2 DEF SumsFlow
<1> QED BY <1>5, <1>6

\* of the meeting,
LEMMA ReducedSumsMeeting ==
    ASSUME NEW l \in Seq(Entries), NEW n \in Nat, n + 1 \in Effective(l),
           NEW q \in Projections, SumsMeeting(q, l, n)
    PROVE  SumsMeeting(Reduced(q, l[n + 1], n + 1), l, n + 1)
<1>1. PICK e \in Entries : e = l[n + 1] /\ n + 1 \in Nat
  BY EffectiveTyped
<1>2. PICK i \in Nat : i = n + 1
  OBVIOUS
<1>3. PICK p : p = Reduced(q, e, i)
  OBVIOUS
<1>4. /\ e.type \in Meetings => p.meeting = (IF e.type = "meeting" THEN "scheduled" ELSE e.type)
      /\ e.type \in Meetings => p.meetingAt = e.at
      /\ e.type \notin Meetings => p.meeting = q.meeting /\ p.meetingAt = q.meetingAt
  BY <1>3, ReducedIs
<1>5. CASE e.type \in Meetings
  <2>1. Counted(l, n + 1, Meetings) = Counted(l, n, Meetings) \cup {n + 1} /\ Counted(l, n, Meetings) \subseteq 1..n
    BY <1>1, <1>5, CountedAdds
  <2>2. IsLast(n + 1, Counted(l, n + 1, Meetings))
    BY <2>1, LastAdded
  <2>3. n + 1 \in 0..n + 1 /\ n + 1 # 0
    OBVIOUS
  <2> QED BY <1>1, <1>2, <1>3, <1>4, <1>5, <2>2, <2>3 DEF SumsMeeting
<1>6. CASE e.type \notin Meetings
  <2>1. Counted(l, n + 1, Meetings) = Counted(l, n, Meetings)
    BY <1>1, <1>6, CountedAdds
  <2>2. 0..n \subseteq 0..n + 1
    OBVIOUS
  <2> QED BY <1>1, <1>2, <1>3, <1>4, <1>6, <2>1, <2>2 DEF SumsMeeting
<1> QED BY <1>5, <1>6

\* of how many meetings there were,
LEMMA ReducedSumsCount ==
    ASSUME NEW l \in Seq(Entries), NEW n \in Nat, n + 1 \in Effective(l),
           NEW q \in Projections, SumsCount(q, l, n)
    PROVE  SumsCount(Reduced(q, l[n + 1], n + 1), l, n + 1)
<1> DEFINE S == {"meeting"}
<1>1. PICK e \in Entries : e = l[n + 1] /\ n + 1 \in Nat
  BY EffectiveTyped
<1>2. PICK i \in Nat : i = n + 1
  OBVIOUS
<1>3. PICK p : p = Reduced(q, e, i)
  OBVIOUS
<1>4. /\ p.meetingId = (IF e.type = "meeting" THEN i ELSE q.meetingId)
      /\ p.attempts = (IF e.type = "meeting" THEN q.attempts + 1 ELSE q.attempts)
  BY <1>3, ReducedIs
<1>5. CASE e.type = "meeting"
  <2>1. Counted(l, n + 1, S) = Counted(l, n, S) \cup {n + 1} /\ Counted(l, n, S) \subseteq 1..n
    BY <1>1, <1>5, CountedAdds
  <2>2. IsLast(n + 1, Counted(l, n + 1, S)) /\ Cardinality(Counted(l, n + 1, S)) = Cardinality(Counted(l, n, S)) + 1
    BY <2>1, LastAdded, CountAdded
  <2> QED BY <1>1, <1>2, <1>3, <1>4, <1>5, <2>2 DEF SumsCount
<1>6. CASE e.type # "meeting"
  <2>1. Counted(l, n + 1, S) = Counted(l, n, S)
    BY <1>1, <1>6, CountedAdds
  <2> QED BY <1>1, <1>2, <1>3, <1>4, <1>6, <2>1 DEF SumsCount
<1> QED BY <1>5, <1>6

\* and of the whole.
LEMMA ReducedSums ==
    ASSUME NEW l \in Seq(Entries), NEW n \in Nat, n + 1 \in Effective(l), NEW q \in Projections, Sums(q, l, n)
    PROVE  Reduced(q, l[n + 1], n + 1) \in Projections /\ Sums(Reduced(q, l[n + 1], n + 1), l, n + 1)
<1>1. l[n + 1] \in Entries /\ n + 1 \in Nat
  BY EffectiveTyped
<1>2. Reduced(q, l[n + 1], n + 1) \in Projections
  <2>1. PICK p : p = Reduced(q, l[n + 1], n + 1)
    OBVIOUS
  <2> QED BY <1>1, <2>1, ReducedIs
<1>3. SumsMoves(q, l, n) /\ SumsFlow(q, l, n) /\ SumsMeeting(q, l, n) /\ SumsCount(q, l, n)
  BY DEF Sums
<1> QED BY <1>2, <1>3, ReducedSumsMoves, ReducedSumsFlow, ReducedSumsMeeting, ReducedSumsCount DEF Sums

-----------------------------------------------------------------------------
(* OutcomeLedger: the projection reduced from the history *)

\* There is a function that the recursion of Reductions describes: of the lengths for which there is
\* none, the least cannot be.
LEMMA ReductionsExist ==
    ASSUME NEW l, NEW N \in Nat, Len(l) = N
    PROVE  \E g : g = [n \in 0..N |->
                         IF n = 0 THEN NoProjection
                         ELSE IF n \in Effective(l) THEN Reduced(g[n - 1], l[n], n) ELSE g[n - 1]]
<1> DEFINE One(q, n) == IF n \in Effective(l) THEN Reduced(q, l[n], n) ELSE q
           Good(g, n) == g = [k \in 0..n |-> IF k = 0 THEN NoProjection ELSE One(g[k - 1], k)]
           Bad == {n \in Nat : ~\E g : Good(g, n)}
<1>1. ASSUME Bad # {} PROVE FALSE
  <2>1. PICK m \in Bad : \A k \in Bad : m <= k
    BY <1>1, LeastNumber
  <2>2. m # 0
    <3>1. Good([k \in 0..0 |-> NoProjection], 0)
      OBVIOUS
    <3> QED BY <3>1
  <2> HIDE DEF One
  <2>3. PICK g : Good(g, m - 1)
    <3>1. m - 1 \in Nat /\ m - 1 \notin Bad
      <4>1. m \in Nat
        OBVIOUS
      <4> HIDE DEF Bad
      <4> QED BY <2>1, <2>2, <4>1
    <3> QED BY <3>1
  <2> DEFINE h == [k \in 0..m |-> IF k = m THEN One(g[m - 1], m) ELSE g[k]]
  <2>4. Good(h, m)
    <3>1. \A k \in 0..m : h[k] = IF k = 0 THEN NoProjection ELSE One(h[k - 1], k)
      <4> SUFFICES ASSUME NEW k \in 0..m
                   PROVE  h[k] = IF k = 0 THEN NoProjection ELSE One(h[k - 1], k)
        OBVIOUS
      <4>1. CASE k = m
        BY <2>2, <4>1
      <4>2. CASE k # m
        BY <2>2, <2>3, <4>2
      <4> QED BY <4>1, <4>2
    <3> QED BY <3>1
  <2> QED BY <2>4
<1>2. PICK g : Good(g, N)
  BY <1>1
<1> QED BY <1>2

\* What the recursion makes of each further event.
LEMMA ReductionsAre ==
    ASSUME NEW l \in Seq(Entries)
    PROVE  /\ Reductions(l)[0] = NoProjection
           /\ \A n \in Nat : n + 1 \in 0..Len(l) =>
                 Reductions(l)[n + 1] = IF n + 1 \in Effective(l)
                                        THEN Reduced(Reductions(l)[n], l[n + 1], n + 1)
                                        ELSE Reductions(l)[n]
<1>1. PICK g : g = Reductions(l)
  OBVIOUS
<1>2. g = [n \in 0..Len(l) |->
             IF n = 0 THEN NoProjection
             ELSE IF n \in Effective(l) THEN Reduced(g[n - 1], l[n], n) ELSE g[n - 1]]
  BY <1>1, ReductionsExist DEF Reductions
<1>3. Len(l) \in Nat
  OBVIOUS
<1>4. ASSUME NEW n \in Nat, n + 1 \in 0..Len(l)
      PROVE  g[n + 1] = IF n + 1 \in Effective(l) THEN Reduced(g[n], l[n + 1], n + 1) ELSE g[n]
  <2>1. n + 1 # 0 /\ (n + 1) - 1 = n
    OBVIOUS
  <2> QED BY <1>2, <1>4, <2>1
<1>5. 0 \in 0..Len(l)
  BY <1>3
<1>6. g[0] = NoProjection
  BY <1>2, <1>5
<1> QED BY <1>1, <1>4, <1>6

\* After n events the reduction has a projection that sums up those of them that count, if any does.
Reducible(l, n) ==
    IF \E i \in Effective(l) : i <= n
    THEN Reductions(l)[n] \in Projections /\ Sums(Reductions(l)[n], l, n)
    ELSE Reductions(l)[n] = NoProjection

\* One event more.
LEMMA ReducibleStep ==
    ASSUME NEW l \in Seq(Entries), NEW n \in Nat, n + 1 \in 0..Len(l), Reducible(l, n)
    PROVE  Reducible(l, n + 1)
<1> DEFINE q == Reductions(l)[n]
<1>1. Reductions(l)[n + 1] = IF n + 1 \in Effective(l) THEN Reduced(q, l[n + 1], n + 1) ELSE q
  BY ReductionsAre
<1>2. \A i \in Effective(l) : i \in Nat /\ (i <= n + 1 <=> i <= n \/ i = n + 1)
  BY EffectiveTyped
<1> HIDE DEF q
<1>3. CASE n + 1 \in Effective(l)
  <2>1. \E i \in Effective(l) : i <= n + 1
    BY <1>2, <1>3
  <2>2. l[n + 1] \in Entries /\ n + 1 \in Nat
    BY <1>3, EffectiveTyped
  <2>3. PICK p \in Projections : Sums(p, l, n) /\ Reduced(q, l[n + 1], n + 1) = Reduced(p, l[n + 1], n + 1)
    <3>1. CASE \E i \in Effective(l) : i <= n
      BY <3>1 DEF Reducible, q
    <3>2. CASE ~\E i \in Effective(l) : i <= n
      <4>1. l[n + 1].prev \in Stages
        BY <2>2 DEF Entries
      <4>2. q = NoProjection
        BY <3>2 DEF Reducible, q
      <4> QED BY <2>2, <3>2, <4>1, <4>2, FreshTyped, FreshSums, ReducedFirst
    <3> QED BY <3>1, <3>2
  <2>4. Reduced(p, l[n + 1], n + 1) \in Projections /\ Sums(Reduced(p, l[n + 1], n + 1), l, n + 1)
    BY <1>3, <2>3, ReducedSums
  <2> QED BY <1>1, <1>3, <2>1, <2>3, <2>4 DEF Reducible
<1>4. CASE n + 1 \notin Effective(l)
  <2>1. (\E i \in Effective(l) : i <= n + 1) <=> (\E i \in Effective(l) : i <= n)
    BY <1>2, <1>4
  <2>2. \A p : Sums(p, l, n) => Sums(p, l, n + 1)
    <3>1. 0..n \subseteq 0..n + 1
      OBVIOUS
    <3> QED BY <1>4, <3>1, CountedStays DEF Sums, SumsMoves, SumsFlow, SumsMeeting, SumsCount
  <2> QED BY <1>1, <1>4, <2>1, <2>2 DEF Reducible, q
<1> QED BY <1>3, <1>4

\* By the least length for which it is not so.
LEMMA ReducibleAlways ==
    ASSUME NEW l \in Seq(Entries), NEW n \in 0..Len(l)
    PROVE  Reducible(l, n)
<1> DEFINE Bad == {k \in 0..Len(l) : ~Reducible(l, k)}
<1>1. Len(l) \in Nat
  OBVIOUS
<1>2. Bad \subseteq Nat
  BY <1>1
<1>3. ASSUME Bad # {} PROVE FALSE
  <2>1. PICK m \in Bad : \A k \in Bad : m <= k
    BY <1>2, <1>3, LeastNumber
  <2>2. Reducible(l, 0)
    <3>1. ~\E i \in Effective(l) : i <= 0
      BY EffectiveTyped
    <3> QED BY <3>1, ReductionsAre DEF Reducible
  <2>3. m \in 0..Len(l) /\ ~Reducible(l, m) /\ m # 0
    BY <2>2
  <2>4. PICK k \in Nat : m = k + 1 /\ k \in 0..Len(l)
    <3>1. m - 1 \in Nat /\ m = (m - 1) + 1 /\ m - 1 \in 0..Len(l)
      BY <1>1, <2>3
    <3> QED BY <3>1
  <2>5. Reducible(l, k)
    <3>1. ~(m <= k)
      BY <2>4
    <3> QED BY <2>1, <2>4, <3>1
  <2> QED BY <2>3, <2>4, <2>5, ReducibleStep
<1> QED BY <1>3

\* The projection of a history sums it up.
LEMMA ReplaySums ==
    ASSUME NEW l \in Seq(Entries), l # <<>>
    PROVE  Replay(l) \in Projections /\ Sums(Replay(l), l, Len(l))
<1> DEFINE p == Reductions(l)[Len(l)]
<1>1. Len(l) \in Nat \ {0} /\ 1 \in 1..Len(l) /\ Len(l) \in 0..Len(l)
  OBVIOUS
<1>2. Reducible(l, Len(l))
  BY <1>1, ReducibleAlways
<1>3. \A i \in Effective(l) : i <= Len(l)
  BY EffectiveTyped
<1>4. l[1].prev \in Stages
  BY <1>1, EffectiveTyped DEF Entries
<1>5. CASE Effective(l) = {}
  <2>1. p = NoProjection
    BY <1>2, <1>5 DEF Reducible
  <2>2. Replay(l) = Fresh(l[1].prev)
    BY <2>1 DEF Replay
  <2> QED BY <1>1, <1>4, <1>5, <2>2, FreshTyped, FreshSums
<1>6. CASE Effective(l) # {}
  <2>1. p \in Projections /\ Sums(p, l, Len(l))
    BY <1>2, <1>3, <1>6 DEF Reducible
  <2>2. Replay(l) = p
    BY <2>1, NoProjectionIsNone DEF Replay
  <2> QED BY <2>1, <2>2
<1> QED BY <1>5, <1>6

-----------------------------------------------------------------------------
(* OutcomeLedger: the projection rebuilt from the history *)

\* What an entry says agrees with itself, and a correction points back.
EntriesOK(l) ==
    \A i \in DOMAIN l :
        /\ l[i].type \in Stepping => l[i].new = l[i].type /\ (l[i].prev = l[i].new => l[i].type = "meeting")
        /\ l[i].type = "reverted" => l[i].reverts < i

\* An effective event of a stage goes on from the last one that moved the stage.
Follows(l) ==
    \A j \in Effective(l) : \A i \in Moves(l, j - 1) :
        l[j].type \in Stepping /\ IsLast(i, Moves(l, j - 1)) =>
            /\ l[j].prev = l[i].new
            /\ MovesStage(l[j]) => l[i].at <= l[j].at /\ l[i].new \notin {"won", "lost", "dismissed"}

\* The latest event of some types is the last one counted.
LEMMA LatestIsLast ==
    ASSUME NEW l \in Seq(Entries), NEW S
    PROVE  /\ Latest(l, S) \in 0..Len(l)
           /\ IsLast(Latest(l, S), Counted(l, Len(l), S))
           /\ Latest(l, S) # 0 => Latest(l, S) \in 1..Len(l) /\ l[Latest(l, S)] \in Entries
                                  /\ l[Latest(l, S)].type \in S
<1>1. Len(l) \in Nat /\ Counted(l, Len(l), S) \subseteq 1..Len(l)
  BY EffectiveTyped
<1>2. Counted(l, Len(l), S) = {i \in Effective(l) : l[i].type \in S}
  BY EffectiveTyped DEF Counted
<1>3. Latest(l, S) = Max({0} \cup Counted(l, Len(l), S))
  BY <1>2 DEF Latest
<1>4. Latest(l, S) \in 0..Len(l) /\ IsLast(Latest(l, S), Counted(l, Len(l), S))
  BY <1>1, <1>3, MaxIsLast
<1>5. ASSUME Latest(l, S) # 0 PROVE Latest(l, S) \in Counted(l, Len(l), S)
  BY <1>4, <1>5 DEF IsLast
<1> QED BY <1>1, <1>2, <1>4, <1>5, EffectiveTyped

\* The events that the script takes for moves are those the reducer moves the stage for.
LEMMA MovesAre ==
    ASSUME NEW l \in Seq(Entries), EntriesOK(l)
    PROVE  {i \in Effective(l) : l[i].type \in Stepping /\ l[i].prev # l[i].new} = Moves(l, Len(l))
<1>1. \A i \in Effective(l) : i <= Len(l) /\ i \in DOMAIN l
  BY EffectiveTyped
<1>2. \A i \in Effective(l) : MovesStage(l[i]) <=> l[i].type \in Stepping /\ l[i].prev # l[i].new
  BY <1>1 DEF EntriesOK, MovesStage
<1> QED BY <1>1, <1>2 DEF Moves

\* The last event of a stage has the stage of the last one that moved it.
LEMMA LastStageStands ==
    ASSUME NEW l \in Seq(Entries), EntriesOK(l), Follows(l),
           NEW m \in Moves(l, Len(l)), IsLast(m, Moves(l, Len(l))),
           NEW s \in Counted(l, Len(l), Stepping), IsLast(s, Counted(l, Len(l), Stepping))
    PROVE  l[s].new = l[m].new
<1>1. s \in Effective(l) /\ s \in 1..Len(l) /\ l[s].type \in Stepping /\ s \in DOMAIN l
  BY EffectiveTyped DEF Counted
<1>2. m \in Effective(l) /\ m \in 1..Len(l) /\ MovesStage(l[m])
  BY EffectiveTyped DEF Moves
<1>3. m <= s
  <2>1. m \in Counted(l, Len(l), Stepping)
    BY <1>2 DEF Counted, MovesStage
  <2> QED BY <2>1 DEF IsLast
<1>4. CASE m = s
  BY <1>4
<1>5. CASE m # s
  <2>1. s \notin Moves(l, Len(l))
    BY <1>1, <1>2, <1>3, <1>5 DEF IsLast
  <2>2. ~MovesStage(l[s])
    BY <1>1, <2>1 DEF Moves
  <2>3. m \in Moves(l, s - 1)
    BY <1>1, <1>2, <1>3, <1>5 DEF Moves
  <2>4. Moves(l, s - 1) \subseteq Moves(l, Len(l))
    BY <1>1, EffectiveTyped DEF Moves
  <2>5. IsLast(m, Moves(l, s - 1))
    BY <2>3, <2>4 DEF IsLast
  <2>6. l[s].prev = l[m].new
    BY <1>1, <2>3, <2>5 DEF Follows
  <2>7. l[s].new = "meeting" /\ l[s].prev = "meeting"
    BY <1>1, <2>2 DEF EntriesOK, MovesStage
  <2> QED BY <2>6, <2>7
<1> QED BY <1>4, <1>5

\* The script's projection sums the history up too.
LEMMA RebuiltSums ==
    ASSUME NEW l \in Seq(Entries), l # <<>>, EntriesOK(l), Follows(l)
    PROVE  Rebuilt(l) \in Projections /\ Sums(Rebuilt(l), l, Len(l))
<1> DEFINE n == Len(l)
           A == {"snoozed", "resumed"}
<1>1. PICK stage : stage = Latest(l, Stepping)
  OBVIOUS
<1>2. PICK stepped : stepped = Max({0} \cup Moves(l, n))
  OBVIOUS
<1>3. PICK flow : flow = Latest(l, A)
  OBVIOUS
<1>4. PICK met : met = Latest(l, Meetings)
  OBVIOUS
<1>5. PICK first : first = Latest(l, {"meeting"})
  OBVIOUS
<1>6. PICK tries : tries = Cardinality(Counted(l, n, {"meeting"}))
  OBVIOUS
<1> DEFINE asleep == flow # 0 /\ l[flow].type = "snoozed"
<1>7. PICK p : p =
        [stage |-> IF stage = 0 THEN l[1].prev ELSE l[stage].new,
         workflow |-> IF asleep THEN "snoozed" ELSE "active",
         until |-> IF asleep THEN l[flow].until ELSE 0,
         last |-> stepped,
         lastAt |-> IF stepped = 0 THEN 0 ELSE l[stepped].at,
         meeting |-> IF met = 0 THEN "none" ELSE IF l[met].type = "meeting" THEN "scheduled" ELSE l[met].type,
         meetingId |-> first,
         meetingAt |-> IF met = 0 THEN 0 ELSE l[met].at,
         attempts |-> tries]
  OBVIOUS
<1>8. p = Rebuilt(l)
  <2>1. stepped = Max({0} \cup {i \in Effective(l) : l[i].type \in Stepping /\ l[i].prev # l[i].new})
    BY <1>2, MovesAre
  <2>2. tries = Cardinality({i \in Effective(l) : l[i].type = "meeting"})
    <3>1. Counted(l, n, {"meeting"}) = {i \in Effective(l) : l[i].type = "meeting"}
      BY EffectiveTyped DEF Counted
    <3> QED BY <1>6, <3>1
  <2> QED BY <1>1, <1>3, <1>4, <1>5, <1>7, <2>1, <2>2 DEF Rebuilt
<1>9. n \in Nat /\ 1 \in 1..n /\ l[1] \in Entries
  OBVIOUS
<1>10. /\ stage \in 0..n /\ (stage # 0 => l[stage] \in Entries)
       /\ IsLast(stage, Counted(l, n, Stepping))
  BY <1>1, LatestIsLast
<1>11. /\ stepped \in 0..n /\ (stepped # 0 => l[stepped] \in Entries)
       /\ IsLast(stepped, Moves(l, n))
  <2>1. Moves(l, n) \subseteq 1..n
    BY EffectiveTyped
  <2>2. stepped \in 0..n /\ IsLast(stepped, Moves(l, n))
    BY <1>2, <1>9, <2>1, MaxIsLast
  <2> QED BY <2>2
<1>12. /\ flow \in 0..n /\ (flow # 0 => l[flow] \in Entries)
       /\ IsLast(flow, Counted(l, n, A))
  BY <1>3, LatestIsLast
<1>13. /\ met \in 0..n /\ (met # 0 => l[met] \in Entries /\ l[met].type \in Meetings)
       /\ IsLast(met, Counted(l, n, Meetings))
  BY <1>4, LatestIsLast
<1>14. first \in 0..n /\ IsLast(first, Counted(l, n, {"meeting"}))
  BY <1>5, LatestIsLast
<1>15. tries \in Nat
  <2>1. Counted(l, n, {"meeting"}) \subseteq 1..n
    BY EffectiveTyped
  <2>2. IsFiniteSet(Counted(l, n, {"meeting"}))
    <3>1. IsFiniteSet(1..n)
      BY <1>9, FS_Interval
    <3> QED BY <2>1, <3>1, FS_Subset
  <2> QED BY <1>6, <2>2, FS_CardinalityType
<1>16. p \in Projections
  <2>1. 0 \in Ticks /\ 0 \in 0..MaxTime + 1
    BY BoundsAreNatural DEF Ticks
  <2>2. p.stage \in Stages
    BY <1>7, <1>9, <1>10 DEF Entries
  <2>3. p.workflow \in {"active", "snoozed"} /\ p.until \in 0..MaxTime + 1
    BY <1>7, <1>12, <2>1 DEF Entries
  <2>4. p.last \in Nat /\ p.lastAt \in Ticks
    BY <1>7, <1>11, <2>1 DEF Entries
  <2>5. p.meeting \in {"none", "scheduled"} \cup Closing /\ p.meetingAt \in Ticks
    BY <1>7, <1>13, <2>1 DEF Entries, Meetings
  <2>6. p.meetingId \in Nat /\ p.attempts \in Nat
    BY <1>7, <1>14, <1>15
  <2> QED BY <1>7, <2>2, <2>3, <2>4, <2>5, <2>6 DEF Projections
<1>17. SumsMoves(p, l, n)
  <2>1. ASSUME stepped # 0 PROVE l[stage].new = l[stepped].new /\ stage # 0
    <3>1. stepped \in Moves(l, n)
      BY <1>11, <2>1 DEF IsLast
    <3>2. stepped \in Counted(l, n, Stepping) /\ stepped >= 1
      BY <3>1, EffectiveTyped DEF Moves, Counted, MovesStage
    <3>3. stage # 0
      BY <1>10, <3>2 DEF IsLast
    <3>4. stage \in Counted(l, n, Stepping)
      BY <1>10, <3>3 DEF IsLast
    <3> QED BY <1>10, <1>11, <3>1, <3>3, <3>4, LastStageStands
  <2>2. p.last = stepped /\ p.lastAt = (IF stepped = 0 THEN 0 ELSE l[stepped].at)
        /\ p.stage = (IF stage = 0 THEN l[1].prev ELSE l[stage].new)
    BY <1>7
  <2> QED BY <1>11, <2>1, <2>2 DEF SumsMoves
<1>18. SumsFlow(p, l, n)
  BY <1>7, <1>12 DEF SumsFlow
<1>19. SumsMeeting(p, l, n)
  BY <1>7, <1>13 DEF SumsMeeting
<1>20. SumsCount(p, l, n)
  BY <1>6, <1>7, <1>14 DEF SumsCount
<1> QED BY <1>8, <1>16, <1>17, <1>18, <1>19, <1>20 DEF Sums

\* Two projections that sum up the same history agree, except in the stage when nothing has moved it.
LEMMA SumsUnique ==
    ASSUME NEW l \in Seq(Entries), NEW p \in Projections, NEW q \in Projections,
           Sums(p, l, Len(l)), Sums(q, l, Len(l))
    PROVE  /\ p = [q EXCEPT !.stage = p.stage]
           /\ q.last # 0 => p.stage = q.stage
<1> DEFINE n == Len(l)
<1>1. n \in Nat /\ Moves(l, n) \subseteq 1..n /\ \A S : Counted(l, n, S) \subseteq 1..n
  BY EffectiveTyped
<1>2. p.last = q.last
  BY <1>1, LastIsOne DEF Sums, SumsMoves
<1>3. p.lastAt = q.lastAt /\ (q.last # 0 => p.stage = q.stage)
  BY <1>2 DEF Sums, SumsMoves
<1>4. p.workflow = q.workflow /\ p.until = q.until
  <2> DEFINE S == {"snoozed", "resumed"}
  <2>1. PICK i \in 0..n : /\ IsLast(i, Counted(l, n, S))
                          /\ IF i # 0 /\ l[i].type = "snoozed"
                             THEN p.workflow = "snoozed" /\ p.until = l[i].until
                             ELSE p.workflow = "active" /\ p.until = 0
    BY DEF Sums, SumsFlow
  <2>2. PICK j \in 0..n : /\ IsLast(j, Counted(l, n, S))
                          /\ IF j # 0 /\ l[j].type = "snoozed"
                             THEN q.workflow = "snoozed" /\ q.until = l[j].until
                             ELSE q.workflow = "active" /\ q.until = 0
    BY DEF Sums, SumsFlow
  <2>3. i = j
    BY <1>1, <2>1, <2>2, LastIsOne
  <2> QED BY <2>1, <2>2, <2>3
<1>5. p.meeting = q.meeting /\ p.meetingAt = q.meetingAt
  <2>1. PICK i \in 0..n :
          /\ IsLast(i, Counted(l, n, Meetings))
          /\ p.meeting = IF i = 0 THEN "none" ELSE IF l[i].type = "meeting" THEN "scheduled" ELSE l[i].type
          /\ p.meetingAt = IF i = 0 THEN 0 ELSE l[i].at
    BY DEF Sums, SumsMeeting
  <2>2. PICK j \in 0..n :
          /\ IsLast(j, Counted(l, n, Meetings))
          /\ q.meeting = IF j = 0 THEN "none" ELSE IF l[j].type = "meeting" THEN "scheduled" ELSE l[j].type
          /\ q.meetingAt = IF j = 0 THEN 0 ELSE l[j].at
    BY DEF Sums, SumsMeeting
  <2>3. i = j
    BY <1>1, <2>1, <2>2, LastIsOne
  <2> QED BY <2>1, <2>2, <2>3
<1>6. p.meetingId = q.meetingId /\ p.attempts = q.attempts
  BY <1>1, LastIsOne DEF Sums, SumsCount
<1> QED BY <1>2, <1>3, <1>4, <1>5, <1>6 DEF Projections

-----------------------------------------------------------------------------
(* OutcomeLedger: a history with one entry more *)

\* The entries of a history with one more.
LEMMA AppendIs ==
    ASSUME NEW l \in Seq(Entries), NEW e \in Entries
    PROVE  LET k == Append(l, e) IN
           /\ k \in Seq(Entries) /\ Len(k) = Len(l) + 1 /\ Len(l) \in Nat /\ k # <<>>
           /\ \A i \in 1..Len(l) : k[i] = l[i]
           /\ k[Len(l) + 1] = e
           /\ DOMAIN l = 1..Len(l) /\ DOMAIN k = 1..Len(l) \cup {Len(l) + 1}
OBVIOUS

\* An entry that is no correction counts, and leaves the others as they are.
LEMMA EffectiveAppend ==
    ASSUME NEW l \in Seq(Entries), NEW e \in Entries, EntriesOK(l), e.type # "reverted"
    PROVE  Effective(Append(l, e)) = Effective(l) \cup {Len(l) + 1}
<1> DEFINE n == Len(l)
<1>1. PICK k : k = Append(l, e)
  OBVIOUS
<1>2. /\ n \in Nat /\ k[n + 1] = e /\ \A i \in 1..n : k[i] = l[i]
      /\ DOMAIN l = 1..n /\ DOMAIN k = 1..n \cup {n + 1}
  BY <1>1, AppendIs
<1>3. \A i \in 1..n : Reverted(k, i) <=> Reverted(l, i)
  BY <1>2 DEF Reverted
<1>4. ~Reverted(k, n + 1)
  <2>1. ASSUME NEW j \in 1..n, l[j].type = "reverted", l[j].reverts = n + 1 PROVE FALSE
    <3>1. l[j].reverts < j
      BY <1>2, <2>1 DEF EntriesOK
    <3> QED BY <1>2, <2>1, <3>1
  <2> QED BY <1>2, <2>1 DEF Reverted
<1> HIDE DEF n
<1>5. Effective(k) = Effective(l) \cup {n + 1}
  BY <1>2, <1>3, <1>4 DEF Effective
<1> QED BY <1>1, <1>5 DEF n

\* A correction takes its target out of what counts.
LEMMA EffectiveRevert ==
    ASSUME NEW l \in Seq(Entries), NEW e \in Entries, e.type = "reverted"
    PROVE  Effective(Append(l, e)) = Effective(l) \ {e.reverts}
<1> DEFINE n == Len(l)
<1>1. PICK k : k = Append(l, e)
  OBVIOUS
<1>2. /\ n \in Nat /\ k[n + 1] = e /\ \A i \in 1..n : k[i] = l[i]
      /\ DOMAIN l = 1..n /\ DOMAIN k = 1..n \cup {n + 1}
  BY <1>1, AppendIs
<1>3. \A i \in 1..n : Reverted(k, i) <=> Reverted(l, i) \/ i = e.reverts
  BY <1>2 DEF Reverted
<1> HIDE DEF n
<1>4. Effective(k) = Effective(l) \ {e.reverts}
  BY <1>2, <1>3 DEF Effective
<1> QED BY <1>1, <1>4 DEF n

\* What is counted of the earlier events stays.
LEMMA CountedAppend ==
    ASSUME NEW l \in Seq(Entries), NEW e \in Entries, EntriesOK(l), e.type # "reverted",
           NEW n \in Int, n <= Len(l)
    PROVE  /\ \A S : Counted(Append(l, e), n, S) = Counted(l, n, S)
           /\ Moves(Append(l, e), n) = Moves(l, n)
<1>1. PICK k : k = Append(l, e)
  OBVIOUS
<1>2. Len(l) \in Nat /\ \A i \in 1..Len(l) : k[i] = l[i]
  BY <1>1, AppendIs
<1>3. Effective(k) = Effective(l) \cup {Len(l) + 1} /\ Effective(l) \subseteq 1..Len(l)
  BY <1>1, EffectiveAppend, EffectiveTyped
<1>4. (\A S : Counted(k, n, S) = Counted(l, n, S)) /\ Moves(k, n) = Moves(l, n)
  BY <1>2, <1>3 DEF Counted, Moves
<1> QED BY <1>1, <1>4

\* A projection still sums up what came before the entry.
LEMMA SumsAppend ==
    ASSUME NEW l \in Seq(Entries), NEW e \in Entries, EntriesOK(l), e.type # "reverted",
           NEW p, Sums(p, l, Len(l))
    PROVE  Sums(p, Append(l, e), Len(l))
<1> DEFINE n == Len(l)
<1>1. PICK k : k = Append(l, e)
  OBVIOUS
<1>2. n \in Nat /\ \A i \in 1..n : k[i] = l[i]
  BY <1>1, AppendIs
<1>3. (\A S : Counted(k, n, S) = Counted(l, n, S)) /\ Moves(k, n) = Moves(l, n)
  BY <1>1, <1>2, CountedAppend
<1>4. Moves(l, n) \subseteq 1..n
  BY EffectiveTyped
<1> HIDE DEF n
<1>5. SumsMoves(p, k, n)
  <2>1. SumsMoves(p, l, n)
    BY DEF Sums, n
  <2>2. p.last # 0 => p.last \in 1..n
    BY <1>4, <2>1 DEF SumsMoves, IsLast
  <2> QED BY <1>2, <1>3, <2>1, <2>2 DEF SumsMoves
<1>6. SumsFlow(p, k, n)
  <2>1. SumsFlow(p, l, n)
    BY DEF Sums, n
  <2>2. \A i \in 0..n : i # 0 => k[i] = l[i]
    BY <1>2
  <2> QED BY <1>3, <2>1, <2>2 DEF SumsFlow
<1>7. SumsMeeting(p, k, n)
  <2>1. SumsMeeting(p, l, n)
    BY DEF Sums, n
  <2>2. \A i \in 0..n : i # 0 => k[i] = l[i]
    BY <1>2
  <2> QED BY <1>3, <2>1, <2>2 DEF SumsMeeting
<1>8. SumsCount(p, k, n)
  BY <1>3 DEF Sums, SumsCount, n
<1> QED BY <1>1, <1>5, <1>6, <1>7, <1>8 DEF Sums, n

\* The projection with the new event sums up the new history.
LEMMA ReducedAppend ==
    ASSUME NEW l \in Seq(Entries), NEW e \in Entries, EntriesOK(l), e.type # "reverted", NEW p,
           IF l = <<>> THEN p = NoProjection ELSE p \in Projections /\ Sums(p, l, Len(l))
    PROVE  LET q == Reduced(p, e, Len(l) + 1) IN
           q \in Projections /\ Sums(q, Append(l, e), Len(l) + 1)
<1> DEFINE n == Len(l)
<1>1. PICK k : k = Append(l, e)
  OBVIOUS
<1>2. k \in Seq(Entries) /\ n \in Nat /\ k[n + 1] = e /\ n + 1 \in Effective(k)
  BY <1>1, AppendIs, EffectiveAppend
<1>3. PICK q \in Projections : Sums(q, k, n) /\ Reduced(p, e, n + 1) = Reduced(q, e, n + 1)
  <2>1. CASE l = <<>>
    <3>1. n = 0 /\ e.prev \in Stages /\ n + 1 \in Nat
      BY <2>1 DEF Entries
    <3>2. \A i \in Effective(k) : ~(i <= n)
      BY <1>2, <3>1, EffectiveTyped
    <3>3. Fresh(e.prev) \in Projections /\ Sums(Fresh(e.prev), k, n)
      BY <1>2, <3>1, <3>2, FreshTyped, FreshSums
    <3>4. Reduced(p, e, n + 1) = Reduced(Fresh(e.prev), e, n + 1)
      BY <2>1, <3>1, ReducedFirst
    <3> QED BY <3>3, <3>4
  <2>2. CASE l # <<>>
    BY <1>1, <2>2, SumsAppend
  <2> QED BY <2>1, <2>2
<1> HIDE DEF n
<1>4. Reduced(q, e, n + 1) \in Projections /\ Sums(Reduced(q, e, n + 1), k, n + 1)
  BY <1>2, <1>3, ReducedSums
<1> QED BY <1>1, <1>3, <1>4 DEF n

\* The entries agree with themselves still.
LEMMA EntriesAppend ==
    ASSUME NEW l \in Seq(Entries), NEW e \in Entries, EntriesOK(l),
           e.type \in Stepping => e.new = e.type /\ (e.prev = e.new => e.type = "meeting"),
           e.type = "reverted" => e.reverts <= Len(l)
    PROVE  EntriesOK(Append(l, e))
<1>1. PICK k : k = Append(l, e)
  OBVIOUS
<1>2. /\ Len(l) \in Nat /\ k[Len(l) + 1] = e /\ \A i \in 1..Len(l) : k[i] = l[i]
      /\ DOMAIN l = 1..Len(l) /\ DOMAIN k = 1..Len(l) \cup {Len(l) + 1}
  BY <1>1, AppendIs
<1>3. e.reverts \in Nat
  BY DEF Entries
<1>4. ASSUME NEW i \in 1..Len(l)
      PROVE  /\ k[i].type \in Stepping => k[i].new = k[i].type /\ (k[i].prev = k[i].new => k[i].type = "meeting")
             /\ k[i].type = "reverted" => k[i].reverts < i
  BY <1>2 DEF EntriesOK
<1>5. /\ k[Len(l) + 1].type \in Stepping =>
            /\ k[Len(l) + 1].new = k[Len(l) + 1].type
            /\ k[Len(l) + 1].prev = k[Len(l) + 1].new => k[Len(l) + 1].type = "meeting"
      /\ k[Len(l) + 1].type = "reverted" => k[Len(l) + 1].reverts < Len(l) + 1
  BY <1>2, <1>3
<1>6. EntriesOK(k)
  BY <1>2, <1>4, <1>5 DEF EntriesOK
<1> QED BY <1>1, <1>6

\* The history goes on from where it was.
LEMMA FollowsAppend ==
    ASSUME NEW l \in Seq(Entries), NEW e \in Entries, EntriesOK(l), Follows(l), e.type # "reverted",
           \A i \in Moves(l, Len(l)) : e.type \in Stepping /\ IsLast(i, Moves(l, Len(l))) =>
               /\ e.prev = l[i].new
               /\ MovesStage(e) => l[i].at <= e.at /\ l[i].new \notin {"won", "lost", "dismissed"}
    PROVE  Follows(Append(l, e))
<1> DEFINE n == Len(l)
<1>1. PICK k : k = Append(l, e)
  OBVIOUS
<1>2. n \in Nat /\ k[n + 1] = e /\ \A i \in 1..n : k[i] = l[i]
  BY <1>1, AppendIs
<1>3. Effective(k) = Effective(l) \cup {n + 1}
  BY <1>1, EffectiveAppend
<1>4. ASSUME NEW j \in Effective(k)
      PROVE  /\ j = n + 1 \/ (j \in Effective(l) /\ j \in 1..n /\ k[j] = l[j])
             /\ Moves(k, j - 1) = Moves(l, j - 1)
             /\ \A i \in Moves(k, j - 1) : k[i] = l[i]
  <2>1. j = n + 1 \/ (j \in Effective(l) /\ j \in 1..n /\ k[j] = l[j])
    BY <1>2, <1>3, EffectiveTyped
  <2>2. j - 1 \in Int /\ j - 1 <= n
    BY <1>2, <2>1
  <2>3. Moves(k, j - 1) = Moves(l, j - 1)
    BY <1>1, <2>2, CountedAppend
  <2>4. \A i \in Moves(k, j - 1) : k[i] = l[i]
    BY <1>2, <2>3, EffectiveTyped
  <2> QED BY <2>1, <2>3, <2>4
<1>5. SUFFICES ASSUME NEW j \in Effective(k), NEW i \in Moves(k, j - 1),
                      k[j].type \in Stepping, IsLast(i, Moves(k, j - 1))
               PROVE  /\ k[j].prev = k[i].new
                      /\ MovesStage(k[j]) => k[i].at <= k[j].at /\ k[i].new \notin {"won", "lost", "dismissed"}
  BY <1>1 DEF Follows
<1>6. k[i] = l[i] /\ i \in Moves(l, j - 1) /\ IsLast(i, Moves(l, j - 1))
  BY <1>4, <1>5
<1>7. CASE j = n + 1
  <2>1. j - 1 = n
    BY <1>2, <1>7
  <2> QED BY <1>2, <1>5, <1>6, <1>7, <2>1
<1>8. CASE j \in Effective(l) /\ k[j] = l[j]
  BY <1>5, <1>6, <1>8 DEF Follows
<1> QED BY <1>4, <1>7, <1>8

\* Without the latest commercial event, the rest of the history is as it was.
LEMMA FollowsRevert ==
    ASSUME NEW l \in Seq(Entries), NEW e \in Entries, Follows(l), e.type = "reverted",
           e.reverts \in Effective(l), \A i \in Effective(l) : l[i].type \in Commercial => i <= e.reverts
    PROVE  Follows(Append(l, e))
<1> DEFINE n == Len(l)
           t == e.reverts
<1>1. PICK k : k = Append(l, e)
  OBVIOUS
<1>2. n \in Nat /\ \A i \in 1..n : k[i] = l[i]
  BY <1>1, AppendIs
<1>3. Effective(k) = Effective(l) \ {t} /\ Effective(l) \subseteq 1..n
  BY <1>1, EffectiveRevert, EffectiveTyped
<1>4. SUFFICES ASSUME NEW j \in Effective(k), NEW i \in Moves(k, j - 1),
                      k[j].type \in Stepping, IsLast(i, Moves(k, j - 1))
               PROVE  /\ k[j].prev = k[i].new
                      /\ MovesStage(k[j]) => k[i].at <= k[j].at /\ k[i].new \notin {"won", "lost", "dismissed"}
  BY <1>1 DEF Follows
<1>5. j \in Effective(l) /\ j \in 1..n /\ t \in 1..n /\ k[j] = l[j] /\ j # t
  BY <1>2, <1>3
<1>6. j <= t
  BY <1>4, <1>5 DEF Commercial
<1> HIDE DEF t
<1>7. Moves(k, j - 1) = Moves(l, j - 1)
  BY <1>2, <1>3, <1>5, <1>6 DEF Moves
<1>8. k[i] = l[i]
  BY <1>2, <1>3 DEF Moves
<1> QED BY <1>4, <1>5, <1>7, <1>8 DEF Follows

-----------------------------------------------------------------------------
(* OutcomeLedger: recording an event *)

\* The rows of the tables.  A row of the episode has a status.
OpportunityRows == [life : {"absent", "current", "superseded"}, status : Statuses,
                    until : 0..MaxTime + 1, valid : Ticks]
Episodes == {NoEpisode} \cup [status : Decided \cup {"snoozed"}, until : 0..MaxTime + 1]
LedgerRows ==
    /\ opp \in [Versions -> OpportunityRows]
    /\ episode \in Episodes
    /\ hiring \in BOOLEAN
    /\ job \in [due : [Versions -> 0..MaxTime + 1], asleep : SUBSET Versions]
    /\ now \in Ticks

\* A history l and its projection p: the entries agree with themselves and with one another, and the
\* projection sums them up.
HistoryOf(l, p) ==
    /\ EntriesOK(l)
    /\ Follows(l)
    /\ IF l = <<>> THEN p = NoProjection ELSE p \in Projections /\ Sums(p, l, Len(l))
Histories ==
    /\ events \in [Versions -> Seq(Entries)]
    /\ proj \in [Versions -> Projections \cup {NoProjection}]
    /\ \A v \in Versions : Len(events[v]) <= MaxEvents[v] /\ HistoryOf(events[v], proj[v])
HistoryInv == LedgerRows /\ Histories

\* What may be corrected is effective, and the latest commercial event.
LEMMA CorrectableIs ==
    ASSUME Histories, NEW v \in Versions, NEW t \in Correctable(v)
    PROVE  /\ t \in Effective(events[v]) /\ t \in 1..Len(events[v]) /\ t \in Nat
           /\ events[v][t] \in Entries /\ events[v][t].type \in Commercial
           /\ \A i \in Effective(events[v]) : events[v][i].type \in Commercial => i <= t
<1>1. PICK l \in Seq(Entries) : l = events[v]
  BY DEF Histories
<1>2. t = Latest(l, Commercial) /\ t # 0
  BY <1>1 DEF Correctable
<1>3. /\ IsLast(t, Counted(l, Len(l), Commercial))
      /\ t \in 1..Len(l) /\ l[t] \in Entries /\ l[t].type \in Commercial
  BY <1>2, LatestIsLast
<1>4. t \in Effective(l)
  BY <1>2, <1>3 DEF IsLast, Counted
<1>5. \A i \in Effective(l) : l[i].type \in Commercial => i \in Counted(l, Len(l), Commercial)
  BY EffectiveTyped DEF Counted
<1>6. \A i \in Effective(l) : l[i].type \in Commercial => i <= t
  BY <1>3, <1>5 DEF IsLast
<1> QED BY <1>1, <1>3, <1>4, <1>6

\* The stage of an opportunity that takes an event.
LEMMA StageIs ==
    ASSUME LedgerRows, Histories, NEW v \in Versions, StageOf(v) # "none"
    PROVE  /\ StageOf(v) \in Stages
           /\ events[v] # <<>> => /\ proj[v] \in Projections /\ Sums(proj[v], events[v], Len(events[v]))
                                  /\ StageOf(v) = proj[v].stage /\ LastAt(v) = proj[v].lastAt
<1>1. HistoryOf(events[v], proj[v]) /\ proj[v] \in Projections \cup {NoProjection}
  BY DEF Histories
<1>2. CASE proj[v] = NoProjection
  <2>1. events[v] = <<>>
    BY <1>1, <1>2, NoProjectionIsNone DEF HistoryOf
  <2>2. StageOf(v) \in Stages
    BY <1>2 DEF StageOf, Stages
  <2> QED BY <2>1, <2>2
<1>3. CASE proj[v] # NoProjection
  <2>1. proj[v] \in Projections /\ StageOf(v) = proj[v].stage /\ LastAt(v) = proj[v].lastAt
    BY <1>1, <1>3 DEF StageOf, LastAt
  <2>2. proj[v].stage \in Stages
    BY <2>1 DEF Projections
  <2>3. events[v] # <<>> => Sums(proj[v], events[v], Len(events[v]))
    BY <1>1 DEF HistoryOf
  <2> QED BY <2>1, <2>2, <2>3
<1> QED BY <1>2, <1>3

\* What an event of a stage says of the stage before it.
LEMMA AllowedIs ==
    ASSUME NEW v, NEW type \in Stepping, Allowed(v, type)
    PROVE  StageOf(v) = type => type = "meeting"
BY DEF Allowed, NextStages, Stepping, Stages, Closing

\* None follows an end.
LEMMA AllowedBefore ==
    ASSUME NEW v, NEW type \in Stepping, Allowed(v, type)
    PROVE  StageOf(v) \notin {"won", "lost", "dismissed"}
BY DEF Allowed, NextStages, Stepping, Stages, Closing

\* The entry that is inserted.
LEMMA EntryIs ==
    ASSUME LedgerRows, Histories, NEW v \in Versions, NEW e \in Entries, Accepts(v, e)
    PROVE  LET f == Entry(v, e) IN
           /\ f \in Entries /\ f.type = e.type /\ f.at = e.at /\ f.reverts = e.reverts /\ f.woke = e.woke
           /\ f.prev = StageOf(v)
           /\ e.type \in Stepping => f.new = e.type
<1>1. StageOf(v) \in Stages
  BY StageIs DEF Accepts
<1>2. e.type \in Stepping => NewStage(v, e) = e.type /\ e.type \in Stages
  BY DEF NewStage, Stepping, Stages
<1>3. e.type \notin Stepping => NewStage(v, e) \in Stages
  <2>1. CASE e.type = "reverted"
    <3>1. e.reverts \in Correctable(v)
      BY <2>1 DEF Accepts
    <3>2. events[v][e.reverts].prev \in Stages
      BY <3>1, CorrectableIs DEF Entries
    <3> QED BY <1>1, <2>1, <3>2 DEF NewStage, Stepping, Stages
  <2>2. CASE e.type # "reverted"
    BY <1>1, <2>2 DEF NewStage
  <2> QED BY <2>1, <2>2
<1>4. PICK s : s = NewStage(v, e)
  OBVIOUS
<1>5. PICK b : b = StageOf(v)
  OBVIOUS
<1>6. s \in Stages /\ b \in Stages
  BY <1>1, <1>2, <1>3, <1>4, <1>5
<1>7. PICK f : f = [e EXCEPT !.prev = b, !.new = s]
  OBVIOUS
<1>8. f \in Entries /\ f.type = e.type /\ f.at = e.at /\ f.reverts = e.reverts /\ f.woke = e.woke
      /\ f.prev = b /\ f.new = s
  BY <1>6, <1>7 DEF Entries
<1>9. f = Entry(v, e)
  BY <1>4, <1>5, <1>7 DEF Entry
<1> QED BY <1>2, <1>4, <1>5, <1>8, <1>9

\* An accepted event and its projection continue the history.
LEMMA AcceptedHistory ==
    ASSUME LedgerRows, Histories, NEW v \in Versions, NEW e \in Entries, Accepts(v, e)
    PROVE  /\ Append(events[v], Entry(v, e)) \in Seq(Entries)
           /\ Projected(v, e) \in Projections
           /\ HistoryOf(Append(events[v], Entry(v, e)), Projected(v, e))
<1>1. PICK l \in Seq(Entries) : l = events[v]
  BY DEF Histories
<1>2. EntriesOK(l) /\ Follows(l)
      /\ IF l = <<>> THEN proj[v] = NoProjection ELSE proj[v] \in Projections /\ Sums(proj[v], l, Len(l))
  BY <1>1 DEF Histories, HistoryOf
<1>3. PICK f \in Entries : f = Entry(v, e)
  BY EntryIs
<1>4. f.type = e.type /\ f.at = e.at /\ f.reverts = e.reverts /\ f.prev = StageOf(v)
      /\ (e.type \in Stepping => f.new = e.type)
  BY <1>3, EntryIs
<1>5. PICK k : k = Append(l, f)
  OBVIOUS
<1>6. k \in Seq(Entries) /\ Len(k) = Len(l) + 1 /\ k # <<>>
  BY <1>5, AppendIs
<1>7. EntriesOK(k)
  <2>1. f.type \in Stepping => f.new = f.type /\ (f.prev = f.new => f.type = "meeting")
    BY <1>4, AllowedIs DEF Accepts, Stepping, Stages
  <2>2. f.type = "reverted" => f.reverts <= Len(l)
    <3>1. f.type = "reverted" => f.reverts \in Correctable(v)
      BY <1>4 DEF Accepts
    <3> QED BY <1>1, <3>1, CorrectableIs
  <2> QED BY <1>2, <1>5, <2>1, <2>2, EntriesAppend
<1>8. CASE e.type = "reverted"
  <2>1. f.reverts \in Correctable(v)
    BY <1>4, <1>8 DEF Accepts
  <2>2. f.reverts \in Effective(l) /\ \A i \in Effective(l) : l[i].type \in Commercial => i <= f.reverts
    BY <1>1, <2>1, CorrectableIs
  <2>3. Follows(k)
    BY <1>2, <1>4, <1>5, <1>8, <2>2, FollowsRevert
  <2>4. Projected(v, e) = Replay(k)
    BY <1>1, <1>3, <1>5, <1>8 DEF Projected
  <2>5. Replay(k) \in Projections /\ Sums(Replay(k), k, Len(k))
    BY <1>6, ReplaySums
  <2> QED BY <1>1, <1>3, <1>5, <1>6, <1>7, <2>3, <2>4, <2>5 DEF HistoryOf
<1>9. CASE e.type # "reverted"
  <2>1. ASSUME NEW i \in Moves(l, Len(l)), f.type \in Stepping, IsLast(i, Moves(l, Len(l)))
        PROVE  /\ f.prev = l[i].new
               /\ MovesStage(f) => l[i].at <= f.at /\ l[i].new \notin {"won", "lost", "dismissed"}
    <3>1. i \in 1..Len(l) /\ l # <<>> /\ Moves(l, Len(l)) \subseteq 1..Len(l) /\ Len(l) \in Nat
      BY EffectiveTyped
    <3>2. /\ Sums(proj[v], l, Len(l))
          /\ StageOf(v) = proj[v].stage /\ LastAt(v) = proj[v].lastAt
      BY <1>1, <3>1, StageIs DEF Accepts
    <3>3. i = proj[v].last
      BY <2>1, <3>1, <3>2, LastIsOne DEF Sums, SumsMoves
    <3>4. i # 0
      BY <3>1
    <3>5. proj[v].stage = l[i].new /\ proj[v].lastAt = l[i].at
      BY <3>2, <3>3, <3>4 DEF Sums, SumsMoves
    <3>6. LastAt(v) <= f.at
      BY <1>4, <2>1 DEF Accepts
    <3>7. StageOf(v) \notin {"won", "lost", "dismissed"}
      BY <1>4, <2>1, AllowedBefore DEF Accepts
    <3> QED BY <1>4, <3>2, <3>5, <3>6, <3>7
  <2>2. Follows(k)
    BY <1>2, <1>4, <1>5, <1>9, <2>1, FollowsAppend
  <2>3. Projected(v, e) = Reduced(proj[v], f, Len(l) + 1)
    BY <1>1, <1>3, <1>9 DEF Projected
  <2>4. Reduced(proj[v], f, Len(l) + 1) \in Projections /\ Sums(Reduced(proj[v], f, Len(l) + 1), k, Len(l) + 1)
    BY <1>2, <1>4, <1>5, <1>9, ReducedAppend
  <2> QED BY <1>1, <1>3, <1>5, <1>6, <1>7, <2>2, <2>3, <2>4 DEF HistoryOf
<1> QED BY <1>8, <1>9

\* The older status that is kept along with a projection.
LEMMA KeptIs ==
    ASSUME NEW p \in Projections
    PROVE  /\ Kept(p).status \in Decided \cup {"new", "snoozed"}
           /\ Kept(p).until \in 0..MaxTime + 1
           /\ Kept(p) = [status |-> Kept(p).status, until |-> Kept(p).until]
BY DEF Kept, Legacy, Projections, Decided

\* An event that is taken leaves the histories in order.
LEMMA TakesHistories ==
    ASSUME LedgerRows, Histories, NEW v \in Versions, NEW e \in Entries, HasRoom(v),
           NEW p, p = Projected(v, e), Takes(v, e, p)
    PROVE  /\ Histories'
           /\ p \in Projections
           /\ episode' \in Episodes
<1>1. PICK k : k = Append(events[v], Entry(v, e))
  OBVIOUS
<1>2. k \in Seq(Entries) /\ p \in Projections /\ HistoryOf(k, p)
  BY <1>1, AcceptedHistory DEF Takes
<1>3. events' = [events EXCEPT ![v] = k] /\ proj' = [proj EXCEPT ![v] = p]
  BY <1>1 DEF Takes, Histories
<1>4. Len(k) <= MaxEvents[v]
  <2>1. Len(k) = Len(events[v]) + 1 /\ Len(events[v]) \in Nat
    BY <1>1, EntryIs, AppendIs DEF Takes, Histories
  <2>2. Len(events[v]) < MaxEvents[v] /\ MaxEvents[v] \in Nat
    BY BoundsAreNatural DEF HasRoom
  <2> QED BY <2>1, <2>2
<1>5. Histories'
  <2>1. events' \in [Versions -> Seq(Entries)] /\ proj' \in [Versions -> Projections \cup {NoProjection}]
    BY <1>2, <1>3 DEF Histories
  <2>2. ASSUME NEW u \in Versions PROVE Len(events'[u]) <= MaxEvents[u] /\ HistoryOf(events'[u], proj'[u])
    <3>1. events'[u] = (IF u = v THEN k ELSE events[u]) /\ proj'[u] = (IF u = v THEN p ELSE proj[u])
      BY <1>3 DEF Histories
    <3> QED BY <1>2, <1>4, <3>1 DEF Histories
  <2> QED BY <2>1, <2>2 DEF Histories
<1>6. episode' \in Episodes
  <2>1. episode' = IF e.type \in Closing \cup {"shown"} THEN episode
                   ELSE IF Kept(p).status = "new" THEN NoEpisode ELSE Kept(p)
    BY DEF Takes
  <2>2. Kept(p).status # "new" => Kept(p) \in [status : Decided \cup {"snoozed"}, until : 0..MaxTime + 1]
    BY <1>2, KeptIs
  <2> QED BY <2>1, <2>2 DEF LedgerRows, Episodes
<1> QED BY <1>2, <1>5, <1>6

-----------------------------------------------------------------------------
(* OutcomeLedger: every step *)

\* The jobs' and the users' events, as they come in.
LEMMA EventTyped ==
    ASSUME NEW type \in Types, NEW at \in Ticks
    PROVE  /\ Event(type, at) \in Entries
           /\ \A until \in 0..MaxTime + 1 : /\ [Event(type, at) EXCEPT !.until = until] \in Entries
                                            /\ [Event(type, at) EXCEPT !.woke = until] \in Entries
           /\ \A target \in Nat : [Event(type, at) EXCEPT !.reverts = target] \in Entries
<1>1. 0 \in 0..MaxTime + 1 /\ "new" \in Stages
  BY BoundsAreNatural DEF Stages
<1> QED BY <1>1 DEF Event, Entries

\* A row with the status that a projection stands for.
LEMMA WithStatusTyped ==
    ASSUME LedgerRows, NEW v \in Versions, NEW e, NEW p \in Projections, opp' = WithStatus(v, e, p)
    PROVE  opp' \in [Versions -> OpportunityRows]
<1>1. PICK s : s = Kept(p).status
  OBVIOUS
<1>2. PICK t : t = Kept(p).until
  OBVIOUS
<1>3. s \in Statuses /\ t \in 0..MaxTime + 1
  BY <1>1, <1>2, KeptIs DEF Statuses
<1>4. opp' = opp \/ opp' = [opp EXCEPT ![v].status = s, ![v].until = t]
  BY <1>1, <1>2 DEF WithStatus
<1>5. opp \in [Versions -> OpportunityRows]
  BY DEF LedgerRows
<1>6. CASE opp' = opp
  BY <1>5, <1>6
<1>7. CASE opp' = [opp EXCEPT ![v].status = s, ![v].until = t]
  <2>1. opp' = [opp EXCEPT ![v] = [opp[v] EXCEPT !.status = s, !.until = t]]
    BY <1>5, <1>7
  <2>2. [opp[v] EXCEPT !.status = s, !.until = t] \in OpportunityRows
    BY <1>3, <1>5 DEF OpportunityRows
  <2> QED BY <1>5, <2>1, <2>2
<1> QED BY <1>4, <1>6, <1>7

\* An event of a user.
LEMMA RecordsHistories ==
    ASSUME LedgerRows, Histories, NEW v \in Versions, NEW e \in Entries, Records(v, e)
    PROVE  LedgerRows' /\ Histories'
<1>1. PICK p : p = Projected(v, e)
  OBVIOUS
<1>2. HasRoom(v) /\ Takes(v, e, p) /\ opp' = WithStatus(v, e, p) /\ UNCHANGED <<hiring, job, now>>
  BY <1>1 DEF Records
<1>3. Histories' /\ p \in Projections /\ episode' \in Episodes
  BY <1>1, <1>2, TakesHistories
<1> QED BY <1>2, <1>3, WithStatusTyped DEF LedgerRows

\* The row of the episode as a build takes it.
LEMMA EpisodeOfTyped ==
    ASSUME LedgerRows, NEW v \in Versions
    PROVE  /\ EpisodeOf(v) \in Episodes
           /\ EpisodeOf(v).until \in 0..MaxTime + 1
           /\ EpisodeOf(v) # NoEpisode => EpisodeOf(v).status \in Decided \cup {"snoozed"}
<1>1. 0 \in 0..MaxTime + 1
  BY BoundsAreNatural
<1>2. EpisodeOf(v) \in Episodes
  BY DEF EpisodeOf, Episodes, LedgerRows, OpportunityRows
<1> QED BY <1>1, <1>2 DEF Episodes, NoEpisode

\* What a build stores.
LEMMA StoresTyped ==
    ASSUME LedgerRows, NEW x \in Versions, NEW kept, NEW valid \in Ticks, Stores(x, kept, valid),
           kept.status \in Statuses, kept.until \in 0..MaxTime + 1
    PROVE  opp' \in [Versions -> OpportunityRows]
<1>1. 0 \in Ticks /\ 0 \in 0..MaxTime + 1 /\ "new" \in Statuses
  BY BoundsAreNatural DEF Ticks, Statuses
<1>2. [life |-> "current", status |-> kept.status, until |-> kept.until, valid |-> valid] \in OpportunityRows
  BY DEF OpportunityRows
<1>3. [Unbuilt EXCEPT !.life = "superseded"] \in OpportunityRows
  BY <1>1 DEF Unbuilt, OpportunityRows
<1>4. \A v \in Versions : opp[v] \in OpportunityRows
  BY DEF LedgerRows
<1>5. opp' = [v \in Versions |->
                IF v = x THEN [life |-> "current", status |-> kept.status, until |-> kept.until, valid |-> valid]
                ELSE IF Current(v) THEN [Unbuilt EXCEPT !.life = "superseded"] ELSE opp[v]]
  BY DEF Stores
<1> QED BY <1>2, <1>3, <1>4, <1>5

\* A build that finds nothing asleep.
LEMMA BuildHistories ==
    ASSUME LedgerRows, Histories, NEW x \in Versions, NEW v \in Versions, NEW valid \in Ticks, Build(x, v, valid)
    PROVE  LedgerRows' /\ Histories'
<1>1. PICK score \in {"new", "dismissed"} : Stores(x, Preserved(v, score), valid)
  BY DEF Build
<1>2. PICK kept : kept = Preserved(v, score)
  OBVIOUS
<1>3. kept.status \in Statuses /\ kept.until \in 0..MaxTime + 1
  <2>1. CASE EpisodeOf(v) # NoEpisode
    BY <1>2, <2>1, EpisodeOfTyped DEF Preserved, Statuses
  <2>2. CASE EpisodeOf(v) = NoEpisode
    <3>1. 0 \in 0..MaxTime + 1
      BY BoundsAreNatural
    <3> QED BY <1>2, <2>2, <3>1 DEF Preserved, Statuses, Decided
  <2> QED BY <2>1, <2>2
<1>4. opp' \in [Versions -> OpportunityRows]
  BY <1>1, <1>2, <1>3, StoresTyped
<1>5. episode' \in Episodes /\ UNCHANGED <<events, proj, hiring, job, now>>
  BY EpisodeOfTyped DEF Build
<1> QED BY <1>4, <1>5 DEF LedgerRows, Histories

\* The event that ends a snooze.
LEMMA WakesTyped ==
    ASSUME LedgerRows, NEW until \in 0..MaxTime + 1
    PROVE  Wakes(until) \in Entries
BY EventTyped DEF Wakes, LedgerRows, Types

\* A build that ends a snooze first.
LEMMA BuildAwakeHistories ==
    ASSUME LedgerRows, Histories, NEW x \in Versions, NEW v \in Versions, NEW valid \in Ticks,
           BuildAwake(x, v, valid)
    PROVE  LedgerRows' /\ Histories'
<1>1. PICK e : e = Wakes(EpisodeOf(v).until)
  OBVIOUS
<1>2. PICK p : p = Projected(v, e)
  OBVIOUS
<1>3. HasRoom(v) /\ Takes(v, e, p) /\ Stores(x, Kept(p), valid) /\ UNCHANGED <<hiring, job, now>>
  BY <1>1, <1>2 DEF BuildAwake
<1>4. e \in Entries
  BY <1>1, EpisodeOfTyped, WakesTyped
<1>5. Histories' /\ p \in Projections /\ episode' \in Episodes
  BY <1>2, <1>3, <1>4, TakesHistories
<1>6. Kept(p).status \in Statuses /\ Kept(p).until \in 0..MaxTime + 1
  BY <1>5, KeptIs DEF Statuses
<1>7. opp' \in [Versions -> OpportunityRows]
  BY <1>3, <1>6, StoresTyped
<1> QED BY <1>3, <1>5, <1>7 DEF LedgerRows

\* The expiry job: it looks,
LEMMA LookHistories ==
    ASSUME LedgerRows, Histories, ExpireLook
    PROVE  LedgerRows' /\ Histories'
<1>1. PICK due : due = [v \in Versions |-> IF IsDue(v) THEN DeadlineOf(v) ELSE 0]
  OBVIOUS
<1>2. PICK asleep : asleep = {v \in Versions : Current(v) /\ proj[v] # NoProjection /\ proj[v].workflow = "snoozed"}
  OBVIOUS
<1>3. job' = [due |-> due, asleep |-> asleep] /\ UNCHANGED <<opp, events, proj, episode, hiring, now>>
  BY <1>1, <1>2 DEF ExpireLook
<1>4. \A v \in Versions : DeadlineOf(v) \in 0..MaxTime + 1
  BY DEF DeadlineOf, LedgerRows, OpportunityRows, Histories, Projections
<1>5. 0 \in 0..MaxTime + 1
  BY BoundsAreNatural
<1>6. due \in [Versions -> 0..MaxTime + 1] /\ asleep \in SUBSET Versions
  BY <1>1, <1>2, <1>4, <1>5
<1> QED BY <1>3, <1>6 DEF LedgerRows, Histories

\* what it remembers when it has nothing to do,
LEMMA NoJobTyped == NoJob \in [due : [Versions -> 0..MaxTime + 1], asleep : SUBSET Versions]
<1>1. 0 \in 0..MaxTime + 1
  BY BoundsAreNatural
<1> QED BY <1>1 DEF NoJob

\* it wakes what was due,
LEMMA WakeHistories ==
    ASSUME LedgerRows, Histories, NEW v \in Versions, ExpireWake(v)
    PROVE  LedgerRows' /\ Histories'
<1>1. PICK e : e = Wakes(job.due[v])
  OBVIOUS
<1>2. PICK p : p = Projected(v, e)
  OBVIOUS
<1>3. /\ HasRoom(v) /\ Takes(v, e, p) /\ opp' = WithStatus(v, e, p) /\ job' = NoJob
      /\ UNCHANGED <<hiring, now>>
  BY <1>1, <1>2 DEF ExpireWake
<1>4. e \in Entries
  BY <1>1, WakesTyped DEF LedgerRows
<1>5. Histories' /\ p \in Projections /\ episode' \in Episodes
  BY <1>2, <1>3, <1>4, TakesHistories
<1> QED BY <1>3, <1>5, WithStatusTyped, NoJobTyped DEF LedgerRows

\* and it expires what is over.
LEMMA EndHistories ==
    ASSUME LedgerRows, Histories, NEW closes \in BOOLEAN, ExpireEnd(closes)
    PROVE  LedgerRows' /\ Histories'
<1>1. PICK gone : /\ opp' = [v \in Versions |-> IF v \in gone THEN [opp[v] EXCEPT !.status = "expired"] ELSE opp[v]]
                  /\ episode' = IF gone # {} /\ episode.status = "snoozed" THEN NoEpisode ELSE episode
  BY DEF ExpireEnd
<1>2. \A v \in Versions : opp[v] \in OpportunityRows /\ [opp[v] EXCEPT !.status = "expired"] \in OpportunityRows
  BY DEF LedgerRows, Statuses, OpportunityRows
<1>3. opp' \in [Versions -> OpportunityRows]
  BY <1>1, <1>2
<1>4. episode' \in Episodes
  BY <1>1 DEF LedgerRows, Episodes
<1>5. hiring' = (hiring /\ ~closes) /\ job' = NoJob /\ UNCHANGED <<events, proj, now>>
  BY DEF ExpireEnd
<1>6. hiring' \in BOOLEAN
  BY <1>5 DEF LedgerRows
<1> QED BY <1>3, <1>4, <1>5, <1>6, NoJobTyped DEF LedgerRows, Histories

\* The script that rebuilds leaves the histories in order: it finds what the reducer finds.
LEMMA RebuildHistories ==
    ASSUME LedgerRows, Histories, Rebuild
    PROVE  LedgerRows' /\ Histories'
<1>1. ASSUME NEW v \in Versions, events[v] # <<>>
      PROVE  Rebuilt(events[v]) \in Projections /\ Sums(Rebuilt(events[v]), events[v], Len(events[v]))
  BY <1>1, RebuiltSums DEF Histories, HistoryOf
<1>2. proj' = [v \in Versions |-> IF events[v] = <<>> THEN NoProjection ELSE Rebuilt(events[v])]
      /\ UNCHANGED <<opp, events, episode, hiring, job, now>>
  BY DEF Rebuild
<1>3. proj' \in [Versions -> Projections \cup {NoProjection}]
  BY <1>1, <1>2
<1>4. \A v \in Versions : HistoryOf(events'[v], proj'[v])
  BY <1>1, <1>2 DEF Histories, HistoryOf
<1> QED BY <1>2, <1>3, <1>4 DEF LedgerRows, Histories

\* Every step, by the action.
LEMMA HistoryStep ==
    ASSUME LedgerRows, Histories, [OutcomeNext]_outcomeVars
    PROVE  LedgerRows' /\ Histories'
<1>1. ASSUME NEW v \in Versions, NEW at \in Ticks, NEW type \in Commercial, Step(v, type, at)
      PROVE  LedgerRows' /\ Histories'
  <2>1. Event(type, at) \in Entries
    BY EventTyped DEF Types
  <2> QED BY <1>1, <2>1, RecordsHistories DEF Step
<1>2. ASSUME NEW v \in Versions, NEW at \in Ticks, Correct(v, at)
      PROVE  LedgerRows' /\ Histories'
  <2>1. PICK target \in Correctable(v) : Records(v, [Event("reverted", at) EXCEPT !.reverts = target])
    BY <1>2 DEF Correct
  <2>2. target \in Nat
    BY CorrectableIs
  <2>3. [Event("reverted", at) EXCEPT !.reverts = target] \in Entries
    BY <2>2, EventTyped DEF Types
  <2> QED BY <2>1, <2>3, RecordsHistories
<1>3. ASSUME NEW v \in Versions, Resume(v) \/ Show(v) PROVE LedgerRows' /\ Histories'
  <2>1. Event("resumed", now) \in Entries /\ Event("shown", now) \in Entries
    BY EventTyped DEF LedgerRows, Types
  <2> QED BY <1>3, <2>1, RecordsHistories DEF Resume, Show
<1>4. ASSUME NEW v \in Versions, NEW until \in 1..MaxTime + 1, Snooze(v, until)
      PROVE  LedgerRows' /\ Histories'
  <2>1. until \in 0..MaxTime + 1
    OBVIOUS
  <2>2. [Event("snoozed", now) EXCEPT !.until = until] \in Entries
    BY <2>1, EventTyped DEF LedgerRows, Types
  <2> QED BY <1>4, <2>2, RecordsHistories DEF Snooze
<1>5. ASSUME NEW x \in Versions, NEW v \in Versions, NEW valid \in Ticks, Build(x, v, valid)
      PROVE  LedgerRows' /\ Histories'
  BY <1>5, BuildHistories
<1>6. ASSUME NEW x \in Versions, NEW v \in Versions, NEW valid \in Ticks, BuildAwake(x, v, valid)
      PROVE  LedgerRows' /\ Histories'
  BY <1>6, BuildAwakeHistories
<1>7. ASSUME NEW v \in Versions, BuildUnchanged(v) PROVE LedgerRows' /\ Histories'
  <2>1. episode' \in Episodes /\ UNCHANGED <<opp, events, proj, hiring, job, now>>
    BY <1>7, EpisodeOfTyped DEF BuildUnchanged
  <2> QED BY <2>1 DEF LedgerRows, Histories
<1>8. CASE ExpireLook
  BY <1>8, LookHistories
<1>9. CASE ExpireFails
  BY <1>9, NoJobTyped DEF ExpireFails, LedgerRows, Histories
<1>10. ASSUME NEW v \in Versions, ExpireWake(v) PROVE LedgerRows' /\ Histories'
  BY <1>10, WakeHistories
<1>11. ASSUME NEW closes \in BOOLEAN, ExpireEnd(closes) PROVE LedgerRows' /\ Histories'
  BY <1>11, EndHistories
<1>12. CASE Rebuild
  BY <1>12, RebuildHistories
<1>13. CASE Tick
  <2>1. now' \in Ticks
    BY <1>13, BoundsAreNatural DEF Tick, LedgerRows, Ticks
  <2> QED BY <1>13, <2>1 DEF Tick, LedgerRows, Histories
<1>14. CASE UNCHANGED outcomeVars
  BY <1>14 DEF outcomeVars, LedgerRows, Histories
<1> QED BY <1>1, <1>2, <1>3, <1>4, <1>5, <1>6, <1>7, <1>8, <1>9, <1>10, <1>11, <1>12, <1>13, <1>14
        DEF OutcomeNext

\* Nothing has been recorded at first.
LEMMA HistoryFirst ==
    ASSUME OutcomeInit
    PROVE  LedgerRows /\ Histories
<1>1. 0 \in 0..MaxTime + 1 /\ 0 \in Ticks
  BY BoundsAreNatural DEF Ticks
<1>2. Unbuilt \in OpportunityRows
  BY <1>1 DEF Unbuilt, Statuses, OpportunityRows
<1>3. LedgerRows
  BY <1>1, <1>2, NoJobTyped DEF OutcomeInit, LedgerRows, Episodes, Decided
<1>4. HistoryOf(<<>>, NoProjection)
  BY DEF HistoryOf, EntriesOK, Follows, Effective
<1>5. <<>> \in Seq(Entries) /\ Len(<<>>) = 0
  OBVIOUS
<1>6. \A v \in Versions : MaxEvents[v] \in Nat
  BY BoundsAreNatural
<1> QED BY <1>3, <1>4, <1>5, <1>6 DEF OutcomeInit, Histories

\* The inductive invariant: the rows of the tables, and every history with its projection.
THEOREM HistoryInvariant == OutcomeSpec => []HistoryInv
<1>1. OutcomeInit => HistoryInv
  BY HistoryFirst DEF HistoryInv
<1>2. HistoryInv /\ [OutcomeNext]_outcomeVars => HistoryInv'
  BY HistoryStep DEF HistoryInv
<1> QED BY <1>1, <1>2, PTL DEF OutcomeSpec

\* The values of the variables of the ledger, for every instance: an opportunity has a projection
\* exactly if it has events.
THEOREM OutcomeTypeCorrect == OutcomeSpec => []OutcomeTypeOK
<1>1. HistoryInv => OutcomeTypeOK
  <2> SUFFICES ASSUME HistoryInv PROVE OutcomeTypeOK
    OBVIOUS
  <2>1. \A v \in Versions :
          /\ Len(events[v]) <= MaxEvents[v] /\ \A i \in DOMAIN events[v] : events[v][i] \in Entries
          /\ IF events[v] = <<>> THEN proj[v] = NoProjection ELSE proj[v] \in Projections
    <3> SUFFICES ASSUME NEW v \in Versions
                 PROVE  /\ Len(events[v]) <= MaxEvents[v] /\ \A i \in DOMAIN events[v] : events[v][i] \in Entries
                        /\ IF events[v] = <<>> THEN proj[v] = NoProjection ELSE proj[v] \in Projections
      OBVIOUS
    <3>1. events[v] \in Seq(Entries) /\ Len(events[v]) <= MaxEvents[v] /\ HistoryOf(events[v], proj[v])
      BY DEF HistoryInv, Histories
    <3> QED BY <3>1 DEF HistoryOf
  <2>2. episode \in [status : Decided \cup {"none", "snoozed"}, until : 0..MaxTime + 1]
    <3>1. 0 \in 0..MaxTime + 1
      BY BoundsAreNatural
    <3> QED BY <3>1 DEF HistoryInv, LedgerRows, Episodes, NoEpisode
  <2> QED BY <2>1, <2>2 DEF HistoryInv, LedgerRows, OpportunityRows, OutcomeTypeOK
<1> QED BY <1>1, HistoryInvariant, PTL

\* Whatever is recorded, corrected, built and expired, in whatever order, a projection that is kept
\* event by event agrees with the one the script rebuilds from the history.
THEOREM ReplayAlwaysAgrees == OutcomeSpec => []ReplayAgrees
<1>1. HistoryInv => ReplayAgrees
  <2> SUFFICES ASSUME HistoryInv, NEW v \in Versions, events[v] # <<>>
               PROVE  /\ proj[v] = [Rebuilt(events[v]) EXCEPT !.stage = proj[v].stage]
                      /\ Rebuilt(events[v]).last # 0 => proj[v].stage = Rebuilt(events[v]).stage
    BY DEF ReplayAgrees
  <2>1. PICK l \in Seq(Entries) : l = events[v]
    BY DEF HistoryInv, Histories
  <2>2. PICK p : p = proj[v]
    OBVIOUS
  <2>3. EntriesOK(l) /\ Follows(l) /\ p \in Projections /\ Sums(p, l, Len(l)) /\ l # <<>>
    BY <2>1, <2>2 DEF HistoryInv, Histories, HistoryOf
  <2>4. PICK r : r = Rebuilt(l)
    OBVIOUS
  <2>5. r \in Projections /\ Sums(r, l, Len(l))
    BY <2>3, <2>4, RebuiltSums
  <2>6. p = [r EXCEPT !.stage = p.stage] /\ (r.last # 0 => p.stage = r.stage)
    BY <2>3, <2>5, SumsUnique
  <2> QED BY <2>1, <2>2, <2>4, <2>6
<1> QED BY <1>1, HistoryInvariant, PTL

\* The events that count always make a history: each moves on from where the one before has got, not
\* earlier than it, and none follows an end.
THEOREM HistoryAlwaysLegal == OutcomeSpec => []HistoryIsLegal
<1>1. HistoryInv => HistoryIsLegal
  <2> SUFFICES ASSUME HistoryInv, NEW v \in Versions
               PROVE  LET l == events[v]
                          moves == {i \in Effective(l) : MovesStage(l[i])}
                      IN \A i, j \in moves : i < j /\ (\A k \in moves : ~(i < k /\ k < j)) =>
                            /\ l[j].prev = l[i].new
                            /\ l[i].at <= l[j].at
                            /\ l[i].new \notin {"won", "lost", "dismissed"}
    BY DEF HistoryIsLegal
  <2>1. PICK l \in Seq(Entries) : l = events[v]
    BY DEF HistoryInv, Histories
  <2> DEFINE moves == {i \in Effective(l) : MovesStage(l[i])}
  <2>2. Follows(l)
    BY <2>1 DEF HistoryInv, Histories, HistoryOf
  <2>3. ASSUME NEW i \in moves, NEW j \in moves, i < j, \A k \in moves : ~(i < k /\ k < j)
        PROVE  /\ l[j].prev = l[i].new
               /\ l[i].at <= l[j].at
               /\ l[i].new \notin {"won", "lost", "dismissed"}
    <3>1. i \in 1..Len(l) /\ j \in 1..Len(l) /\ moves \subseteq 1..Len(l) /\ Len(l) \in Nat
      BY EffectiveTyped
    <3>2. Moves(l, j - 1) = {k \in moves : k < j}
      BY <3>1 DEF Moves
    <3>3. i \in Moves(l, j - 1) /\ IsLast(i, Moves(l, j - 1))
      BY <2>3, <3>1, <3>2 DEF IsLast
    <3>4. j \in Effective(l) /\ l[j].type \in Stepping /\ MovesStage(l[j])
      BY DEF MovesStage
    <3> QED BY <2>2, <3>3, <3>4 DEF Follows
  <2> QED BY <2>1, <2>3
<1> QED BY <1>1, HistoryInvariant, PTL

-----------------------------------------------------------------------------
(* OutcomeLedger: what becomes of a decision *)

\* The last entry of an opportunity that takes an event.
LEMMA TakesEntry ==
    ASSUME LedgerRows, Histories, NEW v \in Versions, NEW e \in Entries, NEW p, Takes(v, e, p)
    PROVE  events'[v] # events[v] /\ Last(events'[v]).woke = e.woke
<1>1. Accepts(v, e)
  BY DEF Takes
<1>2. PICK f \in Entries : f = Entry(v, e)
  BY <1>1, EntryIs
<1>3. PICK l \in Seq(Entries) : l = events[v]
  BY DEF Histories
<1>4. PICK k : k = Append(l, f)
  OBVIOUS
<1>5. Len(k) = Len(l) + 1 /\ Len(l) \in Nat /\ k[Len(l) + 1] = f
  BY <1>4, AppendIs
<1>6. events'[v] = k
  BY <1>2, <1>3, <1>4 DEF Takes, Histories
<1>7. f.woke = e.woke
  BY <1>1, <1>2, EntryIs
<1> QED BY <1>3, <1>5, <1>6, <1>7 DEF Last

\* A user's event is no end of a snooze by a job.
LEMMA UserRecords ==
    ASSUME LedgerRows, Histories, NEW v \in Versions, NEW e \in Entries, e.woke = 0, Records(v, e)
    PROVE  ~ByTheSystem
<1>1. PICK p : p = Projected(v, e)
  OBVIOUS
<1>2. Takes(v, e, p)
  BY <1>1 DEF Records
<1> QED BY <1>2, TakesEntry DEF ByTheSystem

\* The event of a job, and what its projection keeps: the stage of the opportunity that was asleep.
LEMMA WokenIs ==
    ASSUME LedgerRows, Histories, NEW v \in Versions, NEW until \in 0..MaxTime + 1,
           NEW e, e = Wakes(until), Accepts(v, e), NEW p, p = Projected(v, e)
    PROVE  /\ e \in Entries /\ e.type = "resumed"
           /\ Current(v) /\ WorkflowOf(v) = "snoozed"
           /\ Kept(p).status = Legacy(StageOf(v)) /\ Kept(p).until = 0
<1>1. e \in Entries /\ e.type = "resumed"
  BY WakesTyped DEF Wakes, Event
<1>2. Current(v) /\ WorkflowOf(v) = "snoozed" /\ StageOf(v) # "none"
  BY <1>1 DEF Accepts, Allowed
<1>3. PICK f \in Entries : f = Entry(v, e)
  BY <1>1, EntryIs
<1>4. f.type = "resumed" /\ f.prev = StageOf(v)
  BY <1>1, <1>3, EntryIs
<1>5. PICK n \in Nat : n = Len(events[v]) + 1
  BY DEF Histories
<1>6. p = Reduced(proj[v], f, n)
  BY <1>1, <1>3, <1>5 DEF Projected
<1>7. PICK q \in Projections : q.stage = StageOf(v) /\ p = Reduced(q, f, n)
  <2>1. CASE proj[v] = NoProjection
    <3>1. Fresh(f.prev) \in Projections /\ Fresh(f.prev).stage = StageOf(v)
      BY <1>2, <1>4, StageIs, FreshTyped DEF Fresh
    <3> QED BY <1>6, <2>1, <3>1, ReducedFirst
  <2>2. CASE proj[v] # NoProjection
    BY <1>6, <2>2 DEF Histories, StageOf
  <2> QED BY <2>1, <2>2
<1>8. ~MovesStage(f)
  BY <1>4 DEF MovesStage, Stepping, Stages
<1>9. p.stage = StageOf(v) /\ p.workflow = "active" /\ p.until = 0
  BY <1>4, <1>7, <1>8, ReducedIs
<1> QED BY <1>1, <1>2, <1>9 DEF Kept

\* What the end of a snooze by a job leaves of the decision about the opportunity.
WokenWell(v) ==
    \E x \in Versions :
        /\ Current(x)'
        /\ opp'[x].status = Legacy(StageOf(v)) /\ opp'[x].until = 0
        /\ events'[v] # events[v] /\ WorkflowOf(v) = "snoozed"
        /\ opp[v].until <= now \/ job.due[v] # 0
AllWokenWell == \A v \in Versions : Current(v) /\ opp[v].status \in Decided \cup {"snoozed"} => WokenWell(v)

\* The expiry job ends a snooze.
LEMMA WakeLeaves ==
    ASSUME LedgerInv, LedgerRows, Histories, NEW v \in Versions, ExpireWake(v)
    PROVE  AllWokenWell
<1>1. PICK until \in 0..MaxTime + 1 : until = job.due[v]
  BY DEF LedgerRows
<1>2. PICK e : e = Wakes(until)
  OBVIOUS
<1>3. PICK p : p = Projected(v, e)
  OBVIOUS
<1>4. Takes(v, e, p) /\ opp' = WithStatus(v, e, p) /\ Accepts(v, e) /\ job.due[v] # 0
  BY <1>1, <1>2, <1>3 DEF ExpireWake, Takes
<1>5. /\ e \in Entries /\ e.type = "resumed"
      /\ Current(v) /\ WorkflowOf(v) = "snoozed"
      /\ Kept(p).status = Legacy(StageOf(v)) /\ Kept(p).until = 0
  BY <1>2, <1>3, <1>4, WokenIs
<1>6. events'[v] # events[v]
  BY <1>4, <1>5, TakesEntry
<1>7. Current(v)' /\ opp'[v].status = Legacy(StageOf(v)) /\ opp'[v].until = 0
  <2>1. PICK s : s = Kept(p).status
    OBVIOUS
  <2>2. PICK t : t = Kept(p).until
    OBVIOUS
  <2>3. opp' = [opp EXCEPT ![v].status = s, ![v].until = t]
    BY <1>4, <1>5, <2>1, <2>2 DEF WithStatus, Closing
  <2>4. opp \in [Versions -> OpportunityRows]
    BY DEF LedgerRows
  <2>5. opp'[v] = [opp[v] EXCEPT !.status = s, !.until = t]
    BY <2>3, <2>4
  <2>6. opp'[v].life = opp[v].life /\ opp'[v].status = s /\ opp'[v].until = t
    BY <2>4, <2>5 DEF OpportunityRows
  <2> QED BY <1>5, <2>1, <2>2, <2>6 DEF Current
<1> QED BY <1>4, <1>5, <1>6, <1>7 DEF LedgerInv, OneCurrent, AllWokenWell, WokenWell

\* A build that finds the snooze over.
LEMMA BuildAwakeLeaves ==
    ASSUME LedgerInv, LedgerRows, Histories, NEW x \in Versions, NEW v \in Versions, NEW valid,
           BuildAwake(x, v, valid)
    PROVE  AllWokenWell
<1>1. PICK until \in 0..MaxTime + 1 : until = EpisodeOf(v).until
  BY EpisodeOfTyped
<1>2. PICK e : e = Wakes(until)
  OBVIOUS
<1>3. PICK p : p = Projected(v, e)
  OBVIOUS
<1>4. Takes(v, e, p) /\ Stores(x, Kept(p), valid) /\ Accepts(v, e)
  BY <1>1, <1>2, <1>3 DEF BuildAwake, Takes
<1>5. /\ e \in Entries /\ e.type = "resumed"
      /\ Current(v) /\ WorkflowOf(v) = "snoozed"
      /\ Kept(p).status = Legacy(StageOf(v)) /\ Kept(p).until = 0
  BY <1>2, <1>3, <1>4, WokenIs
<1>6. events'[v] # events[v]
  BY <1>4, <1>5, TakesEntry
<1>7. opp'[x] = [life |-> "current", status |-> Kept(p).status, until |-> Kept(p).until, valid |-> valid]
  BY <1>4 DEF Stores
<1>8. Current(x)' /\ opp'[x].status = Legacy(StageOf(v)) /\ opp'[x].until = 0
  BY <1>5, <1>7 DEF Current
<1>9. opp[v].status \in Decided \cup {"snoozed"} => opp[v].until <= now
  <2>1. EpisodeOf(v).status = "snoozed" /\ EpisodeOf(v).until <= now
    BY DEF BuildAwake, Elapsed
  <2>2. EpisodeOf(v) # NoEpisode
    BY <2>1 DEF NoEpisode
  <2>3. opp[v].status \in Decided \cup {"snoozed"} =>
           EpisodeOf(v) = [status |-> opp[v].status, until |-> opp[v].until]
    BY <1>5, <2>2, EpisodeIsRow
  <2> QED BY <2>1, <2>3
<1> QED BY <1>5, <1>6, <1>8, <1>9 DEF LedgerInv, OneCurrent, AllWokenWell, WokenWell

\* Every step that is no user's lets all decisions outlive it, or ends a snooze.
LEMMA SystemMoves ==
    ASSUME LedgerInv, LedgerRows, Histories, [OutcomeNext]_outcomeVars, ByTheSystem
    PROVE  AllOutlive \/ AllWokenWell
<1>1. ASSUME NEW v \in Versions, NEW e \in Entries, e.woke = 0, Records(v, e)
      PROVE  FALSE
  BY <1>1, UserRecords
<1>2. ASSUME NEW type \in Types, NEW at \in Ticks
      PROVE  Event(type, at) \in Entries /\ Event(type, at).woke = 0
  BY <1>2, EventTyped DEF Event
<1>3. ASSUME NEW v \in Versions, NEW at \in Ticks, NEW type \in Commercial, Step(v, type, at)
      PROVE  FALSE
  BY <1>1, <1>2, <1>3 DEF Step, Types
<1>4. ASSUME NEW v \in Versions, NEW at \in Ticks, Correct(v, at)
      PROVE  FALSE
  <2>1. PICK target \in Correctable(v) : Records(v, [Event("reverted", at) EXCEPT !.reverts = target])
    BY <1>4 DEF Correct
  <2>2. target \in Nat
    BY CorrectableIs
  <2>3. PICK e : e = [Event("reverted", at) EXCEPT !.reverts = target]
    OBVIOUS
  <2>4. e \in Entries
    BY <2>2, <2>3, EventTyped DEF Types
  <2>5. e.woke = 0
    BY <2>3 DEF Event
  <2> QED BY <1>1, <2>1, <2>3, <2>4, <2>5
<1>5. ASSUME NEW v \in Versions, Resume(v) \/ Show(v)
      PROVE  FALSE
  <2>1. now \in Ticks /\ "resumed" \in Types /\ "shown" \in Types
    BY DEF LedgerRows, Types
  <2> QED BY <1>1, <1>2, <1>5, <2>1 DEF Resume, Show
<1>6. ASSUME NEW v \in Versions, NEW until \in 1..MaxTime + 1, Snooze(v, until)
      PROVE  FALSE
  <2>1. until \in 0..MaxTime + 1
    OBVIOUS
  <2>2. PICK e : e = [Event("snoozed", now) EXCEPT !.until = until]
    OBVIOUS
  <2>3. e \in Entries
    BY <2>1, <2>2, EventTyped DEF LedgerRows, Types
  <2>4. e.woke = 0
    BY <2>2 DEF Event
  <2> QED BY <1>1, <1>6, <2>2, <2>3, <2>4 DEF Snooze
<1>7. ASSUME NEW v \in Versions, BuildUnchanged(v)
      PROVE  AllOutlive
  BY <1>7, UnchangedKeeps DEF BuildUnchanged
<1>8. CASE ExpireLook \/ ExpireFails \/ Rebuild \/ Tick \/ UNCHANGED outcomeVars
  BY <1>8, UnchangedKeeps DEF ExpireLook, ExpireFails, Rebuild, Tick, outcomeVars
<1> QED BY <1>3, <1>4, <1>5, <1>6, <1>7, <1>8, BuildKeeps, EndKeeps, WakeLeaves, BuildAwakeLeaves
        DEF OutcomeNext

\* A step that is no user's keeps what was decided about the current opportunity and its deadline,
\* or expires what is put off once its episode or its time is over, or wakes it when its time has
\* come, and then gives it the status of its own stage (jobs.ts).
THEOREM DecisionsLast == OutcomeSpec => DecisionsOutliveJobs
<1>1. LedgerInv /\ HistoryInv /\ [OutcomeNext]_outcomeVars =>
         [ByTheSystem =>
             \A v \in Versions : Current(v) /\ opp[v].status \in Decided \cup {"snoozed"} =>
                 \E x \in Versions :
                     /\ Current(x)'
                     /\ \/ opp'[x].status = opp[v].status /\ opp'[x].until = opp[v].until
                        \/ /\ opp'[x].status = "expired"
                           /\ opp[v].status = "snoozed" \/ v \in job.asleep
                           /\ ~hiring' \/ opp[v].valid < now
                        \/ /\ opp'[x].status = Legacy(StageOf(v)) /\ opp'[x].until = 0
                           /\ events'[v] # events[v] /\ WorkflowOf(v) = "snoozed"
                           /\ opp[v].until <= now \/ job.due[v] # 0]_outcomeVars
  <2> SUFFICES ASSUME LedgerInv, HistoryInv, [OutcomeNext]_outcomeVars, ByTheSystem,
                      NEW v \in Versions, Current(v), opp[v].status \in Decided \cup {"snoozed"}
               PROVE  \E x \in Versions :
                     /\ Current(x)'
                     /\ \/ opp'[x].status = opp[v].status /\ opp'[x].until = opp[v].until
                        \/ /\ opp'[x].status = "expired"
                           /\ opp[v].status = "snoozed" \/ v \in job.asleep
                           /\ ~hiring' \/ opp[v].valid < now
                        \/ /\ opp'[x].status = Legacy(StageOf(v)) /\ opp'[x].until = 0
                           /\ events'[v] # events[v] /\ WorkflowOf(v) = "snoozed"
                           /\ opp[v].until <= now \/ job.due[v] # 0
    OBVIOUS
  <2>1. AllOutlive \/ AllWokenWell
    BY SystemMoves DEF HistoryInv
  <2>2. Outlives(v) \/ WokenWell(v)
    BY <2>1 DEF AllOutlive, AllWokenWell
  <2> QED BY <2>2 DEF Outlives, WokenWell
<1> QED BY <1>1, LedgerInvariant, HistoryInvariant, PTL DEF OutcomeSpec, DecisionsOutliveJobs
=============================================================================
