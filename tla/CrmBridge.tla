------------------------------ MODULE CrmBridge ------------------------------
(***************************************************************************)
(* The bridge between an opportunity and the customer's CRM: one delivery  *)
(* event (one opportunity, one integration, one idempotency key) and all   *)
(* the requests that ask for it, the credential of the integration, and    *)
(* the outcomes that the CRM reports back.                                 *)
(*                                                                         *)
(* A delivery is a transaction that prepares it, the HTTP request, and a   *)
(* transaction that finalizes it.  The first holds the row of the          *)
(* workspace from its first statement, and those of the integration, the   *)
(* credential and the opportunity from its second last one; the other one  *)
(* holds the claim, and its insertion waits for those three rows, which it *)
(* refers to.  A callback and every change of a credential are one step.   *)
(***************************************************************************)
EXTENDS Naturals, FiniteSets

CONSTANTS
    Attempts,       \* requests for the delivery; each has a claim token of its own
    Events,         \* ids that the CRM gives to the outcomes it reports
    Bodies,         \* what a callback may say
    MaxCredentials, \* credentials issued, by the creation and by rotations
    None            \* no attempt, no body

ASSUME NoneIsNoAttempt == None \notin Attempts /\ None \notin Bodies
ASSUME CredentialsAreCounted == MaxCredentials \in Nat \ {0}

VARIABLES
    active,     \* the credential whose status is active, 0 if there is none
    issued,     \* credentials issued so far
    current,    \* the opportunity is not superseded
    claim,      \* the opportunity_crm_delivery_claims row
    delivery,   \* the opportunity_crm_deliveries row, appended once
    att,        \* the local state of each attempt
    crm,        \* the requests that the CRM has accepted, by the attempt that built the body
    receipt,    \* opportunity_crm_callback_receipts, by credential and event
    ledger      \* the outcome events with the id of a CRM event

setup == <<active, issued, current>>
outbound == <<claim, delivery, att, crm>>
inbound == <<receipt, ledger>>
vars == <<setup, outbound, inbound>>

Credentials == 1..MaxCredentials
NoClaim == [token |-> None, body |-> None, cred |-> 0]
Unsettled == [status |-> "none", body |-> None]
Unrecorded == [body |-> None, cred |-> 0]
Labels == {"idle", "load", "claim", "send", "answered", "own", "done"}
Results == {"succeeded", "failed"}
Told == Results \cup {"none", "missing", "in_progress", "error"}
Codes == {"none", "accepted", "rate_limited", "not_found", "rejected"}

Init ==
    /\ active = 1 /\ issued = 1 /\ current = TRUE
    /\ claim = NoClaim
    /\ delivery = Unsettled
    /\ att = [x \in Attempts |-> [pc |-> "idle", body |-> None, cred |-> 0, answer |-> "none", told |-> "none"]]
    /\ crm = {}
    /\ receipt = [c \in Credentials |-> [e \in Events |-> "none"]]
    /\ ledger = [e \in Events |-> Unrecorded]

At(x, label) == att[x].pc = label
Goto(x, label) == att' = [att EXCEPT ![x].pc = label]
Ends(x, told) == att' = [att EXCEPT ![x].pc = "done", ![x].told = told]

WorkspaceIsFree == \A x \in Attempts : att[x].pc \notin {"load", "claim"}
RowsAreFree == \A x \in Attempts : ~At(x, "claim")
ClaimIsFree == \A x \in Attempts : ~At(x, "own")
Settled == delivery.status # "none"

-----------------------------------------------------------------------------
(* Delivery: prepareDelivery *)

\* requireDeliveryActor locks the workspace; findReplay.
Begin(x) ==
    /\ At(x, "idle")
    /\ WorkspaceIsFree
    /\ IF Settled THEN Ends(x, delivery.status) ELSE Goto(x, "load")
    /\ UNCHANGED <<setup, claim, delivery, crm, inbound>>

\* loadDelivery: an active credential and a current opportunity, FOR UPDATE.
Load(x) ==
    /\ At(x, "load")
    /\ IF active # 0 /\ current
       THEN att' = [att EXCEPT ![x].pc = "claim", ![x].cred = active]
       ELSE Ends(x, "missing")
    /\ UNCHANGED <<setup, claim, delivery, crm, inbound>>

BodyStored(x) == claim.body
BodyBuilt(x) == x
\* RETURNING request_body: a claim that is taken over keeps its body.
BodyToSend(x) == IF claim = NoClaim THEN x ELSE claim.body

\* The claim is inserted, taken over after thirty seconds, or it is another's.
Claim(x) ==
    /\ At(x, "claim")
    /\ ClaimIsFree
    /\ \/ /\ claim = NoClaim \/ claim.cred = att[x].cred
          /\ claim' = [token |-> x, body |-> BodyToSend(x), cred |-> att[x].cred]
          /\ att' = [att EXCEPT ![x].pc = "send", ![x].body = BodyToSend(x)]
       \/ claim # NoClaim /\ Ends(x, "in_progress") /\ UNCHANGED claim
    /\ UNCHANGED <<setup, delivery, crm, inbound>>

-----------------------------------------------------------------------------
(* Delivery: the request, and finalizeDelivery *)

\* What sendSignedCrmWebhook makes of the answer to a request that was accepted, or not.
Answers(accepted) == IF accepted THEN Results ELSE {"failed"}

Send(x) ==
    /\ At(x, "send")
    /\ \E accepted \in BOOLEAN :
          /\ crm' = IF accepted THEN crm \cup {att[x].body} ELSE crm
          /\ \E answer \in Answers(accepted) :
                att' = [att EXCEPT ![x].pc = "answered", ![x].answer = answer]
    /\ UNCHANGED <<setup, claim, delivery, inbound>>

\* SELECT claim_token = $2 ... FOR UPDATE; who has lost the claim looks for a result.
Own(x) ==
    /\ At(x, "answered")
    /\ ClaimIsFree
    /\ IF claim.token = x THEN Goto(x, "own")
       ELSE Ends(x, IF Settled THEN delivery.status ELSE "in_progress")
    /\ UNCHANGED <<setup, claim, delivery, crm, inbound>>

BodyPrepared(x) == x
\* request_hash: that of the body that was sent.
BodyOf(x) == att[x].body
AnswerOf(x) == att[x].answer
\* The row that is returned: the one inserted or, ON CONFLICT DO NOTHING, the one that is there.
ResultOf(x) == IF Settled THEN delivery.status ELSE att[x].answer

\* The result is appended, the claim deleted.
Finalize(x) ==
    /\ At(x, "own")
    /\ RowsAreFree
    /\ delivery' = IF Settled THEN delivery ELSE [status |-> att[x].answer, body |-> BodyOf(x)]
    /\ claim' = NoClaim
    /\ Ends(x, ResultOf(x))
    /\ UNCHANGED <<setup, crm, inbound>>

\* The finalizer waits for the rows of a preparation that waits for the claim: the
\* database rolls one of them back.
Deadlock(x, y) ==
    /\ At(x, "own") /\ At(y, "claim")
    /\ Ends(x, "error") \/ Ends(y, "error")
    /\ UNCHANGED <<setup, claim, delivery, crm, inbound>>

\* The process stops, or the database does not answer: a transaction is rolled back.
Crash(x) ==
    /\ att[x].pc \notin {"idle", "done"}
    /\ Ends(x, "error")
    /\ UNCHANGED <<setup, claim, delivery, crm, inbound>>

-----------------------------------------------------------------------------
(* The integration *)

\* rotateCrmCredential: only an active credential can be rotated.
Rotate ==
    /\ WorkspaceIsFree
    /\ active # 0
    /\ issued < MaxCredentials
    /\ issued' = issued + 1
    /\ active' = issued + 1
    /\ UNCHANGED <<current, outbound, inbound>>

\* revokeCrmCredential
RevokeCredential ==
    /\ WorkspaceIsFree
    /\ active # 0
    /\ active' = 0
    /\ UNCHANGED <<issued, current, outbound, inbound>>

\* A build of opportunities supersedes this one.
Supersede ==
    /\ RowsAreFree
    /\ current
    /\ current' = FALSE
    /\ UNCHANGED <<active, issued, outbound, inbound>>

-----------------------------------------------------------------------------
(* Callbacks *)

\* The event that is in the ledger already is another one: hashOutcomePayload covers the
\* credential, which is part of the dedupe key.
SameBody(e, b, c) == ledger[e].body = b
SameEvent(e, b, c) == ledger[e] = [body |-> b, cred |-> c]

\* ingestCrmOutcomeCallback, for an event that has no receipt under this credential; one
\* that has gets the same answer, or 409 if its body is another one.  A callback is rejected
\* for its content, or because the ledger has the event or does not take it.
Callback(c, e, b) ==
    /\ c = active
    /\ RowsAreFree
    /\ receipt[c][e] = "none"
    /\ \E code \in Codes \ {"none"} :
          /\ code = "not_found" => ~current
          /\ code = "accepted" => current /\ (ledger[e] = Unrecorded \/ SameEvent(e, b, c))
          /\ receipt' = [receipt EXCEPT ![c][e] = code]
          /\ ledger' = IF code = "accepted" /\ ledger[e] = Unrecorded
                       THEN [ledger EXCEPT ![e] = [body |-> b, cred |-> c]] ELSE ledger
    /\ UNCHANGED <<setup, outbound>>

-----------------------------------------------------------------------------
Deliver(x) == Begin(x) \/ Load(x) \/ Claim(x) \/ Send(x) \/ Own(x) \/ Finalize(x) \/ Crash(x)

Next ==
    \/ \E x \in Attempts : Deliver(x)
    \/ \E x, y \in Attempts : Deadlock(x, y)
    \/ Rotate \/ RevokeCredential \/ Supersede
    \/ \E c \in Credentials, e \in Events, b \in Bodies : Callback(c, e, b)

Spec == Init /\ [][Next]_vars

-----------------------------------------------------------------------------
(* Properties *)

Locals == [pc : Labels, body : Attempts \cup {None}, cred : 0..MaxCredentials,
           answer : Results \cup {"none"}, told : Told]

\* The values of the variables.
TypeOK ==
    /\ active \in 0..MaxCredentials /\ issued \in Credentials /\ current \in BOOLEAN
    /\ claim \in [token : Attempts, body : Attempts, cred : Credentials] \cup {NoClaim}
    /\ delivery \in [status : Results, body : Attempts] \cup {Unsettled}
    /\ att \in [Attempts -> Locals]
    /\ crm \subseteq Attempts
    /\ receipt \in [Credentials -> [Events -> Codes]]
    /\ ledger \in [Events -> [body : Bodies, cred : Credentials] \cup {Unrecorded}]

\* A delivery that is recorded as succeeded has been accepted by the CRM with the very
\* body whose hash is recorded, whoever took the claim over and sent it again.
SucceededIsReceived == delivery.status = "succeeded" => delivery.body \in crm

\* All that ask for the event are told the one result that is recorded, also those whose
\* own request was answered differently or whose claim was taken over.
ToldIsRecorded == \A x \in Attempts : att[x].told \in Results => att[x].told = delivery.status

\* Until there is a result, the CRM sees one body only, however often the claim is taken
\* over ("The retry reuses the exact stored body and timestamp").
OneBodyUntilSettled == ~Settled => Cardinality(crm) <= 1

\* What the CRM is told of an outcome agrees with the ledger: the event is recorded once,
\* for the credential that was told so, although credentials are rotated in between.
ReceiptsMatchLedger ==
    \A e \in Events, c \in Credentials : receipt[c][e] = "accepted" <=> ledger[e].cred = c

\* A retry sends what was sent before ("The retry reuses the exact stored body and timestamp").
OneBody == Cardinality(crm) <= 1

\* A stale claim can be taken over while its credential is the active one or its attempt lives.
ClaimEnds ==
    claim # NoClaim =>
        claim.cred = active \/ \E x \in Attempts : claim.token = x /\ att[x].pc \in {"send", "answered", "own"}
=============================================================================
