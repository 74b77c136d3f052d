----------------------------- MODULE AuthSession -----------------------------
(***************************************************************************)
(* Signing in and out: the sessions in the database, the cookies of the    *)
(* browsers, and the requests between them, whose answers may be late or   *)
(* lost and which work with the cookies they were sent with.               *)
(*                                                                         *)
(* The n-th token of a session is its name and n.  A change of the token   *)
(* is a compare-and-swap on the current one and remembers the last one.    *)
(* Time passes by itself: a token ages towards its daily rotation, the     *)
(* grace of the last token ends, sessions and links expire.                *)
(*                                                                         *)
(* The cookie from before the rollout, rr_sid, is signed and not random:   *)
(* all browsers of an account hold the same one, named by the account.     *)
(* Everybody is in the rollout; a workspace is named by the account it was *)
(* made for, and whoever may switch to one of Teams is its member: members *)
(* come and go in WorkspaceTeam.  A statement is one step, and so is a     *)
(* transaction that locks what it decides on.  The exchange of an old      *)
(* cookie is two: its snapshot is taken before it waits for a login that   *)
(* records the same cookie.                                                *)
(***************************************************************************)
EXTENDS Naturals, FiniteSets

CONSTANTS
    Users,      \* accounts, and the workspaces made for them
    Teams,      \* workspaces of other accounts, which these are members of
    Browsers,
    Sessions,   \* ids of sessions
    Links,      \* ids of login links and of passkey challenges
    Requests,   \* ids of requests under way
    MaxTokens,  \* bound: the tokens of all sessions
    None

ASSUME NoneIsNothing == None \notin Users \cup Teams \cup Browsers \cup Sessions \cup Links
ASSUME OriginsDiffer == Users \cap Links = {}
ASSUME TeamsAreOfOthers == Users \cap Teams = {}
ASSUME MaxTokensIsNat == MaxTokens \in Nat

Workspaces == Users \cup Teams

VARIABLES
    sess,       \* auth_sessions
    active,     \* users whose status is active
    link,       \* auth_challenges
    migrated,   \* accounts whose rr_sid is recorded as legacy_session_migrated
    revokedSid, \* accounts whose rr_sid is recorded as legacy_session_revoked
    cookie,     \* __Host-rr_session of each browser
    legacy,     \* rr_sid of each browser
    pend,       \* the link that each browser is about to confirm
    req,        \* requests under way
    gone,       \* what the last answered logout of each browser presented, until it signs in
    lost        \* sessions whose newest token was lost with an answer

vars == <<sess, active, link, migrated, revokedSid,
          cookie, legacy, pend, req, gone, lost>>
server == <<sess, active, link, migrated, revokedSid>>
clients == <<cookie, legacy, pend, gone, lost>>

Idle == [kind |-> "none", at |-> "idle", by |-> None, tok |-> None, legacy |-> None,
         link |-> None, sid |-> None, out |-> None, clears |-> {}]

Init ==
    /\ sess = [s \in Sessions |-> None]
    /\ active = Users
    /\ link = [c \in Links |-> None]
    /\ migrated = {} /\ revokedSid = {}
    /\ cookie = [b \in Browsers |-> None]
    /\ legacy \in [Browsers -> Users \cup {None}]
    /\ pend = [b \in Browsers |-> None]
    /\ req = [r \in Requests |-> Idle]
    /\ gone = [b \in Browsers |-> None]
    /\ lost = {}

-----------------------------------------------------------------------------
(* What the statements ask of a session. *)

Made == {s \in Sessions : sess[s] # None}
SessionsOf(u) == {s \in Made : sess[s].user = u}
\* A session that was revoked, that has expired or whose account is closed is found by nobody.
Usable(s) == ~sess[s].over /\ sess[s].user \in active

Current(t) == t.gen = sess[t.id].gen
Previous(t) == t.gen + 1 = sess[t.id].gen
\* token_hash, or the previous one while it authorizes
Reads(t) == Current(t) \/ (Previous(t) /\ sess[t.id].prev = "authorizes")
\* token_hash or previous_token_hash
NamesCurrent(t) == Current(t)
Names(t) == Current(t) \/ (Previous(t) /\ sess[t.id].prev # "none")

Token(s) == [id |-> s, gen |-> sess[s].gen, ws |-> sess[s].ws]
Revoke(S) == [s \in Sessions |-> IF s \in S THEN [sess[s] EXCEPT !.over = TRUE] ELSE sess[s]]

\* The statement that makes the next token asks for the current one, not for the last.
NamedByEither(t) == Usable(t.id) /\ (Current(t) \/ Previous(t))
NamedByCurrent(t) == Usable(t.id) /\ Current(t)

\* All tokens there have been.
TokensMade == {t \in Made \X (0..MaxTokens) : t[2] <= sess[t[1]].gen}
MoreTokens == Cardinality(TokensMade) < MaxTokens

\* The next token of a session; prev says what the last one is still good for.
NextToken(s, prev, w) == [sess[s] EXCEPT !.gen = @ + 1, !.prev = prev, !.ws = w]

\* INSERT INTO auth_sessions; the trigger gives it the workspace made for the account.
NewSession(u, from) == [user |-> u, ws |-> u, gen |-> 0, prev |-> "none", over |-> FALSE, from |-> from]
FirstToken(s, u) == [id |-> s, gen |-> 0, ws |-> u]

\* What a request does when it goes on, or is over.
Goes(r, at) == req' = [req EXCEPT ![r].at = at]
Ends(r) == req' = [req EXCEPT ![r] = Idle]
Answers(r, t, names) ==
    LET whole == [req[r] EXCEPT !.at = "answer", !.out = t, !.clears = names] IN
    req' = [req EXCEPT ![r] = IF whole.kind = "logout" THEN whole
                              ELSE [Idle EXCEPT !.at = "answer", !.by = whole.by, !.out = t, !.clears = names]]

-----------------------------------------------------------------------------
(* Requests start with the cookies that the browser has. *)

Kinds == {"page", "refresh", "switch", "email", "logout", "login", "passkey"}

FirstStep(kind) == CASE kind = "logout" -> "revoke" [] kind = "login" -> "consume" [] OTHER -> "read"

\* What a request of a kind looks at, of all the cookies that are sent with it.
Sent(kind, b) ==
    [kind |-> kind, at |-> FirstStep(kind), by |-> b, tok |-> cookie[b],
     legacy |-> IF kind \in {"refresh", "logout", "login"} THEN legacy[b] ELSE None,
     link |-> IF kind \in {"login", "passkey"} THEN pend[b] ELSE None,
     sid |-> None, out |-> None, clears |-> {}]

Start(r, b, kind) ==
    /\ req[r] = Idle
    /\ kind \in {"page", "switch"} => cookie[b] # None
    /\ kind \in {"refresh", "logout"} => cookie[b] # None \/ legacy[b] # None
    /\ kind = "login" => pend[b] # None /\ link[pend[b]].for # None
    /\ kind = "passkey" => pend[b] # None /\ link[pend[b]].for = None
    /\ req' = [req EXCEPT ![r] = Sent(kind, b)]
    /\ UNCHANGED <<server, clients>>

-----------------------------------------------------------------------------
(* readAuthSession, which also marks a session that it found to be over as revoked. *)

Found(t) == t # None /\ Reads(t) /\ Usable(t.id)

\* The token may be a day old, or will be in five minutes: the grace of the last one is over.
MayBeDue(t) == sess[t.id].prev # "authorizes"

\* What the request does with the session that was read, if one was.
ReadSession(r) ==
    LET q == req[r]
        found == Found(q.tok)
        Finds(at, s) == req' = [req EXCEPT ![r].at = at, ![r].sid = s] IN
    /\ q.at = "read"
    /\ \/ q.kind = "refresh" /\ found /\ MayBeDue(q.tok) /\ Goes(r, "rotate")
       \/ q.kind = "refresh" /\ found /\ Ends(r)
       \/ q.kind = "refresh" /\ ~found /\ q.legacy # None /\ Goes(r, "exchange")
       \/ q.kind = "switch" /\ found /\ Goes(r, "switch")
       \/ q.kind \in {"email", "passkey"} /\ found /\ Finds(q.kind, q.tok.id)
       \/ q.kind \in {"email", "passkey"} /\ ~found /\ Goes(r, q.kind)
       \/ q.kind = "page" /\ found /\ Finds("end", q.tok.id)
       \/ q.kind \in {"refresh", "switch", "page"} /\ ~found /\ q.legacy = None /\ Ends(r)
    /\ UNCHANGED <<sess, active, link, migrated, revokedSid, clients>>

-----------------------------------------------------------------------------
(* Changes of the token. *)

\* What becomes of the last token when a new one is made.
AfterRotation == "authorizes"
StillGood == "authorizes"
AfterSwitch == "revokes"

\* rotateAuthSession: the daily rotation, or a forced one shortly before it is due.
Rotate(r) ==
    LET s == req[r].tok.id
        next == NextToken(s, AfterRotation, sess[s].ws) IN
    /\ req[r].at = "rotate"
    /\ IF NamedByCurrent(req[r].tok)
       THEN /\ MoreTokens
            /\ sess' = [sess EXCEPT ![s] = next]
            /\ Answers(r, [id |-> s, gen |-> next.gen, ws |-> next.ws], {})
       ELSE Ends(r) /\ UNCHANGED sess
    /\ UNCHANGED <<active, link, migrated, revokedSid, clients>>

\* change_auth_session_workspace
SwitchWorkspace(r, w) ==
    LET s == req[r].tok.id
        next == NextToken(s, AfterSwitch, w) IN
    /\ req[r].at = "switch"
    /\ IF NamedByCurrent(req[r].tok) /\ w # sess[s].ws
       THEN /\ MoreTokens
            /\ sess' = [sess EXCEPT ![s] = next]
            /\ Answers(r, [id |-> s, gen |-> next.gen, ws |-> next.ws], {})
       ELSE Ends(r) /\ UNCHANGED sess
    /\ UNCHANGED <<active, link, migrated, revokedSid, clients>>

\* confirmAccountEmailChange for the account u: its other sessions end, the one that
\* confirms needs its current token and gets a new one, links to the old address are void.
ConfirmEmail(r, u) ==
    LET s == req[r].sid
        own == s # None /\ sess[s].user = u
        next == NextToken(s, "none", sess[s].ws) IN
    /\ req[r].at = "email"
    /\ u \in active
    /\ IF own /\ ~(Current(req[r].tok) /\ ~sess[s].over)
       THEN Ends(r) /\ UNCHANGED <<sess, link>>      \* reauth_required
       ELSE /\ IF own
               THEN /\ MoreTokens
                    /\ sess' = [Revoke(SessionsOf(u) \ {s}) EXCEPT ![s] = next]
                    /\ Answers(r, [id |-> s, gen |-> next.gen, ws |-> next.ws], {})
               ELSE /\ sess' = Revoke(SessionsOf(u))
                    /\ Ends(r)
            /\ link' = [c \in Links |-> IF link[c] # None /\ link[c].for = u /\ link[c].state = "active"
                                        THEN [link[c] EXCEPT !.state = "void"] ELSE link[c]]
    /\ UNCHANGED <<active, migrated, revokedSid, clients>>

-----------------------------------------------------------------------------
(* Signing out. *)

\* revokeAuthSessionForLogout: the session whose current or last token was presented.
RevokeToken(r) ==
    /\ req[r].at = "revoke"
    /\ sess' = IF req[r].tok # None /\ Names(req[r].tok) THEN Revoke({req[r].tok.id}) ELSE sess
    /\ Goes(r, "revokeLegacy")
    /\ UNCHANGED <<active, link, migrated, revokedSid, clients>>

\* No exchange of this account's rr_sid holds the lock on its fingerprint.
Unlocked(u) == \A r \in Requests : req[r].at = "exchanging" => req[r].legacy # u
FromLegacy(u) == {s \in Made : sess[s].from = u}

\* revokeLegacyOwnerSessionForLogout, and then both cookies are cleared.
RevokeLegacy(r) ==
    LET u == req[r].legacy IN
    /\ req[r].at = "revokeLegacy"
    /\ IF u = None THEN UNCHANGED <<sess, revokedSid>>
       ELSE /\ Unlocked(u)
            /\ sess' = Revoke(FromLegacy(u))
            /\ revokedSid' = revokedSid \cup {u}
    /\ Answers(r, None, {"session", "rr_sid"})
    /\ UNCHANGED <<active, link, migrated, clients>>

\* The security page ends sessions of its account: its own one, another, the others, all.
EndSessions(r, S) ==
    LET s == req[r].sid
        own == s \in S
        all == S = SessionsOf(sess[s].user) IN
    /\ req[r].at = "end"
    /\ S \in {{t} : t \in SessionsOf(sess[s].user)} \cup {SessionsOf(sess[s].user) \ {s}, SessionsOf(sess[s].user)}
    /\ sess' = Revoke(S)
    /\ \/ own /\ Answers(r, None, {"session"})
       \/ ~(own /\ (all \/ ~sess[s].over)) /\ Ends(r)      \* nothing was left to revoke
    /\ UNCHANGED <<active, link, migrated, revokedSid, clients>>

-----------------------------------------------------------------------------
(* Signing in.  A link or a challenge that is presented and does not verify is void: to    *)
(* its holder it has expired.                                                              *)

Redeemable(c) == link[c].state = "active"
Redeem(c, state) == link' = [link EXCEPT ![c].state = state]

\* issue_auth_login_challenge: older links to the same address end.
IssueLink(c, u) ==
    /\ link[c] = None
    /\ link' = [d \in Links |->
                  CASE d = c -> [for |-> u, state |-> "active"]
                    [] d # c /\ link[d] # None /\ link[d].for = u /\ link[d].state = "active" ->
                          [link[d] EXCEPT !.state = "void"]
                    [] OTHER -> link[d]]
    /\ UNCHANGED <<sess, active, migrated, revokedSid, clients, req>>

\* The mail's link is opened; it waits for the confirmation in a cookie.
OpenLink(b, c) ==
    /\ link[c] # None /\ link[c].for # None /\ Redeemable(c)
    /\ pend' = [pend EXCEPT ![b] = c]
    /\ UNCHANGED <<server, cookie, legacy, gone, lost, req>>

\* beginPasskeyAuthentication: a challenge for whoever holds a passkey.
BeginPasskey(b, c) ==
    /\ link[c] = None
    /\ link' = [link EXCEPT ![c] = [for |-> None, state |-> "active"]]
    /\ pend' = [pend EXCEPT ![b] = c]
    /\ UNCHANGED <<sess, active, migrated, revokedSid,
                   cookie, legacy, gone, lost, req>>

LinkExpires(c) ==
    /\ link[c] # None /\ Redeemable(c)
    /\ Redeem(c, "void")
    /\ UNCHANGED <<sess, active, migrated, revokedSid, clients, req>>

\* consume_auth_login_challenge, for a request that presents a link.
Consume(r, s) ==
    LET c == req[r].link
        u == link[c].for IN
    /\ req[r].at = "consume"
    /\ IF Redeemable(c) /\ u \in active
       THEN /\ sess[s] = None /\ MoreTokens
            /\ Redeem(c, "used")
            /\ sess' = [sess EXCEPT ![s] = NewSession(u, c)]
            /\ migrated' = IF req[r].legacy = None THEN migrated ELSE migrated \cup {req[r].legacy}
            /\ req' = [req EXCEPT ![r].at = "replace", ![r].out = FirstToken(s, u),
                                  ![r].clears = {"link", "rr_sid"}]
       ELSE /\ link' = IF link[c].state = "used" THEN link ELSE [link EXCEPT ![c].state = "void"]
            /\ Answers(r, None, {"link"})
            /\ UNCHANGED <<sess, migrated>>
    /\ UNCHANGED <<active, revokedSid, clients>>

\* revokeAuthSessionForAccountSwitch: the session that the browser had ends.
ReplaceSession(r) ==
    /\ req[r].at = "replace"
    /\ sess' = IF req[r].tok # None /\ Names(req[r].tok) THEN Revoke({req[r].tok.id}) ELSE sess
    /\ Answers(r, req[r].out, req[r].clears)
    /\ UNCHANGED <<active, link, migrated, revokedSid, clients>>

\* finishPasskeyAuthentication for the holder u, in one transaction with the end of the
\* session that was read before.
FinishPasskey(r, s, u) ==
    LET c == req[r].link
        old == IF req[r].sid = None THEN {} ELSE {req[r].sid} IN
    /\ req[r].at = "passkey"
    /\ IF Redeemable(c) /\ u \in active
       THEN /\ sess[s] = None /\ MoreTokens
            /\ Redeem(c, "used")
            /\ sess' = [Revoke(old) EXCEPT ![s] = NewSession(u, c)]
            /\ Answers(r, FirstToken(s, u), {"link", "rr_sid"})
       ELSE /\ link' = IF link[c].state = "used" THEN link ELSE [link EXCEPT ![c].state = "void"]
            /\ Ends(r)
            /\ UNCHANGED sess
    /\ UNCHANGED <<active, migrated, revokedSid, clients>>

\* exchangeLegacyOwnerSession takes the lock; its statement sees what is committed now.
BeginExchange(r) ==
    LET u == req[r].legacy IN
    /\ req[r].at = "exchange"
    /\ Unlocked(u)
    /\ IF u \in active /\ u \notin migrated \cup revokedSid
       THEN Goes(r, "exchanging")
       ELSE Ends(r)
    /\ UNCHANGED <<server, clients>>

\* Its rows are inserted; it has a session to hand out if the event is its own.
FinishExchange(r, s) ==
    LET u == req[r].legacy IN
    /\ req[r].at = "exchanging"
    /\ IF FromLegacy(u) = {} /\ u \in active
       THEN /\ sess[s] = None /\ MoreTokens
            /\ sess' = [sess EXCEPT ![s] = NewSession(u, u)]
            /\ migrated' = migrated \cup {u}
            /\ IF u \in migrated THEN Ends(r) ELSE Answers(r, FirstToken(s, u), {"rr_sid"})
       ELSE Ends(r) /\ UNCHANGED <<sess, migrated>>
    /\ UNCHANGED <<active, link, revokedSid, clients>>

-----------------------------------------------------------------------------
(* Answers and failures. *)

SignsIn(q) == "link" \in q.clears /\ q.out # None
SignsOut(q) == q.kind = "logout"

Answer(r) ==
    LET q == req[r]
        b == q.by IN
    /\ q.at = "answer"
    /\ cookie' = [cookie EXCEPT ![b] = CASE q.out # None -> q.out
                                         [] q.out = None /\ "session" \in q.clears -> None
                                         [] OTHER -> @]
    /\ legacy' = [legacy EXCEPT ![b] = IF "rr_sid" \in q.clears THEN None ELSE @]
    /\ pend' = [pend EXCEPT ![b] = IF "link" \in q.clears THEN None ELSE @]
    /\ gone' = [gone EXCEPT ![b] = CASE SignsOut(q) -> [tok |-> q.tok, legacy |-> q.legacy]
                                     [] SignsIn(q) -> None
                                     [] OTHER -> @]
    /\ Ends(r)
    /\ UNCHANGED <<server, lost>>

Live(s) == sess[s] # None /\ ~sess[s].over
Holds(b, s) == cookie[b] # None /\ cookie[b].id = s

\* A request fails, or dies with its server, or its answer does not arrive.
Fail(r) ==
    /\ req[r] # Idle
    /\ lost' = lost \cup {s \in Sessions : Live(s) /\ Holds(req[r].by, s) /\ req[r].out # None /\ req[r].out.id = s}
    /\ Ends(r)
    /\ UNCHANGED <<server, cookie, legacy, pend, gone>>

-----------------------------------------------------------------------------
(* Time, and what other components do. *)

Write(s, row) ==
    /\ sess' = [sess EXCEPT ![s] = row]
    /\ UNCHANGED <<active, link, migrated, revokedSid, clients, req>>

\* previous_token_valid_until
GraceEnds(s) == Live(s) /\ sess[s].prev = "authorizes" /\ Write(s, [sess[s] EXCEPT !.prev = "revokes"])

\* idle_expires_at or absolute_expires_at: nothing asks later whether a session was revoked
\* or has expired, except that an expired one can still be revoked.
Expires(s) == Live(s) /\ Write(s, [sess[s] EXCEPT !.over = TRUE])

\* requestAccountDeletion, of an account that nobody else depends on.
LeaveAccount(u) ==
    /\ u \in active
    /\ active' = active \ {u}
    /\ sess' = Revoke(SessionsOf(u))
    /\ UNCHANGED <<link, migrated, revokedSid, clients, req>>

-----------------------------------------------------------------------------
Signing(r) ==
    \/ \E s \in Sessions : Consume(r, s) \/ FinishExchange(r, s)
    \/ \E s \in Sessions, u \in Users : FinishPasskey(r, s, u)
    \/ ReplaceSession(r)
    \/ BeginExchange(r)

Serve(r) ==
    \/ ReadSession(r)
    \/ Rotate(r)
    \/ \E w \in Workspaces : SwitchWorkspace(r, w)
    \/ \E u \in Users : ConfirmEmail(r, u)
    \/ RevokeToken(r)
    \/ RevokeLegacy(r)
    \/ \E S \in SUBSET Sessions : EndSessions(r, S)
    \/ Signing(r)
    \/ Answer(r)
    \/ Fail(r)

Outside ==
    \/ \E s \in Sessions : GraceEnds(s) \/ Expires(s)
    \/ \E c \in Links : LinkExpires(c) \/ \E u \in Users : IssueLink(c, u)
    \/ \E b \in Browsers, c \in Links : OpenLink(b, c) \/ BeginPasskey(b, c)
    \/ \E u \in Users : LeaveAccount(u)

Next ==
    \/ \E r \in Requests : Serve(r) \/ \E b \in Browsers, kind \in Kinds : Start(r, b, kind)
    \/ Outside

Spec == Init /\ [][Next]_vars

-----------------------------------------------------------------------------
Tokens == [id : Sessions, gen : Nat, ws : Workspaces]
SessionRows == [user : Users, ws : Workspaces, gen : Nat, prev : {"none", "authorizes", "revokes"},
                over : BOOLEAN,
                from : Links \cup Users]
Steps == {"idle", "read", "rotate", "switch", "email", "end", "revoke", "revokeLegacy", "consume",
          "replace", "passkey", "exchange", "exchanging", "answer"}

LinkRows == [for : Users \cup {None}, state : {"active", "used", "void"}]
Presented == [tok : Tokens \cup {None}, legacy : Users \cup {None}]
RequestRows == [kind : Kinds \cup {"none"}, at : Steps, by : Browsers \cup {None},
                tok : Tokens \cup {None}, legacy : Users \cup {None}, link : Links \cup {None},
                sid : Sessions \cup {None}, out : Tokens \cup {None},
                clears : SUBSET {"session", "rr_sid", "link"}]

ASSUME NoneIsNoRow ==
    None \notin SessionRows /\ None \notin Tokens /\ None \notin LinkRows /\ None \notin Presented

TypeOK ==
    /\ sess \in [Sessions -> SessionRows \cup {None}]
    /\ active \in SUBSET Users
    /\ link \in [Links -> LinkRows \cup {None}]
    /\ migrated \in SUBSET Users /\ revokedSid \in SUBSET Users
    /\ cookie \in [Browsers -> Tokens \cup {None}]
    /\ legacy \in [Browsers -> Users \cup {None}]
    /\ pend \in [Browsers -> Links \cup {None}]
    /\ req \in [Requests -> RequestRows]
    /\ gone \in [Browsers -> Presented \cup {None}]
    /\ lost \in SUBSET Sessions

-----------------------------------------------------------------------------
\* The tokens that a browser has, or that are on their way.
Abroad == {cookie[b] : b \in Browsers} \cup {req[r].tok : r \in Requests} \cup {req[r].out : r \in Requests}

\* A request never works in another workspace than the one its token was handed out for:
\* the token from before a switch authorizes nothing, and no later rotation revives it.
TokensKeepTheirWorkspace ==
    \A t \in Abroad \ {None} : Reads(t) => sess[t.id].ws = t.ws

\* A browser never falls behind its session for good: the cookie holds the current token,
\* or the next one is on its way, unless that answer was lost.
CookieKeepsUp ==
    \A b \in Browsers :
        cookie[b] # None /\ ~sess[cookie[b].id].over =>
            \/ Current(cookie[b])
            \/ /\ Previous(cookie[b])
               /\ \E r \in Requests : req[r].by = b /\ req[r].out = Token(cookie[b].id)
            \/ cookie[b].id \in lost

\* The session of a logout has changed its token twice since, or forgot its last one.
Overtaken(t) == ~Current(t) /\ (~Previous(t) \/ sess[t.id].prev = "none")

\* A browser that was told that it is signed out is: the session it presented has ended,
\* under the token it presented or under the next one, and so have the sessions made from
\* its old cookie, which no browser can use any more.
SignedOutStaysOut ==
    \A b \in Browsers : gone[b] # None =>
        /\ gone[b].tok # None => sess[gone[b].tok.id].over \/ Overtaken(gone[b].tok)
        /\ gone[b].legacy # None =>
              /\ gone[b].legacy \in revokedSid
              /\ \A s \in FromLegacy(gone[b].legacy) : sess[s].over

\* One login link, one passkey challenge and one old cookie make one session at most.
OneSessionPerCredential ==
    \A s, t \in Made : sess[s].from = sess[t].from => s = t

\* An old cookie signs nobody in once its account has signed in with a link.  It does not hold
\* of the code: the exchange asks whether the cookie was recorded, not whether its account has
\* signed in since.
LegacyEndsWithLogin ==
    [][\A s \in Sessions : sess[s] = None /\ sess'[s] # None /\ sess'[s].from \in Users
            => \A t \in Made : ~(sess[t].user = sess'[s].from /\ sess[t].from \in Links)]_vars
=============================================================================
