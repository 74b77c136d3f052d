------------------------- MODULE AuthSession_proofs -------------------------
(***************************************************************************)
(* Proofs about AuthSession, for any accounts, browsers, sessions, links   *)
(* and requests: a token never works in another workspace, a credential    *)
(* makes one session, whoever was told to be signed out is, and no browser *)
(* falls behind its session for good.                                      *)
(*                                                                         *)
(* A session only grows: it keeps its account and its origin, what is over *)
(* stays over, and the token of a switch is behind it for good.  What is   *)
(* known of a token survives every such step, wherever the token is.  That *)
(* a cookie keeps up needs more: no two browsers share a session, and the  *)
(* token that is handed out is newer than all others of its session.       *)
(***************************************************************************)
EXTENDS AuthSession, TLAPS

-----------------------------------------------------------------------------
(* The inductive invariant *)

\* What is known of a token: its session was made, it is not ahead of it, and as long as it
\* can be read its workspace is the session's.
TokOK(t) ==
    t # None =>
        /\ sess[t.id] # None
        /\ t.gen <= sess[t.id].gen
        /\ Current(t) => sess[t.id].ws = t.ws
        /\ Previous(t) /\ sess[t.id].prev = "authorizes" => sess[t.id].ws = t.ws

Out(t) == t # None => sess[t.id].over \/ Overtaken(t)

\* What is known of a request by the step it is at.
ReqOK(r) ==
    /\ TokOK(req[r].tok) /\ TokOK(req[r].out)
    /\ req[r].sid # None => req[r].tok # None /\ req[r].sid = req[r].tok.id
    /\ req[r].at \in {"rotate", "switch"} => req[r].tok # None
    /\ req[r].at = "end" => req[r].sid # None
    /\ req[r].at = "consume" => req[r].kind = "login"
    /\ req[r].at = "passkey" => req[r].kind = "passkey"
    /\ req[r].kind \in {"login", "passkey"} => req[r].link # None /\ link[req[r].link] # None
    /\ req[r].kind = "login" => link[req[r].link].for # None
    /\ req[r].at \in {"exchange", "exchanging"} => req[r].legacy # None
    /\ req[r].at = "exchanging" => req[r].legacy \notin revokedSid
    /\ req[r].kind = "logout" => req[r].at \in {"revoke", "revokeLegacy", "answer"}
    /\ req[r].kind = "logout" /\ req[r].at # "revoke" => Out(req[r].tok)
    /\ req[r].kind = "logout" /\ req[r].at = "answer" /\ req[r].legacy # None =>
          req[r].legacy \in revokedSid

\* A browser waits to confirm a link that exists, and was told that it is signed out by a logout.
BrowserOK(b) ==
    /\ TokOK(cookie[b])
    /\ pend[b] # None => link[pend[b]] # None
    /\ gone[b] # None =>
          /\ TokOK(gone[b].tok) /\ Out(gone[b].tok)
          /\ gone[b].legacy # None => gone[b].legacy \in revokedSid

\* The credential of a session is used up.
Spent(s) ==
    sess[s] # None =>
        /\ sess[s].from \in Links => link[sess[s].from] # None /\ link[sess[s].from].state # "active"
        /\ sess[s].from \in revokedSid => sess[s].over

IInv ==
    /\ TypeOK
    /\ \A r \in Requests : ReqOK(r)
    /\ \A b \in Browsers : BrowserOK(b)
    /\ \A s \in Sessions : Spent(s)
    /\ OneSessionPerCredential

LEMMA InitInv == Init => IInv
<1> SUFFICES ASSUME Init PROVE IInv
  OBVIOUS
<1> USE NoneIsNothing, NoneIsNoRow
<1>1. Idle \in RequestRows
  BY DEF Idle, RequestRows, Kinds, Steps
<1>2. TypeOK
  BY <1>1 DEF Init, TypeOK
<1>3. ASSUME NEW r \in Requests PROVE ReqOK(r)
  BY DEF Init, ReqOK, TokOK, Idle
<1>4. \A b \in Browsers : BrowserOK(b)
  BY DEF Init, BrowserOK, TokOK
<1>5. (\A s \in Sessions : Spent(s)) /\ OneSessionPerCredential
  BY DEF Init, Spent, OneSessionPerCredential, Made
<1> QED BY <1>2, <1>3, <1>4, <1>5 DEF IInv

-----------------------------------------------------------------------------
(* What every step does *)

\* A session from one step to the next.
Grows(s) ==
    sess[s] # None =>
        /\ sess'[s] # None
        /\ sess'[s].from = sess[s].from
        /\ sess[s].over => sess'[s].over
        /\ \/ /\ sess'[s].gen = sess[s].gen /\ sess'[s].ws = sess[s].ws
              /\ sess'[s].prev = sess[s].prev \/ (sess[s].prev = "authorizes" /\ sess'[s].prev = "revokes")
           \/ /\ sess'[s].gen = sess[s].gen + 1
              /\ sess'[s].prev = "authorizes" => sess'[s].ws = sess[s].ws

\* A link from one step to the next.
Ages(c) ==
    link[c] # None =>
        /\ link'[c] # None /\ link'[c].for = link[c].for
        /\ link[c].state # "active" => link'[c].state # "active"

\* A session that was not there is the only one that its credential makes.
Fresh(s) ==
    sess[s] = None /\ sess'[s] # None =>
        /\ \A t \in Sessions \ {s} : sess'[t] # None => sess'[t].from # sess'[s].from
        /\ Spent(s)'

\* A session that was there is over if its old cookie has been revoked.
Closes(s) == sess[s] # None /\ sess'[s].from \in revokedSid' => sess'[s].over

StepOK ==
    /\ TypeOK'
    /\ \A s \in Sessions : Grows(s) /\ Fresh(s) /\ Closes(s)
    /\ \A c \in Links : Ages(c)
    /\ revokedSid \subseteq revokedSid'
    /\ \A r \in Requests : req[r].at = "exchanging" => req[r].legacy \notin revokedSid' \/ req'[r] # req[r]

LEMMA TokenStays ==
    ASSUME TypeOK, StepOK, NEW t \in Tokens \cup {None}, TokOK(t)
    PROVE  TokOK(t)' /\ (Out(t) => Out(t)')
<1> SUFFICES ASSUME t # None PROVE TokOK(t)' /\ (Out(t) => Out(t)')
  BY DEF TokOK, Out
<1>1. t.id \in Sessions /\ t.gen \in Nat /\ sess[t.id] # None /\ t.gen <= sess[t.id].gen
  BY DEF Tokens, TokOK
<1>2. sess[t.id] \in SessionRows /\ sess'[t.id] \in SessionRows /\ Grows(t.id)
  BY <1>1 DEF TypeOK, StepOK, Grows
<1>3. /\ sess[t.id].gen \in Nat /\ sess'[t.id].gen \in Nat
      /\ sess[t.id].prev \in {"none", "authorizes", "revokes"}
  BY <1>2 DEF SessionRows
<1>4. sess'[t.id] # None
  BY <1>1, <1>2 DEF Grows
<1>5. TokOK(t)'
  BY <1>1, <1>2, <1>3, <1>4 DEF TokOK, Grows, Current, Previous
<1>6. Out(t) => Out(t)'
  BY <1>1, <1>2, <1>3, <1>4 DEF Out, Overtaken, Grows, Current, Previous
<1> QED BY <1>5, <1>6

\* A request that waits knows what it knew.
LEMMA RequestStays ==
    ASSUME IInv, StepOK, NEW r \in Requests, req'[r] = req[r]
    PROVE  ReqOK(r)'
<1>1. ReqOK(r) /\ req[r] \in RequestRows /\ TypeOK
  BY DEF IInv, TypeOK
<1>2. req[r].tok \in Tokens \cup {None} /\ req[r].out \in Tokens \cup {None} /\ req[r].link \in Links \cup {None}
  BY <1>1 DEF RequestRows
<1>3. TokOK(req[r].tok)' /\ TokOK(req[r].out)' /\ (Out(req[r].tok) => Out(req[r].tok)')
  <2>1. TokOK(req[r].tok) /\ TokOK(req[r].out)
    BY <1>1 DEF ReqOK
  <2> DEFINE t == req[r].tok
             o == req[r].out
  <2>2. t' = t /\ o' = o
    OBVIOUS
  <2>3. \A x \in Tokens \cup {None} : TokOK(x) => TokOK(x)' /\ (Out(x) => Out(x)')
    BY <1>1, TokenStays
  <2> QED BY <1>2, <2>1, <2>2, <2>3 DEF TokOK, Out, Overtaken, Current, Previous
<1>4. link[req[r].link] # None /\ req[r].link # None =>
         link'[req[r].link] # None /\ link'[req[r].link].for = link[req[r].link].for
  BY <1>2 DEF StepOK, Ages
<1>5. revokedSid \subseteq revokedSid' /\ (req[r].at = "exchanging" => req[r].legacy \notin revokedSid')
  BY DEF StepOK
<1> QED BY <1>1, <1>3, <1>4, <1>5 DEF ReqOK

LEMMA SessionsStay ==
    ASSUME IInv, StepOK
    PROVE  (\A s \in Sessions : Spent(s))' /\ OneSessionPerCredential'
<1>1. TypeOK /\ OneSessionPerCredential /\ \A s \in Sessions : Spent(s)
  BY DEF IInv
<1>2. ASSUME NEW s \in Sessions PROVE Spent(s)'
  <2>1. CASE sess[s] = None
    BY <2>1 DEF StepOK, Fresh, Spent
  <2>2. CASE sess[s] # None
    <3>1. sess'[s].from = sess[s].from /\ Closes(s)
      BY <2>2 DEF StepOK, Grows
    <3> QED BY <1>1, <2>2, <3>1 DEF StepOK, Spent, Closes, Ages
  <2> QED BY <2>1, <2>2
<1>3. ASSUME NEW s \in Sessions, NEW t \in Sessions, sess'[s] # None, sess'[t] # None,
             sess'[s].from = sess'[t].from
      PROVE  s = t
  <2>1. CASE sess[s] = None \/ sess[t] = None
    BY <1>3, <2>1 DEF StepOK, Fresh
  <2>2. CASE sess[s] # None /\ sess[t] # None
    <3>1. sess'[s].from = sess[s].from /\ sess'[t].from = sess[t].from
      BY <2>2 DEF StepOK, Grows
    <3> QED BY <1>1, <1>3, <2>2, <3>1 DEF OneSessionPerCredential, Made
  <2> QED BY <2>1, <2>2
<1>4. OneSessionPerCredential'
  BY <1>3 DEF OneSessionPerCredential, Made
<1> QED BY <1>2, <1>4

\* What a browser has it keeps, if the step leaves the browsers alone.
LEMMA BrowsersStay ==
    ASSUME IInv, StepOK, NEW b \in Browsers,
           cookie'[b] = cookie[b], pend'[b] = pend[b], gone'[b] = gone[b]
    PROVE  BrowserOK(b)'
<1>1. BrowserOK(b) /\ TypeOK
  BY DEF IInv
<1>2. cookie[b] \in Tokens \cup {None} /\ pend[b] \in Links \cup {None}
      /\ (gone[b] # None => gone[b].tok \in Tokens \cup {None})
  BY <1>1 DEF TypeOK, Presented
<1>3. \A x \in Tokens \cup {None} : TokOK(x) => TokOK(x)' /\ (Out(x) => Out(x)')
  BY <1>1, TokenStays
<1>4. TokOK(cookie[b])'
  <2>1. TokOK(cookie[b])
    BY <1>1 DEF BrowserOK
  <2> QED BY <1>2, <1>3, <2>1 DEF TokOK, Current, Previous
<1>5. pend'[b] # None => link'[pend'[b]] # None
  BY <1>1, <1>2 DEF BrowserOK, StepOK, Ages
<1>6. gone[b] # None => TokOK(gone[b].tok)' /\ Out(gone[b].tok)'
  <2>1. gone[b] # None => TokOK(gone[b].tok) /\ Out(gone[b].tok)
    BY <1>1 DEF BrowserOK
  <2> QED BY <1>2, <1>3, <2>1 DEF TokOK, Out, Overtaken, Current, Previous
<1>7. gone[b] # None /\ gone[b].legacy # None => gone[b].legacy \in revokedSid'
  BY <1>1 DEF BrowserOK, StepOK
<1> QED BY <1>4, <1>5, <1>6, <1>7 DEF BrowserOK

\* A step of one request that leaves the browsers alone.
LEMMA StepKeeps ==
    ASSUME IInv, StepOK, NEW r \in Requests, UNCHANGED clients,
           \A q \in Requests \ {r} : req'[q] = req[q],
           ReqOK(r)'
    PROVE  IInv'
<1>1. \A q \in Requests : ReqOK(q)'
  BY RequestStays
<1>2. \A b \in Browsers : BrowserOK(b)'
  BY BrowsersStay DEF clients
<1> QED BY <1>1, <1>2, SessionsStay DEF IInv, StepOK

-----------------------------------------------------------------------------
(* The parts that the actions are made of *)

SessOK ==
    /\ sess' \in [Sessions -> SessionRows \cup {None}]
    /\ \A s \in Sessions : Grows(s) /\ Fresh(s)
LinkOK == link' \in [Links -> LinkRows \cup {None}] /\ \A c \in Links : Ages(c)

LEMMA ServerStep ==
    ASSUME IInv, SessOK, LinkOK, active' \subseteq Users, migrated' \subseteq Users,
           revokedSid' = revokedSid, UNCHANGED clients, req' \in [Requests -> RequestRows]
    PROVE  StepOK
<1>1. TypeOK'
  BY DEF IInv, TypeOK, SessOK, LinkOK, clients
<1>2. ASSUME NEW s \in Sessions PROVE Closes(s)
  BY DEF IInv, SessOK, Grows, Closes, Spent
<1>3. \A r \in Requests : req[r].at = "exchanging" => req[r].legacy \notin revokedSid'
  BY DEF IInv, ReqOK
<1> QED BY <1>1, <1>2, <1>3 DEF StepOK, SessOK, LinkOK

LEMMA LinksUnchanged == ASSUME IInv, link' = link PROVE LinkOK
BY DEF IInv, TypeOK, LinkOK, Ages

LEMMA SessionsUnchanged == ASSUME IInv, sess' = sess PROVE SessOK
<1>1. sess \in [Sessions -> SessionRows \cup {None}]
  BY DEF IInv, TypeOK
<1>2. \A s \in Sessions : Grows(s)
  BY <1>1 DEF Grows
<1>3. \A s \in Sessions : Fresh(s)
  BY DEF Fresh
<1> QED BY <1>1, <1>2, <1>3 DEF SessOK

LEMMA EndMoves ==
    ASSUME IInv, NEW r \in Requests, Ends(r)
    PROVE  /\ req' \in [Requests -> RequestRows]
           /\ \A q \in Requests \ {r} : req'[q] = req[q]
           /\ req'[r] = Idle
           /\ ReqOK(r)'
<1>1. req \in [Requests -> RequestRows]
  BY DEF IInv, TypeOK
<1>2. Idle \in RequestRows
  BY DEF Idle, RequestRows, Kinds, Steps
<1>3. req' \in [Requests -> RequestRows] /\ (\A q \in Requests \ {r} : req'[q] = req[q]) /\ req'[r] = Idle
  BY <1>1, <1>2 DEF Ends
<1>4. ReqOK(r)'
  BY <1>3 DEF ReqOK, TokOK, Idle
<1> QED BY <1>3, <1>4

LEMMA AnswerMoves ==
    ASSUME IInv, NEW r \in Requests, NEW t \in Tokens \cup {None},
           NEW names \in SUBSET {"session", "rr_sid", "link"}, Answers(r, t, names),
           req[r].kind # "logout"
    PROVE  /\ req' \in [Requests -> RequestRows]
           /\ \A q \in Requests \ {r} : req'[q] = req[q]
           /\ TokOK(t)' => ReqOK(r)'
<1>1. req \in [Requests -> RequestRows]
  BY DEF IInv, TypeOK
<1> DEFINE quiet == [Idle EXCEPT !.at = "answer", !.by = req[r].by, !.out = t, !.clears = names]
<1>2. /\ quiet \in RequestRows
      /\ quiet.tok = None /\ quiet.out = t /\ quiet.sid = None /\ quiet.at = "answer" /\ quiet.kind = "none"
  BY <1>1 DEF Idle, RequestRows, Kinds, Steps
<1>3. req' = [req EXCEPT ![r] = quiet]
  BY <1>1 DEF Answers, RequestRows
<1> HIDE DEF quiet
<1>4. req' \in [Requests -> RequestRows] /\ (\A q \in Requests \ {r} : req'[q] = req[q]) /\ req'[r] = quiet
  BY <1>1, <1>2, <1>3
<1>5. ASSUME TokOK(t)' PROVE ReqOK(r)'
  <2>1. req'[r].tok = None /\ req'[r].out = t /\ req'[r].sid = None /\ req'[r].at = "answer" /\ req'[r].kind = "none"
    BY <1>2, <1>4
  <2>2. TokOK(req[r].tok)' /\ TokOK(req[r].out)'
    BY <1>5, <2>1 DEF TokOK, Current, Previous
  <2> QED BY <2>1, <2>2 DEF ReqOK
<1> QED BY <1>4, <1>5

\* A request goes on with what it has; more is known of it at its next step.
LEMMA GoMoves ==
    ASSUME IInv, NEW r \in Requests, NEW at \in Steps, Goes(r, at)
    PROVE  /\ req' \in [Requests -> RequestRows]
           /\ \A q \in Requests \ {r} : req'[q] = req[q]
           /\ req'[r] = [req[r] EXCEPT !.at = at]
<1>1. req \in [Requests -> RequestRows]
  BY DEF IInv, TypeOK
<1>2. [req[r] EXCEPT !.at = at] \in RequestRows
  BY <1>1 DEF RequestRows
<1> QED BY <1>1, <1>2 DEF Goes

LEMMA RevokedRow ==
    ASSUME IInv, NEW s \in Sessions, sess[s] # None, NEW row, row = [sess[s] EXCEPT !.over = TRUE]
    PROVE  /\ row \in SessionRows /\ row # None /\ row.over /\ row.from = sess[s].from
           /\ row.gen = sess[s].gen /\ row.ws = sess[s].ws /\ row.prev = sess[s].prev
<1>1. sess[s] \in SessionRows
  BY DEF IInv, TypeOK
<1> QED BY <1>1, NoneIsNoRow DEF SessionRows

LEMMA RevokedRows ==
    ASSUME IInv, NEW S \in SUBSET Sessions, \A s \in S : sess[s] # None
    PROVE  Revoke(S) \in [Sessions -> SessionRows \cup {None}]
<1>1. sess \in [Sessions -> SessionRows \cup {None}]
  BY DEF IInv, TypeOK
<1>2. ASSUME NEW s \in Sessions PROVE Revoke(S)[s] \in SessionRows \cup {None}
  <2>1. CASE s \in S
    <3>1. PICK row : row = [sess[s] EXCEPT !.over = TRUE]
      OBVIOUS
    <3>2. row \in SessionRows
      BY <2>1, <3>1, RevokedRow
    <3> QED BY <2>1, <3>1, <3>2 DEF Revoke
  <2>2. CASE s \notin S
    BY <1>1, <2>2 DEF Revoke
  <2> QED BY <2>1, <2>2
<1> QED BY <1>2 DEF Revoke

\* The sessions in S are revoked; the step may do something else to all but x.
LEMMA RevokedGrows ==
    ASSUME IInv, NEW S \in SUBSET Sessions, \A s \in S : sess[s] # None,
           NEW x \in Sessions, sess'[x] = Revoke(S)[x]
    PROVE  /\ Grows(x) /\ Fresh(x)
           /\ sess[x] = None <=> sess'[x] = None
           /\ sess[x] # None => sess'[x].from = sess[x].from
           /\ x \in S => sess'[x].over
<1>1. CASE x \in S
  <2>1. PICK row : row = [sess[x] EXCEPT !.over = TRUE]
    OBVIOUS
  <2>2. sess'[x] = row
    BY <1>1, <2>1 DEF Revoke
  <2>3. sess[x] # None /\ row # None /\ row.over /\ row.from = sess[x].from
        /\ row.gen = sess[x].gen /\ row.ws = sess[x].ws /\ row.prev = sess[x].prev
    BY <1>1, <2>1, RevokedRow
  <2> QED BY <1>1, <2>2, <2>3 DEF Grows, Fresh
<1>2. CASE x \notin S
  <2>1. sess'[x] = sess[x]
    BY <1>2 DEF Revoke
  <2> QED BY <1>2, <2>1 DEF Grows, Fresh
<1> QED BY <1>1, <1>2

LEMMA RevokeMoves ==
    ASSUME IInv, NEW S \in SUBSET Sessions, \A s \in S : sess[s] # None, sess' = Revoke(S)
    PROVE  /\ SessOK
           /\ \A s \in S : sess'[s].over
           /\ \A s \in Sessions : sess[s] # None => sess'[s].from = sess[s].from
<1>1. sess' \in [Sessions -> SessionRows \cup {None}]
  BY RevokedRows
<1>2. \A x \in Sessions : sess'[x] = Revoke(S)[x]
  OBVIOUS
<1>3. \A x \in Sessions : Grows(x) /\ Fresh(x)
  BY <1>2, RevokedGrows
<1>4. \A x \in S : sess'[x].over
  BY <1>2, RevokedGrows
<1>5. \A x \in Sessions : sess[x] # None => sess'[x].from = sess[x].from
  BY <1>2, RevokedGrows
<1> QED BY <1>1, <1>3, <1>4, <1>5 DEF SessOK

LEMMA NextRow ==
    ASSUME IInv, NEW s \in Sessions, sess[s] # None, NEW prev \in {"none", "authorizes", "revokes"},
           NEW w \in Workspaces, NEW row, row = NextToken(s, prev, w)
    PROVE  /\ row \in SessionRows /\ row.gen = sess[s].gen + 1 /\ row.prev = prev /\ row.ws = w
           /\ row.from = sess[s].from /\ row.over = sess[s].over /\ row.gen \in Nat /\ row # None
<1>1. sess[s] \in SessionRows
  BY DEF IInv, TypeOK
<1>2. sess[s].gen \in Nat /\ sess[s].gen + 1 \in Nat
  BY <1>1 DEF SessionRows
<1>3. row = [user |-> sess[s].user, ws |-> w, gen |-> sess[s].gen + 1, prev |-> prev,
             over |-> sess[s].over, from |-> sess[s].from]
  BY <1>1 DEF NextToken, SessionRows
<1>4. row \in SessionRows
  BY <1>1, <1>2, <1>3 DEF SessionRows
<1> QED BY <1>2, <1>3, <1>4, NoneIsNoRow

\* The next token can be read in the workspace that is handed out with it.
LEMMA NextMoves ==
    ASSUME IInv, NEW s \in Sessions, sess[s] # None, NEW prev \in {"none", "authorizes", "revokes"},
           NEW w \in Workspaces, prev = "authorizes" => w = sess[s].ws,
           sess'[s] = NextToken(s, prev, w), sess' \in [Sessions -> SessionRows \cup {None}],
           \A x \in Sessions \ {s} : Grows(x) /\ Fresh(x),
           NEW t, t = [id |-> s, gen |-> NextToken(s, prev, w).gen, ws |-> NextToken(s, prev, w).ws]
    PROVE  SessOK /\ t \in Tokens /\ TokOK(t)'
<1> DEFINE row == NextToken(s, prev, w)
<1>1. sess[s] \in SessionRows
  BY DEF IInv, TypeOK
<1>2. /\ row \in SessionRows /\ row.gen = sess[s].gen + 1 /\ row.prev = prev /\ row.ws = w
      /\ row.from = sess[s].from /\ row.over = sess[s].over /\ row.gen \in Nat /\ row # None
  BY NextRow
<1> HIDE DEF row
<1>3. sess'[s] = row /\ row # None /\ t = [id |-> s, gen |-> row.gen, ws |-> w]
  BY <1>2 DEF row
<1>4. Grows(s) /\ Fresh(s)
  BY <1>2, <1>3 DEF Grows, Fresh
<1>5. SessOK
  BY <1>4 DEF SessOK
<1>6. t \in Tokens /\ t.id = s /\ t.gen = row.gen /\ t.ws = w
  BY <1>2, <1>3 DEF Tokens
<1>7. sess'[s] # None /\ row.gen <= sess'[s].gen /\ sess'[s].ws = w
  BY <1>2, <1>3
<1>8. TokOK(t)'
  BY <1>6, <1>7 DEF TokOK
<1> QED BY <1>5, <1>6, <1>8

\* A new session comes from a credential that made none, and is not from a revoked cookie.
LEMMA NewMoves ==
    ASSUME IInv, NEW s \in Sessions, sess[s] = None, NEW u \in Users, NEW c \in Links \cup Users,
           sess'[s] = NewSession(u, c), sess' \in [Sessions -> SessionRows \cup {None}],
           \A x \in Sessions \ {s} : /\ Grows(x) /\ (sess[x] = None <=> sess'[x] = None)
                                     /\ sess[x] # None => sess'[x].from = sess[x].from,
           \A x \in Sessions : sess[x] # None => sess[x].from # c,
           c \in Links => link'[c] # None /\ link'[c].state # "active",
           c \notin revokedSid, revokedSid' = revokedSid,
           NEW t, t = FirstToken(s, u)
    PROVE  SessOK /\ t \in Tokens /\ TokOK(t)'
<1>1. /\ sess'[s] \in SessionRows /\ sess'[s].from = c /\ sess'[s].gen = 0 /\ sess'[s].ws = u
      /\ sess'[s].over = FALSE
  BY DEF NewSession, SessionRows, Workspaces
<1>2. sess'[s] # None
  BY <1>1, NoneIsNoRow
<1>3. Spent(s)'
  BY <1>1 DEF Spent
<1>4. Grows(s) /\ Fresh(s)
  BY <1>1, <1>3 DEF Grows, Fresh
<1>5. ASSUME NEW x \in Sessions PROVE Grows(x) /\ Fresh(x)
  BY <1>4 DEF Fresh
<1>6. t \in Tokens /\ t.id = s /\ t.gen = 0 /\ t.ws = u
  BY DEF FirstToken, Tokens, Workspaces
<1>7. TokOK(t)'
  BY <1>1, <1>2, <1>6 DEF TokOK
<1> QED BY <1>5, <1>6, <1>7 DEF SessOK

-----------------------------------------------------------------------------
(* The actions *)

\* When the tables stay as they are, a request is as good as what it has.
LEMMA OnlyRequest ==
    ASSUME IInv, NEW r \in Requests, UNCHANGED <<sess, active, link, migrated, revokedSid, clients>>,
           req' \in [Requests -> RequestRows], \A q \in Requests \ {r} : req'[q] = req[q], ReqOK(r)'
    PROVE  IInv'
<1>1. active' \subseteq Users /\ migrated' \subseteq Users
  BY DEF IInv, TypeOK
<1>2. StepOK
  BY <1>1, LinksUnchanged, SessionsUnchanged, ServerStep
<1> QED BY <1>2, StepKeeps

LEMMA StartKeeps ==
    ASSUME IInv, NEW r \in Requests, NEW b \in Browsers, NEW kind \in Kinds, Start(r, b, kind)
    PROVE  IInv'
<1>1. /\ cookie[b] \in Tokens \cup {None} /\ legacy[b] \in Users \cup {None} /\ pend[b] \in Links \cup {None}
      /\ req \in [Requests -> RequestRows] /\ BrowserOK(b)
  BY DEF IInv, TypeOK
<1> DEFINE q == Sent(kind, b)
<1>2. q = [kind |-> kind, at |-> FirstStep(kind), by |-> b, tok |-> cookie[b],
           legacy |-> IF kind \in {"refresh", "logout", "login"} THEN legacy[b] ELSE None,
           link |-> IF kind \in {"login", "passkey"} THEN pend[b] ELSE None,
           sid |-> None, out |-> None, clears |-> {}]
  BY DEF Sent
<1>3. req' = [req EXCEPT ![r] = q]
  BY DEF Start
<1> HIDE DEF q
<1>4. /\ FirstStep(kind) \in {"revoke", "consume", "read"}
      /\ FirstStep(kind) = "consume" => kind = "login"
      /\ kind = "logout" => FirstStep(kind) = "revoke"
  BY DEF FirstStep, Kinds
<1>5. q \in RequestRows
  BY <1>1, <1>2, <1>4 DEF RequestRows, Steps
<1>6. req' \in [Requests -> RequestRows] /\ req'[r] = q /\ \A x \in Requests \ {r} : req'[x] = req[x]
  BY <1>1, <1>3, <1>5
<1>7. UNCHANGED <<sess, link, revokedSid, clients, active, migrated>>
  BY DEF Start, server
<1>8. TokOK(req[r].tok)' /\ TokOK(req[r].out)'
  <2>1. req'[r].tok = cookie[b] /\ req'[r].out = None
    BY <1>2, <1>6
  <2>2. TokOK(cookie[b])
    BY <1>1 DEF BrowserOK
  <2> QED BY <1>7, <2>1, <2>2 DEF TokOK, Current, Previous
<1>9. ReqOK(r)'
  <2>1. /\ req'[r].kind = kind /\ req'[r].at = FirstStep(kind) /\ req'[r].sid = None
        /\ kind \in {"login", "passkey"} => req'[r].link = pend[b]
    BY <1>2, <1>6
  <2>2. /\ kind \in {"login", "passkey"} => pend[b] # None
        /\ kind = "login" => link[pend[b]].for # None
    BY DEF Start
  <2>3. pend[b] # None => link[pend[b]] # None
    BY <1>1 DEF BrowserOK
  <2> QED BY <1>4, <1>7, <1>8, <2>1, <2>2, <2>3 DEF ReqOK
<1> QED BY <1>6, <1>7, <1>9, OnlyRequest

\* A request goes on with the tables and the browsers as they are.
LEMMA GoKeeps ==
    ASSUME IInv, NEW r \in Requests, NEW at \in Steps, Goes(r, at),
           UNCHANGED <<sess, active, link, migrated, revokedSid, clients>>,
           req[r].kind # "logout", at \notin {"consume", "end"},
           at \in {"rotate", "switch"} => req[r].tok # None,
           at = "passkey" => req[r].kind = "passkey",
           at \in {"exchange", "exchanging"} => req[r].legacy # None,
           at = "exchanging" => req[r].legacy \notin revokedSid
    PROVE  IInv'
<1>1. /\ req' \in [Requests -> RequestRows] /\ \A q \in Requests \ {r} : req'[q] = req[q]
      /\ req'[r] = [req[r] EXCEPT !.at = at]
  BY GoMoves
<1>2. req[r] \in RequestRows /\ ReqOK(r)
  BY DEF IInv, TypeOK
<1>3. /\ req'[r].at = at /\ req'[r].kind = req[r].kind /\ req'[r].tok = req[r].tok
      /\ req'[r].out = req[r].out /\ req'[r].sid = req[r].sid /\ req'[r].link = req[r].link
      /\ req'[r].legacy = req[r].legacy
  BY <1>1, <1>2 DEF RequestRows
<1>4. TokOK(req[r].tok)' /\ TokOK(req[r].out)'
  BY <1>2, <1>3 DEF ReqOK, TokOK, Current, Previous
<1>5. ReqOK(r)'
  BY <1>2, <1>3, <1>4 DEF ReqOK
<1> QED BY <1>1, <1>5, OnlyRequest

LEMMA ReadKeeps ==
    ASSUME IInv, NEW r \in Requests, ReadSession(r) PROVE IInv'
<1>1. req[r] \in RequestRows /\ req \in [Requests -> RequestRows] /\ ReqOK(r)
  BY DEF IInv, TypeOK
<1>2. UNCHANGED <<sess, active, link, migrated, revokedSid, clients>> /\ req[r].at = "read"
  BY DEF ReadSession
<1>3. CASE Ends(r)
  BY <1>2, <1>3, EndMoves, OnlyRequest
<1>4. CASE req[r].kind = "refresh" /\ req[r].tok # None /\ Goes(r, "rotate")
  BY <1>2, <1>4, GoKeeps DEF Steps
<1>5. CASE req[r].kind = "refresh" /\ req[r].legacy # None /\ Goes(r, "exchange")
  BY <1>2, <1>5, GoKeeps DEF Steps
<1>6. CASE req[r].kind = "switch" /\ req[r].tok # None /\ Goes(r, "switch")
  BY <1>2, <1>6, GoKeeps DEF Steps
<1>7. CASE req[r].kind \in {"email", "passkey"} /\ Goes(r, req[r].kind)
  BY <1>2, <1>7, GoKeeps DEF Steps
<1>8. ASSUME NEW at \in {"email", "passkey", "end"}, req[r].tok # None,
             req[r].kind # "logout", at = "passkey" => req[r].kind = "passkey",
             req' = [req EXCEPT ![r].at = at, ![r].sid = req[r].tok.id]
      PROVE  IInv'
  <2>1. req[r].tok \in Tokens /\ req[r].tok.id \in Sessions /\ req[r].tok.id # None
    BY <1>1, <1>8, NoneIsNothing DEF RequestRows, Tokens
  <2> DEFINE next == [req[r] EXCEPT !.at = at, !.sid = req[r].tok.id]
  <2>2. /\ next \in RequestRows /\ next.at = at /\ next.kind = req[r].kind /\ next.tok = req[r].tok
        /\ next.out = req[r].out /\ next.sid = req[r].tok.id /\ next.link = req[r].link
    BY <1>1, <1>8, <2>1 DEF RequestRows, Steps
  <2>3. req' = [req EXCEPT ![r] = next]
    BY <1>1, <1>8 DEF RequestRows
  <2> HIDE DEF next
  <2>4. req' \in [Requests -> RequestRows] /\ req'[r] = next /\ \A q \in Requests \ {r} : req'[q] = req[q]
    BY <1>1, <2>2, <2>3
  <2>5. TokOK(req[r].tok)' /\ TokOK(req[r].out)'
    BY <1>1, <1>2, <2>2, <2>4 DEF ReqOK, TokOK, Current, Previous
  <2>6. ReqOK(r)'
    BY <1>1, <1>2, <1>8, <2>1, <2>2, <2>4, <2>5 DEF ReqOK
  <2> QED BY <1>2, <2>4, <2>6, OnlyRequest
<1> QED BY <1>3, <1>4, <1>5, <1>6, <1>7, <1>8 DEF ReadSession, Found

LEMMA BeginExchangeKeeps ==
    ASSUME IInv, NEW r \in Requests, BeginExchange(r) PROVE IInv'
<1>1. ReqOK(r) /\ UNCHANGED <<sess, active, link, migrated, revokedSid, clients>> /\ req[r].at = "exchange"
  BY DEF IInv, BeginExchange, server
<1>2. CASE Ends(r)
  BY <1>1, <1>2, EndMoves, OnlyRequest
<1>3. CASE Goes(r, "exchanging") /\ req[r].legacy \notin revokedSid
  BY <1>1, <1>3, GoKeeps DEF Steps, ReqOK
<1> QED BY <1>2, <1>3 DEF BeginExchange

-----------------------------------------------------------------------------
(* Changes of the token *)

\* The session that a request holds the current token of gets its next one.
LEMMA ChangeKeeps ==
    ASSUME IInv, NEW r \in Requests, req[r].tok # None, req[r].kind # "logout",
           NEW prev \in {"none", "authorizes", "revokes"}, NEW w \in Workspaces,
           prev = "authorizes" => w = sess[req[r].tok.id].ws,
           sess' = [sess EXCEPT ![req[r].tok.id] = NextToken(req[r].tok.id, prev, w)],
           Answers(r, [id |-> req[r].tok.id, gen |-> NextToken(req[r].tok.id, prev, w).gen,
                       ws |-> NextToken(req[r].tok.id, prev, w).ws], {}),
           UNCHANGED <<active, link, migrated, revokedSid, clients>>
    PROVE  IInv'
<1>1. req[r] \in RequestRows /\ ReqOK(r) /\ sess \in [Sessions -> SessionRows \cup {None}]
  BY DEF IInv, TypeOK
<1> DEFINE s == req[r].tok.id
<1>2. s \in Sessions /\ sess[s] # None
  BY <1>1 DEF RequestRows, Tokens, ReqOK, TokOK
<1>3. NextToken(s, prev, w) \in SessionRows
  BY <1>2, NextRow
<1>4. /\ sess' \in [Sessions -> SessionRows \cup {None}] /\ sess'[s] = NextToken(s, prev, w)
      /\ \A x \in Sessions \ {s} : sess'[x] = sess[x]
  BY <1>1, <1>2, <1>3
<1>5. \A x \in Sessions \ {s} : Grows(x) /\ Fresh(x)
  BY <1>4 DEF Grows, Fresh
<1>6. PICK t : t = [id |-> s, gen |-> NextToken(s, prev, w).gen, ws |-> NextToken(s, prev, w).ws]
  OBVIOUS
<1>7. prev = "authorizes" => w = sess[s].ws
  OBVIOUS
<1> HIDE DEF s
<1>8. SessOK /\ t \in Tokens /\ TokOK(t)'
  BY <1>2, <1>4, <1>5, <1>6, <1>7, NextMoves
<1>9. Answers(r, t, {})
  BY <1>6 DEF s
<1>10. req' \in [Requests -> RequestRows] /\ (\A q \in Requests \ {r} : req'[q] = req[q]) /\ ReqOK(r)'
  BY <1>8, <1>9, AnswerMoves
<1>11. active' \subseteq Users /\ migrated' \subseteq Users
  BY DEF IInv, TypeOK
<1>12. StepOK
  BY <1>8, <1>10, <1>11, LinksUnchanged, ServerStep
<1> QED BY <1>10, <1>12, StepKeeps

LEMMA RotateKeeps == ASSUME IInv, NEW r \in Requests, Rotate(r) PROVE IInv'
<1>1. req[r] \in RequestRows /\ ReqOK(r) /\ sess \in [Sessions -> SessionRows \cup {None}]
  BY DEF IInv, TypeOK
<1>2. req[r].tok # None /\ req[r].kind # "logout"
  BY <1>1 DEF ReqOK, Rotate
<1>3. UNCHANGED <<active, link, migrated, revokedSid, clients>>
  BY DEF Rotate
<1>4. CASE NamedByCurrent(req[r].tok)
  <2>1. req[r].tok.id \in Sessions /\ sess[req[r].tok.id] \in SessionRows
    BY <1>1, <1>2 DEF RequestRows, Tokens, ReqOK, TokOK
  <2>2. sess[req[r].tok.id].ws \in Workspaces
    BY <2>1 DEF SessionRows
  <2> QED BY <1>2, <1>3, <1>4, <2>2, ChangeKeeps DEF Rotate, AfterRotation
<1>5. CASE Ends(r) /\ UNCHANGED sess
  BY <1>3, <1>5, EndMoves, OnlyRequest
<1> QED BY <1>4, <1>5 DEF Rotate

LEMMA SwitchKeeps ==
    ASSUME IInv, NEW r \in Requests, NEW w \in Workspaces, SwitchWorkspace(r, w) PROVE IInv'
<1>1. req[r] \in RequestRows /\ ReqOK(r)
  BY DEF IInv, TypeOK
<1>2. req[r].tok # None /\ req[r].kind # "logout"
  BY <1>1 DEF ReqOK, SwitchWorkspace
<1>3. UNCHANGED <<active, link, migrated, revokedSid, clients>>
  BY DEF SwitchWorkspace
<1>4. CASE NamedByCurrent(req[r].tok) /\ w # sess[req[r].tok.id].ws
  BY <1>2, <1>3, <1>4, ChangeKeeps DEF SwitchWorkspace, AfterSwitch
<1>5. CASE Ends(r) /\ UNCHANGED sess
  BY <1>3, <1>5, EndMoves, OnlyRequest
<1> QED BY <1>4, <1>5 DEF SwitchWorkspace

\* The sessions of an account are there.
LEMMA SessionsOfMade == ASSUME NEW u PROVE SessionsOf(u) \subseteq Made /\ Made \subseteq Sessions
BY DEF SessionsOf, Made

LEMMA ConfirmKeeps ==
    ASSUME IInv, NEW r \in Requests, NEW u \in Users, ConfirmEmail(r, u) PROVE IInv'
<1>1. /\ req[r] \in RequestRows /\ ReqOK(r) /\ sess \in [Sessions -> SessionRows \cup {None}]
      /\ link \in [Links -> LinkRows \cup {None}] /\ active \subseteq Users /\ migrated \subseteq Users
  BY DEF IInv, TypeOK
<1>2. UNCHANGED <<active, migrated, revokedSid, clients>> /\ req[r].at = "email" /\ req[r].kind # "logout"
  BY <1>1 DEF ConfirmEmail, ReqOK
<1> DEFINE s == req[r].sid
           own == s # None /\ sess[s].user = u
           voided == [c \in Links |-> IF link[c] # None /\ link[c].for = u /\ link[c].state = "active"
                                      THEN [link[c] EXCEPT !.state = "void"] ELSE link[c]]
<1>3. CASE Ends(r) /\ UNCHANGED <<sess, link>>
  BY <1>2, <1>3, EndMoves, OnlyRequest
<1>4. ASSUME link' = voided PROVE LinkOK
  <2>1. ASSUME NEW c \in Links PROVE link'[c] \in LinkRows \cup {None} /\ Ages(c)
    <3>1. CASE link[c] # None /\ link[c].for = u /\ link[c].state = "active"
      <4>1. link'[c] = [link[c] EXCEPT !.state = "void"] /\ link[c] \in LinkRows
        BY <1>1, <1>4, <3>1
      <4>2. link'[c] \in LinkRows /\ link'[c].for = link[c].for
        BY <4>1 DEF LinkRows
      <4> QED BY <3>1, <4>2, NoneIsNoRow DEF Ages
    <3>2. CASE ~(link[c] # None /\ link[c].for = u /\ link[c].state = "active")
      BY <1>1, <1>4, <3>2 DEF Ages
    <3> QED BY <3>1, <3>2
  <2> QED BY <1>4, <2>1 DEF LinkOK
<1>5. CASE own /\ link' = voided /\ sess' = [Revoke(SessionsOf(u) \ {s}) EXCEPT ![s] = NextToken(s, "none", sess[s].ws)]
             /\ Answers(r, [id |-> s, gen |-> NextToken(s, "none", sess[s].ws).gen,
                            ws |-> NextToken(s, "none", sess[s].ws).ws], {})
  <2>1. s \in Sessions /\ sess[s] \in SessionRows /\ sess[s] # None
    BY <1>1, <1>5, NoneIsNoRow DEF RequestRows, Tokens, ReqOK, TokOK
  <2>2. PICK w \in Workspaces : w = sess[s].ws
    BY <2>1 DEF SessionRows
  <2>3. PICK S \in SUBSET Sessions : S = SessionsOf(u) \ {s}
    BY SessionsOfMade
  <2>4. \A x \in S : sess[x] # None
    BY <2>3, SessionsOfMade DEF Made
  <2>5. NextToken(s, "none", w) \in SessionRows
    BY <2>1, NextRow
  <2>6. Revoke(S) \in [Sessions -> SessionRows \cup {None}]
    BY <2>4, RevokedRows
  <2>7. /\ sess' \in [Sessions -> SessionRows \cup {None}] /\ sess'[s] = NextToken(s, "none", w)
        /\ \A x \in Sessions \ {s} : sess'[x] = Revoke(S)[x]
    BY <1>5, <2>1, <2>2, <2>3, <2>5, <2>6
  <2>8. \A x \in Sessions \ {s} : Grows(x) /\ Fresh(x)
    BY <2>4, <2>7, RevokedGrows
  <2>9. PICK t : t = [id |-> s, gen |-> NextToken(s, "none", w).gen, ws |-> NextToken(s, "none", w).ws]
    OBVIOUS
  <2>10. Answers(r, t, {})
    BY <1>5, <2>2, <2>9
  <2> HIDE DEF s
  <2>11. SessOK /\ t \in Tokens /\ TokOK(t)'
    BY <2>1, <2>7, <2>8, <2>9, NextMoves
  <2>12. req' \in [Requests -> RequestRows] /\ (\A q \in Requests \ {r} : req'[q] = req[q]) /\ ReqOK(r)'
    BY <1>2, <2>10, <2>11, AnswerMoves
  <2>13. StepOK
    BY <1>1, <1>2, <1>4, <1>5, <2>11, <2>12, ServerStep
  <2> QED BY <1>2, <2>12, <2>13, StepKeeps
<1>6. CASE link' = voided /\ sess' = Revoke(SessionsOf(u)) /\ Ends(r)
  <2>1. SessionsOf(u) \in SUBSET Sessions /\ \A x \in SessionsOf(u) : sess[x] # None
    BY SessionsOfMade DEF Made
  <2>2. SessOK
    BY <1>6, <2>1, RevokeMoves
  <2>3. req' \in [Requests -> RequestRows] /\ (\A q \in Requests \ {r} : req'[q] = req[q]) /\ ReqOK(r)'
    BY <1>6, EndMoves
  <2>4. StepOK
    BY <1>1, <1>2, <1>4, <1>6, <2>2, <2>3, ServerStep
  <2> QED BY <1>2, <2>3, <2>4, StepKeeps
<1> QED BY <1>3, <1>5, <1>6 DEF ConfirmEmail

-----------------------------------------------------------------------------
(* Signing out *)

LEMMA TokensStay ==
    ASSUME IInv, StepOK
    PROVE  \A x \in Tokens \cup {None} : TokOK(x) => TokOK(x)' /\ (Out(x) => Out(x)')
BY TokenStays DEF IInv

LEMMA AnswerRow ==
    ASSUME NEW C,
           NEW q \in [kind : Kinds \cup {"none"}, at : Steps, by : Browsers \cup {None},
                      tok : Tokens \cup {None}, legacy : Users \cup {None}, link : Links \cup {None},
                      sid : Sessions \cup {None}, out : Tokens \cup {None}, clears : C],
           NEW names \in C, NEW next, next = [q EXCEPT !.at = "answer", !.out = None, !.clears = names]
    PROVE  /\ next \in [kind : Kinds \cup {"none"}, at : Steps, by : Browsers \cup {None},
                        tok : Tokens \cup {None}, legacy : Users \cup {None}, link : Links \cup {None},
                        sid : Sessions \cup {None}, out : Tokens \cup {None}, clears : C]
           /\ next.at = "answer" /\ next.kind = q.kind /\ next.tok = q.tok
           /\ next.legacy = q.legacy /\ next.out = None /\ next.sid = q.sid
BY DEF Steps

\* A logout remembers what it was sent with.
LEMMA LogoutMoves ==
    ASSUME IInv, NEW r \in Requests, NEW names \in SUBSET {"session", "rr_sid", "link"},
           Answers(r, None, names), req[r].kind = "logout"
    PROVE  /\ req' \in [Requests -> RequestRows]
           /\ \A q \in Requests \ {r} : req'[q] = req[q]
           /\ req'[r].at = "answer" /\ req'[r].kind = "logout" /\ req'[r].tok = req[r].tok
           /\ req'[r].legacy = req[r].legacy /\ req'[r].out = None /\ req'[r].sid = req[r].sid
<1>1. req \in [Requests -> RequestRows]
  BY DEF IInv, TypeOK
<1> DEFINE whole == [req[r] EXCEPT !.at = "answer", !.out = None, !.clears = names]
<1>2. /\ whole \in RequestRows
      /\ whole.at = "answer" /\ whole.kind = "logout" /\ whole.tok = req[r].tok
      /\ whole.legacy = req[r].legacy /\ whole.out = None /\ whole.sid = req[r].sid
  <2>1. req[r] \in RequestRows
    BY <1>1
  <2>2. PICK C : C = SUBSET {"session", "rr_sid", "link"}
    OBVIOUS
  <2> HIDE DEF whole
  <2>3. names \in C
    BY <2>2
  <2>4. PICK q : q = req[r]
    OBVIOUS
  <2>5. whole = [q EXCEPT !.at = "answer", !.out = None, !.clears = names]
    BY <2>4 DEF whole
  <2>6. q \in [kind : Kinds \cup {"none"}, at : Steps, by : Browsers \cup {None},
               tok : Tokens \cup {None}, legacy : Users \cup {None}, link : Links \cup {None},
               sid : Sessions \cup {None}, out : Tokens \cup {None}, clears : C]
    BY <2>1, <2>2, <2>4 DEF RequestRows
  <2> QED BY <2>2, <2>3, <2>4, <2>5, <2>6, AnswerRow DEF RequestRows
<1>3. req' = [req EXCEPT ![r] = whole]
  BY <1>2 DEF Answers
<1> HIDE DEF whole
<1> QED BY <1>1, <1>2, <1>3

\* The session of a token that names it ends; a token that names none is out already.
LEMMA PresentedMoves ==
    ASSUME IInv, NEW t \in Tokens \cup {None}, TokOK(t),
           sess' = IF t # None /\ Names(t) THEN Revoke({t.id}) ELSE sess
    PROVE  SessOK /\ Out(t)'
<1>1. CASE t # None /\ Names(t)
  <2>1. t.id \in Sessions /\ sess[t.id] # None
    BY <1>1 DEF Tokens, TokOK
  <2>2. SessOK /\ sess'[t.id].over
    BY <1>1, <2>1, RevokeMoves
  <2> QED BY <2>2 DEF Out
<1>2. CASE ~(t # None /\ Names(t))
  <2>1. sess' = sess
    BY <1>2
  <2> QED BY <1>2, <2>1, SessionsUnchanged DEF Out, Overtaken, Names, Current, Previous
<1> QED BY <1>1, <1>2

LEMMA RevokeTokenKeeps == ASSUME IInv, NEW r \in Requests, RevokeToken(r) PROVE IInv'
<1>1. req[r] \in RequestRows /\ ReqOK(r) /\ active \subseteq Users /\ migrated \subseteq Users
  BY DEF IInv, TypeOK
<1>2. UNCHANGED <<active, link, migrated, revokedSid, clients>> /\ req[r].at = "revoke"
  BY DEF RevokeToken
<1>3. PICK t \in Tokens \cup {None} : t = req[r].tok
  BY <1>1 DEF RequestRows
<1>4. TokOK(t)
  BY <1>1, <1>3 DEF ReqOK
<1>5. SessOK /\ Out(t)'
  BY <1>3, <1>4, PresentedMoves DEF RevokeToken
<1>6. /\ req' \in [Requests -> RequestRows] /\ \A q \in Requests \ {r} : req'[q] = req[q]
      /\ req'[r] = [req[r] EXCEPT !.at = "revokeLegacy"]
  BY GoMoves DEF RevokeToken, Steps
<1>7. /\ req'[r].at = "revokeLegacy" /\ req'[r].kind = req[r].kind /\ req'[r].tok = t
      /\ req'[r].out = req[r].out /\ req'[r].sid = req[r].sid /\ req'[r].link = req[r].link
  BY <1>1, <1>3, <1>6 DEF RequestRows
<1>8. StepOK
  BY <1>1, <1>2, <1>5, <1>6, LinksUnchanged, ServerStep
<1>9. TokOK(req[r].tok)' /\ TokOK(req[r].out)' /\ Out(req[r].tok)'
  <2>1. PICK o \in Tokens \cup {None} : o = req[r].out
    BY <1>1 DEF RequestRows
  <2>2. TokOK(o)' /\ TokOK(t)'
    BY <1>1, <1>4, <1>8, <2>1, TokensStay DEF ReqOK
  <2> QED BY <1>5, <1>7, <2>1, <2>2 DEF TokOK, Out, Overtaken, Current, Previous
<1>10. ReqOK(r)'
  BY <1>1, <1>2, <1>3, <1>7, <1>9 DEF ReqOK
<1> QED BY <1>2, <1>6, <1>8, <1>10, StepKeeps

\* The old cookie's row is locked, and no exchange is between its snapshot and its rows.
LEMMA RevokeLegacyStep ==
    ASSUME IInv, NEW u \in Users, Unlocked(u), sess' = Revoke(FromLegacy(u)),
           revokedSid' = revokedSid \cup {u}, req' \in [Requests -> RequestRows],
           UNCHANGED <<active, link, migrated, clients>>
    PROVE  StepOK
<1>1. FromLegacy(u) \in SUBSET Sessions /\ \A x \in FromLegacy(u) : sess[x] # None
  BY DEF FromLegacy, Made
<1>2. /\ SessOK /\ \A x \in FromLegacy(u) : sess'[x].over
      /\ \A x \in Sessions : sess[x] # None => sess'[x].from = sess[x].from
  BY <1>1, RevokeMoves
<1>3. LinkOK
  BY LinksUnchanged
<1>4. TypeOK'
  BY <1>2, <1>3 DEF IInv, TypeOK, SessOK, LinkOK, clients
<1>5. ASSUME NEW x \in Sessions PROVE Closes(x)
  <2>1. SUFFICES ASSUME sess[x] # None, sess[x].from \in revokedSid \cup {u} PROVE sess'[x].over
    BY <1>2 DEF Closes
  <2>2. CASE sess[x].from = u
    BY <1>2, <2>1, <2>2 DEF FromLegacy, Made
  <2>3. CASE sess[x].from \in revokedSid
    BY <1>2, <2>1, <2>3 DEF IInv, Spent, SessOK, Grows
  <2> QED BY <2>1, <2>2, <2>3
<1>6. ASSUME NEW q \in Requests, req[q].at = "exchanging" PROVE req[q].legacy \notin revokedSid'
  BY <1>6 DEF IInv, ReqOK, Unlocked
<1> QED BY <1>2, <1>3, <1>4, <1>5, <1>6 DEF StepOK, SessOK, LinkOK

LEMMA RevokeLegacyKeeps == ASSUME IInv, NEW r \in Requests, RevokeLegacy(r) PROVE IInv'
<1>1. req[r] \in RequestRows /\ ReqOK(r) /\ active \subseteq Users /\ migrated \subseteq Users
  BY DEF IInv, TypeOK
<1>2. UNCHANGED <<active, link, migrated, clients>> /\ req[r].at = "revokeLegacy"
      /\ Answers(r, None, {"session", "rr_sid"})
  BY DEF RevokeLegacy
<1>3. req[r].legacy \in Users \cup {None} /\ req[r].tok \in Tokens \cup {None}
  BY <1>1 DEF RequestRows
<1>4. /\ req' \in [Requests -> RequestRows] /\ \A q \in Requests \ {r} : req'[q] = req[q]
      /\ req[r].kind # "logout" => (TokOK(None)' => ReqOK(r)')
      /\ req[r].kind = "logout" =>
            /\ req'[r].at = "answer" /\ req'[r].kind = "logout" /\ req'[r].tok = req[r].tok
            /\ req'[r].legacy = req[r].legacy /\ req'[r].out = None /\ req'[r].sid = req[r].sid
  <2>1. CASE req[r].kind = "logout"
    BY <1>2, <2>1, LogoutMoves
  <2>2. CASE req[r].kind # "logout"
    BY <1>2, <2>2, AnswerMoves
  <2> QED BY <2>1, <2>2
<1>5. StepOK
  <2>1. CASE req[r].legacy = None
    <3>1. UNCHANGED <<sess, revokedSid>>
      BY <2>1 DEF RevokeLegacy
    <3> QED BY <1>1, <1>2, <1>4, <3>1, LinksUnchanged, SessionsUnchanged, ServerStep
  <2>2. CASE req[r].legacy # None
    BY <1>2, <1>3, <1>4, <2>2, RevokeLegacyStep DEF RevokeLegacy
  <2> QED BY <2>1, <2>2
<1>6. req[r].legacy # None => req[r].legacy \in revokedSid'
  BY <1>3 DEF RevokeLegacy
<1>7. ReqOK(r)'
  <2>1. CASE req[r].kind # "logout"
    BY <1>4, <2>1 DEF TokOK
  <2>2. CASE req[r].kind = "logout"
    <3>1. TokOK(req[r].tok) /\ Out(req[r].tok)
      BY <1>1, <1>2, <2>2 DEF ReqOK
    <3>2. PICK t \in Tokens \cup {None} : t = req[r].tok
      BY <1>3
    <3>3. TokOK(t)' /\ Out(t)'
      BY <1>5, <3>1, <3>2, TokensStay
    <3>4. TokOK(req[r].tok)' /\ TokOK(req[r].out)' /\ Out(req[r].tok)'
      BY <1>4, <2>2, <3>2, <3>3 DEF TokOK, Out, Overtaken, Current, Previous
    <3> QED BY <1>1, <1>4, <1>6, <2>2, <3>4 DEF ReqOK
  <2> QED BY <2>1, <2>2
<1> QED BY <1>2, <1>4, <1>5, <1>7, StepKeeps

LEMMA EndSessionsKeeps ==
    ASSUME IInv, NEW r \in Requests, NEW S \in SUBSET Sessions, EndSessions(r, S) PROVE IInv'
<1>1. req[r] \in RequestRows /\ ReqOK(r) /\ active \subseteq Users /\ migrated \subseteq Users
  BY DEF IInv, TypeOK
<1>2. UNCHANGED <<active, link, migrated, revokedSid, clients>> /\ req[r].kind # "logout"
  BY <1>1 DEF EndSessions, ReqOK
<1>3. sess' = Revoke(S) /\ \A x \in S : sess[x] # None
  BY SessionsOfMade DEF EndSessions, Made
<1>4. SessOK
  BY <1>3, RevokeMoves
<1>5. req' \in [Requests -> RequestRows] /\ (\A q \in Requests \ {r} : req'[q] = req[q]) /\ ReqOK(r)'
  <2>1. CASE Ends(r)
    BY <2>1, EndMoves
  <2>2. CASE Answers(r, None, {"session"})
    BY <1>2, <2>2, AnswerMoves DEF TokOK
  <2> QED BY <2>1, <2>2 DEF EndSessions
<1>6. StepOK
  BY <1>1, <1>2, <1>4, <1>5, LinksUnchanged, ServerStep
<1> QED BY <1>2, <1>5, <1>6, StepKeeps

LEMMA ReplaceSessionKeeps == ASSUME IInv, NEW r \in Requests, ReplaceSession(r) PROVE IInv'
<1>1. req[r] \in RequestRows /\ ReqOK(r) /\ active \subseteq Users /\ migrated \subseteq Users
  BY DEF IInv, TypeOK
<1>2. UNCHANGED <<active, link, migrated, revokedSid, clients>> /\ req[r].kind # "logout"
  BY <1>1 DEF ReplaceSession, ReqOK
<1>3. PICK t \in Tokens \cup {None} : t = req[r].tok
  BY <1>1 DEF RequestRows
<1>4. PICK o \in Tokens \cup {None} : o = req[r].out
  BY <1>1 DEF RequestRows
<1>5. TokOK(t) /\ TokOK(o)
  BY <1>1, <1>3, <1>4 DEF ReqOK
<1>6. SessOK
  BY <1>3, <1>5, PresentedMoves DEF ReplaceSession
<1>7. req[r].clears \in SUBSET {"session", "rr_sid", "link"} /\ Answers(r, o, req[r].clears)
  BY <1>1, <1>4 DEF RequestRows, ReplaceSession
<1>8. /\ req' \in [Requests -> RequestRows] /\ \A q \in Requests \ {r} : req'[q] = req[q]
      /\ TokOK(o)' => ReqOK(r)'
  BY <1>2, <1>7, AnswerMoves
<1>9. StepOK
  BY <1>1, <1>2, <1>6, <1>8, LinksUnchanged, ServerStep
<1>10. ReqOK(r)'
  BY <1>5, <1>8, <1>9, TokensStay
<1> QED BY <1>2, <1>8, <1>9, <1>10, StepKeeps

-----------------------------------------------------------------------------
(* Signing in *)

LEMMA RedeemMoves ==
    ASSUME IInv, NEW c \in Links, link[c] # None, NEW state \in {"used", "void"}, Redeem(c, state)
    PROVE  LinkOK /\ link'[c] # None /\ link'[c].state # "active"
<1>1. link[c] \in LinkRows /\ link \in [Links -> LinkRows \cup {None}]
  BY DEF IInv, TypeOK
<1>2. PICK row : row = [link[c] EXCEPT !.state = state]
  OBVIOUS
<1>3. row \in LinkRows /\ row # None /\ row.for = link[c].for /\ row.state = state
  BY <1>1, <1>2, NoneIsNoRow DEF LinkRows
<1>4. link' = [link EXCEPT ![c] = row]
  BY <1>2 DEF Redeem
<1> QED BY <1>1, <1>3, <1>4 DEF LinkOK, Ages

\* A link that is refused is void from then on, if it was not used.
LEMMA RefuseMoves ==
    ASSUME IInv, NEW c \in Links, link[c] # None,
           link' = IF link[c].state = "used" THEN link ELSE [link EXCEPT ![c].state = "void"]
    PROVE  LinkOK
BY LinksUnchanged, RedeemMoves DEF Redeem

\* No session was made with a link that can still be redeemed.
LEMMA ActiveIsUnspent ==
    ASSUME IInv, NEW c \in Links, Redeemable(c), NEW x \in Sessions, sess[x] # None
    PROVE  sess[x].from # c
BY DEF IInv, Spent, Redeemable

\* A link makes a session; the sessions in S are revoked with it.
LEMMA RedeemedMoves ==
    ASSUME IInv, NEW c \in Links, link[c] # None, Redeemable(c), Redeem(c, "used"),
           NEW s \in Sessions, sess[s] = None, NEW u \in Users,
           NEW S \in SUBSET Sessions, \A x \in S : sess[x] # None,
           sess' = [Revoke(S) EXCEPT ![s] = NewSession(u, c)], revokedSid' = revokedSid,
           NEW t, t = FirstToken(s, u)
    PROVE  LinkOK /\ SessOK /\ t \in Tokens /\ TokOK(t)'
<1>1. LinkOK /\ link'[c] # None /\ link'[c].state # "active"
  BY RedeemMoves
<1>2. NewSession(u, c) \in SessionRows
  BY DEF NewSession, SessionRows, Workspaces
<1>3. Revoke(S) \in [Sessions -> SessionRows \cup {None}]
  BY RevokedRows
<1>4. /\ sess' \in [Sessions -> SessionRows \cup {None}] /\ sess'[s] = NewSession(u, c)
      /\ \A x \in Sessions \ {s} : sess'[x] = Revoke(S)[x]
  BY <1>2, <1>3
<1>5. \A x \in Sessions \ {s} : /\ Grows(x) /\ (sess[x] = None <=> sess'[x] = None)
                                /\ sess[x] # None => sess'[x].from = sess[x].from
  BY <1>4, RevokedGrows
<1>6. \A x \in Sessions : sess[x] # None => sess[x].from # c
  BY ActiveIsUnspent
<1>7. c \notin revokedSid
  BY OriginsDiffer DEF IInv, TypeOK
<1>8. SessOK /\ t \in Tokens /\ TokOK(t)'
  BY <1>1, <1>4, <1>5, <1>6, <1>7, NewMoves
<1> QED BY <1>1, <1>8

LEMMA ConsumeKeeps ==
    ASSUME IInv, NEW r \in Requests, NEW s \in Sessions, Consume(r, s) PROVE IInv'
<1>1. /\ req \in [Requests -> RequestRows] /\ req[r] \in RequestRows /\ ReqOK(r)
      /\ active \subseteq Users /\ migrated \subseteq Users
  BY DEF IInv, TypeOK
<1>2. UNCHANGED <<active, revokedSid, clients>> /\ req[r].at = "consume" /\ req[r].kind = "login"
  BY <1>1 DEF Consume, ReqOK
<1>3. PICK c : c = req[r].link
  OBVIOUS
<1>4. PICK u : u = link[c].for
  OBVIOUS
<1>5. c \in Links /\ link[c] # None /\ u \in Users
  <2>1. c \in Links /\ link[c] # None /\ u # None
    BY <1>1, <1>2, <1>3, <1>4 DEF RequestRows, ReqOK
  <2>2. link[c] \in LinkRows
    BY <2>1 DEF IInv, TypeOK
  <2> QED BY <1>4, <2>1, <2>2 DEF LinkRows
<1>6. CASE Redeemable(c) /\ u \in active
  <2>1. PICK t : t = FirstToken(s, u)
    OBVIOUS
  <2>2. /\ sess[s] = None /\ Redeem(c, "used") /\ sess' = [sess EXCEPT ![s] = NewSession(u, c)]
        /\ migrated' = IF req[r].legacy = None THEN migrated ELSE migrated \cup {req[r].legacy}
        /\ req' = [req EXCEPT ![r].at = "replace", ![r].out = t, ![r].clears = {"link", "rr_sid"}]
    BY <1>3, <1>4, <1>6, <2>1 DEF Consume
  <2>3. migrated' \subseteq Users
    BY <1>1, <2>2 DEF RequestRows
  <2>4. sess = Revoke({})
    BY DEF Revoke, IInv, TypeOK
  <2>5. PICK S \in SUBSET Sessions : S = {}
    OBVIOUS
  <2>6. LinkOK /\ SessOK /\ t \in Tokens /\ TokOK(t)'
    BY <1>2, <1>5, <1>6, <2>1, <2>2, <2>4, <2>5, RedeemedMoves
  <2> DEFINE next == [req[r] EXCEPT !.at = "replace", !.out = t, !.clears = {"link", "rr_sid"}]
  <2>7. req' = [req EXCEPT ![r] = next]
    BY <1>1, <2>2 DEF RequestRows
  <2>8. /\ next \in RequestRows /\ next.at = "replace" /\ next.kind = "login" /\ next.tok = req[r].tok
        /\ next.out = t /\ next.sid = req[r].sid /\ next.link = c
    BY <1>1, <1>2, <1>3, <2>6 DEF RequestRows, Steps
  <2> HIDE DEF next
  <2>9. req' \in [Requests -> RequestRows] /\ req'[r] = next /\ \A q \in Requests \ {r} : req'[q] = req[q]
    BY <1>1, <2>7, <2>8
  <2>10. StepOK
    BY <1>1, <1>2, <2>3, <2>6, <2>9, ServerStep
  <2>11. TokOK(req[r].tok)' /\ TokOK(req[r].out)'
    <3>1. PICK x \in Tokens \cup {None} : x = req[r].tok
      BY <1>1 DEF RequestRows
    <3>2. TokOK(x)'
      BY <1>1, <2>10, <3>1, TokensStay DEF ReqOK
    <3> QED BY <2>6, <2>8, <2>9, <3>1, <3>2 DEF TokOK, Current, Previous
  <2>12. link'[c] # None /\ link'[c].for # None
    BY <1>1, <1>2, <1>3, <1>5, <2>6 DEF LinkOK, Ages, ReqOK
  <2>13. ReqOK(r)'
    BY <1>1, <1>3, <1>5, <2>8, <2>9, <2>11, <2>12, NoneIsNothing DEF ReqOK
  <2> QED BY <1>2, <2>9, <2>10, <2>13, StepKeeps
<1>7. CASE ~(Redeemable(c) /\ u \in active)
  <2>1. /\ link' = IF link[c].state = "used" THEN link ELSE [link EXCEPT ![c].state = "void"]
        /\ Answers(r, None, {"link"}) /\ UNCHANGED <<sess, migrated>>
    BY <1>3, <1>4, <1>7 DEF Consume
  <2>2. req' \in [Requests -> RequestRows] /\ (\A q \in Requests \ {r} : req'[q] = req[q]) /\ ReqOK(r)'
    BY <1>2, <2>1, AnswerMoves DEF TokOK
  <2>3. StepOK
    BY <1>1, <1>2, <1>5, <2>1, <2>2, RefuseMoves, SessionsUnchanged, ServerStep
  <2> QED BY <1>2, <2>2, <2>3, StepKeeps
<1> QED BY <1>6, <1>7

LEMMA FinishPasskeyKeeps ==
    ASSUME IInv, NEW r \in Requests, NEW s \in Sessions, NEW u \in Users, FinishPasskey(r, s, u)
    PROVE  IInv'
<1>1. /\ req[r] \in RequestRows /\ ReqOK(r) /\ active \subseteq Users /\ migrated \subseteq Users
  BY DEF IInv, TypeOK
<1>2. UNCHANGED <<active, migrated, revokedSid, clients>> /\ req[r].kind = "passkey"
  BY <1>1 DEF FinishPasskey, ReqOK
<1>3. PICK c : c = req[r].link
  OBVIOUS
<1>4. c \in Links /\ link[c] # None
  BY <1>1, <1>2, <1>3 DEF RequestRows, ReqOK
<1>5. PICK S : S = IF req[r].sid = None THEN {} ELSE {req[r].sid}
  OBVIOUS
<1>6. S \in SUBSET Sessions /\ \A x \in S : sess[x] # None
  BY <1>1, <1>5 DEF RequestRows, ReqOK, TokOK
<1>7. CASE Redeemable(c) /\ u \in active
  <2>1. PICK t : t = FirstToken(s, u)
    OBVIOUS
  <2>2. /\ sess[s] = None /\ Redeem(c, "used") /\ sess' = [Revoke(S) EXCEPT ![s] = NewSession(u, c)]
        /\ Answers(r, t, {"link", "rr_sid"})
    BY <1>3, <1>5, <1>7, <2>1 DEF FinishPasskey
  <2>3. LinkOK /\ SessOK /\ t \in Tokens /\ TokOK(t)'
    BY <1>2, <1>4, <1>6, <1>7, <2>1, <2>2, RedeemedMoves
  <2>4. req' \in [Requests -> RequestRows] /\ (\A q \in Requests \ {r} : req'[q] = req[q]) /\ ReqOK(r)'
    BY <1>2, <2>2, <2>3, AnswerMoves
  <2>5. StepOK
    BY <1>1, <1>2, <2>3, <2>4, ServerStep
  <2> QED BY <1>2, <2>4, <2>5, StepKeeps
<1>8. CASE ~(Redeemable(c) /\ u \in active)
  <2>1. /\ link' = IF link[c].state = "used" THEN link ELSE [link EXCEPT ![c].state = "void"]
        /\ Ends(r) /\ UNCHANGED sess
    BY <1>3, <1>8 DEF FinishPasskey
  <2>2. req' \in [Requests -> RequestRows] /\ (\A q \in Requests \ {r} : req'[q] = req[q]) /\ ReqOK(r)'
    BY <2>1, EndMoves
  <2>3. StepOK
    BY <1>1, <1>2, <1>4, <2>1, <2>2, RefuseMoves, SessionsUnchanged, ServerStep
  <2> QED BY <1>2, <2>2, <2>3, StepKeeps
<1> QED BY <1>7, <1>8

LEMMA FinishExchangeKeeps ==
    ASSUME IInv, NEW r \in Requests, NEW s \in Sessions, FinishExchange(r, s) PROVE IInv'
<1>1. /\ req[r] \in RequestRows /\ ReqOK(r) /\ active \subseteq Users /\ migrated \subseteq Users
      /\ sess \in [Sessions -> SessionRows \cup {None}]
  BY DEF IInv, TypeOK
<1>2. /\ UNCHANGED <<active, link, revokedSid, clients>> /\ req[r].at = "exchanging"
      /\ req[r].kind # "logout"
  BY <1>1 DEF FinishExchange, ReqOK
<1>3. PICK u \in Users : u = req[r].legacy
  BY <1>1, <1>2 DEF RequestRows, ReqOK
<1>4. CASE FromLegacy(u) = {} /\ u \in active
  <2>1. PICK t : t = FirstToken(s, u)
    OBVIOUS
  <2>2. /\ sess[s] = None /\ sess' = [sess EXCEPT ![s] = NewSession(u, u)]
        /\ migrated' = migrated \cup {u}
        /\ Ends(r) \/ Answers(r, t, {"rr_sid"})
    BY <1>3, <1>4, <2>1 DEF FinishExchange
  <2>3. NewSession(u, u) \in SessionRows
    BY DEF NewSession, SessionRows, Workspaces
  <2>4. /\ sess' \in [Sessions -> SessionRows \cup {None}] /\ sess'[s] = NewSession(u, u)
        /\ \A x \in Sessions \ {s} : sess'[x] = sess[x]
    BY <1>1, <2>2, <2>3
  <2>5. \A x \in Sessions \ {s} : /\ Grows(x) /\ (sess[x] = None <=> sess'[x] = None)
                                  /\ sess[x] # None => sess'[x].from = sess[x].from
    BY <2>4 DEF Grows
  <2>6. \A x \in Sessions : sess[x] # None => sess[x].from # u
    BY <1>4 DEF FromLegacy, Made
  <2>7. u \notin revokedSid /\ u \notin Links
    BY <1>1, <1>2, <1>3, OriginsDiffer DEF ReqOK
  <2>8. SessOK /\ t \in Tokens /\ TokOK(t)'
    BY <1>2, <2>1, <2>2, <2>4, <2>5, <2>6, <2>7, NewMoves
  <2>9. req' \in [Requests -> RequestRows] /\ (\A q \in Requests \ {r} : req'[q] = req[q]) /\ ReqOK(r)'
    <3>1. CASE Ends(r)
      BY <3>1, EndMoves
    <3>2. CASE Answers(r, t, {"rr_sid"})
      BY <1>2, <2>8, <3>2, AnswerMoves
    <3> QED BY <2>2, <3>1, <3>2
  <2>10. migrated' \subseteq Users
    BY <1>1, <2>2
  <2>11. StepOK
    BY <1>1, <1>2, <2>8, <2>9, <2>10, LinksUnchanged, ServerStep
  <2> QED BY <1>2, <2>9, <2>11, StepKeeps
<1>5. CASE ~(FromLegacy(u) = {} /\ u \in active)
  <2>1. Ends(r) /\ UNCHANGED <<sess, migrated>>
    BY <1>3, <1>5 DEF FinishExchange
  <2> QED BY <1>2, <2>1, EndMoves, OnlyRequest
<1> QED BY <1>4, <1>5

-----------------------------------------------------------------------------
(* Answers and failures *)

LEMMA ServerStays == ASSUME IInv, UNCHANGED server, TypeOK' PROVE StepOK
<1>1. UNCHANGED <<sess, active, link, migrated, revokedSid>>
  BY DEF server
<1>2. SessOK /\ LinkOK
  BY <1>1, SessionsUnchanged, LinksUnchanged
<1>3. \A s \in Sessions : Closes(s)
  BY <1>1 DEF IInv, Spent, Closes
<1>4. \A r \in Requests : req[r].at = "exchanging" => req[r].legacy \notin revokedSid'
  BY <1>1 DEF IInv, ReqOK
<1> QED BY <1>1, <1>2, <1>3, <1>4 DEF StepOK, SessOK, LinkOK

\* A request ends and something is done to the browsers.
LEMMA EndKeeps ==
    ASSUME IInv, UNCHANGED server, TypeOK', NEW r \in Requests, Ends(r), \A b \in Browsers : BrowserOK(b)'
    PROVE  IInv'
<1>1. StepOK
  BY ServerStays
<1>2. (\A q \in Requests \ {r} : req'[q] = req[q]) /\ ReqOK(r)'
  BY EndMoves
<1>3. \A q \in Requests : ReqOK(q)'
  BY <1>1, <1>2, RequestStays
<1> QED BY <1>1, <1>3, SessionsStay DEF IInv

LEMMA AnswerKeeps == ASSUME IInv, NEW r \in Requests, Answer(r) PROVE IInv'
<1>1. /\ TypeOK /\ req[r] \in RequestRows /\ ReqOK(r)
      /\ cookie \in [Browsers -> Tokens \cup {None}] /\ legacy \in [Browsers -> Users \cup {None}]
      /\ pend \in [Browsers -> Links \cup {None}] /\ gone \in [Browsers -> Presented \cup {None}]
  BY DEF IInv, TypeOK
<1> DEFINE q == req[r]
           b == q.by
<1>2. UNCHANGED <<server, lost>> /\ Ends(r) /\ q.at = "answer"
  BY DEF Answer
<1>3. /\ q.tok \in Tokens \cup {None} /\ q.out \in Tokens \cup {None} /\ q.legacy \in Users \cup {None}
  BY <1>1 DEF RequestRows
<1>4. PICK p : p = [tok |-> q.tok, legacy |-> q.legacy]
  OBVIOUS
<1>5. p \in Presented /\ p.tok = q.tok /\ p.legacy = q.legacy
  BY <1>3, <1>4 DEF Presented
<1>6. /\ cookie' \in [Browsers -> Tokens \cup {None}]
      /\ \A x \in Browsers : cookie'[x] \in {cookie[x], q.out, None}
  BY <1>1, <1>3 DEF Answer
<1>7. legacy' \in [Browsers -> Users \cup {None}]
  BY <1>1 DEF Answer
<1>8. /\ pend' \in [Browsers -> Links \cup {None}]
      /\ \A x \in Browsers : pend'[x] \in {pend[x], None}
  BY <1>1 DEF Answer
<1>9. /\ gone' \in [Browsers -> Presented \cup {None}]
      /\ \A x \in Browsers : gone'[x] \in {gone[x], None} \/ (gone'[x] = p /\ q.kind = "logout")
  <2>1. PICK g : g = CASE SignsOut(q) -> p [] SignsIn(q) -> None [] OTHER -> gone[b]
    OBVIOUS
  <2>2. gone' = [gone EXCEPT ![b] = g]
    BY <1>4, <2>1 DEF Answer
  <2>3. (g = p /\ q.kind = "logout") \/ g = None \/ g = gone[b]
    BY <2>1 DEF SignsOut
  <2> HIDE DEF q, b
  <2> QED BY <1>1, <1>5, <2>2, <2>3
<1>10. TypeOK'
  <2>1. req' \in [Requests -> RequestRows]
    BY <1>2, EndMoves
  <2> QED BY <1>1, <1>2, <1>6, <1>7, <1>8, <1>9, <2>1 DEF TypeOK, server
<1>11. StepOK
  BY <1>2, <1>10, ServerStays
<1>12. ASSUME NEW x \in Browsers PROVE BrowserOK(x)'
  <2>1. BrowserOK(x) /\ (gone[x] # None => gone[x].tok \in Tokens \cup {None})
    BY <1>1 DEF IInv, Presented
  <2>2. \A t \in Tokens \cup {None} : TokOK(t) => TokOK(t)' /\ (Out(t) => Out(t)')
    BY <1>11, TokensStay
  <2>3. TokOK(cookie[x])'
    <3>1. PICK t \in Tokens \cup {None} : t = cookie'[x]
      BY <1>6
    <3>2. TokOK(t)
      BY <1>1, <1>6, <2>1, <3>1 DEF BrowserOK, ReqOK, TokOK
    <3> QED BY <2>2, <3>1, <3>2 DEF TokOK, Current, Previous
  <2>4. pend'[x] # None => link'[pend'[x]] # None
    BY <1>2, <1>8, <2>1 DEF BrowserOK, server
  <2>5. ASSUME gone'[x] # None
        PROVE  /\ TokOK(gone[x].tok)' /\ Out(gone[x].tok)'
               /\ gone'[x].legacy # None => gone'[x].legacy \in revokedSid'
    <3>1. PICK g : g = gone'[x]
      OBVIOUS
    <3>2. /\ g.tok \in Tokens \cup {None} /\ TokOK(g.tok) /\ Out(g.tok)
          /\ g.legacy # None => g.legacy \in revokedSid
      BY <1>1, <1>2, <1>3, <1>5, <1>9, <2>1, <2>5, <3>1 DEF BrowserOK, ReqOK
    <3>3. PICK t \in Tokens \cup {None} : t = g.tok
      BY <3>2
    <3>4. TokOK(t)' /\ Out(t)'
      BY <2>2, <3>2, <3>3
    <3>5. gone'[x].tok = t
      BY <3>1, <3>3
    <3> QED BY <1>2, <3>1, <3>2, <3>4, <3>5 DEF TokOK, Out, Overtaken, Current, Previous, server
  <2> QED BY <2>3, <2>4, <2>5 DEF BrowserOK, TokOK, Current, Previous
<1> QED BY <1>2, <1>10, <1>12, EndKeeps

LEMMA FailKeeps == ASSUME IInv, NEW r \in Requests, Fail(r) PROVE IInv'
<1>1. UNCHANGED <<server, cookie, legacy, pend, gone>> /\ Ends(r) /\ TypeOK
  BY DEF Fail, IInv
<1>2. lost' \subseteq Sessions
  BY <1>1 DEF Fail, TypeOK
<1>3. TypeOK'
  <2>1. req' \in [Requests -> RequestRows]
    BY <1>1, EndMoves
  <2> QED BY <1>1, <1>2, <2>1 DEF TypeOK, server
<1>4. \A b \in Browsers : BrowserOK(b)'
  BY <1>1, <1>3, ServerStays, BrowsersStay
<1> QED BY <1>1, <1>3, <1>4, EndKeeps

-----------------------------------------------------------------------------
(* Time, and what other components do *)

\* Nothing happens to the requests, and every browser is as good as before.
LEMMA OutsideKeeps ==
    ASSUME IInv, SessOK, LinkOK, active' \subseteq Users, UNCHANGED <<migrated, revokedSid, clients, req>>
    PROVE  IInv'
<1>1. migrated' \subseteq Users /\ revokedSid' = revokedSid /\ UNCHANGED clients
      /\ req' \in [Requests -> RequestRows] /\ req' = req
  BY DEF IInv, TypeOK
<1>2. StepOK
  BY <1>1, ServerStep
<1>3. \A q \in Requests : ReqOK(q)'
  BY <1>1, <1>2, RequestStays
<1>4. \A b \in Browsers : BrowserOK(b)'
  BY <1>1, <1>2, BrowsersStay DEF clients
<1> QED BY <1>2, <1>3, <1>4, SessionsStay DEF IInv, StepOK

\* The browser b waits to confirm the link c.
LEMMA PendKeeps ==
    ASSUME IInv, LinkOK, NEW b \in Browsers, NEW c \in Links, link'[c] # None,
           pend' = [pend EXCEPT ![b] = c],
           UNCHANGED <<sess, active, migrated, revokedSid, cookie, legacy, gone, lost, req>>
    PROVE  IInv'
<1>1. TypeOK
  BY DEF IInv
<1>2. pend' \in [Browsers -> Links \cup {None}] /\ \A x \in Browsers : pend'[x] = pend[x] \/ pend'[x] = c
  BY <1>1 DEF TypeOK
<1>3. TypeOK'
  BY <1>1, <1>2 DEF TypeOK, LinkOK
<1>4. SessOK
  BY SessionsUnchanged
<1>5. \A s \in Sessions : Closes(s)
  BY DEF IInv, Spent, Closes
<1>6. \A r \in Requests : req[r].at = "exchanging" => req[r].legacy \notin revokedSid'
  BY DEF IInv, ReqOK
<1>7. StepOK
  BY <1>3, <1>4, <1>5, <1>6 DEF StepOK, SessOK, LinkOK
<1>8. \A q \in Requests : ReqOK(q)'
  BY <1>7, RequestStays
<1>9. ASSUME NEW x \in Browsers PROVE BrowserOK(x)'
  <2>1. BrowserOK(x) /\ pend[x] \in Links \cup {None}
    BY <1>1 DEF IInv, TypeOK
  <2>2. TokOK(cookie[x])'
    BY <2>1 DEF BrowserOK, TokOK, Current, Previous
  <2>3. pend'[x] # None => link'[pend'[x]] # None
    BY <1>2, <2>1 DEF BrowserOK, LinkOK, Ages
  <2>4. gone'[x] # None => TokOK(gone[x].tok)' /\ Out(gone[x].tok)'
    BY <2>1 DEF BrowserOK, TokOK, Out, Overtaken, Current, Previous
  <2> QED BY <2>1, <2>2, <2>3, <2>4 DEF BrowserOK
<1> QED BY <1>3, <1>7, <1>8, <1>9, SessionsStay DEF IInv

LEMMA GraceEndsKeeps == ASSUME IInv, NEW s \in Sessions, GraceEnds(s) PROVE IInv'
<1>1. /\ sess \in [Sessions -> SessionRows \cup {None}] /\ sess[s] # None /\ active \subseteq Users
      /\ sess[s].prev = "authorizes" /\ UNCHANGED <<active, link, migrated, revokedSid, clients, req>>
  BY DEF IInv, TypeOK, GraceEnds, Live, Write
<1>2. PICK row : row = [sess[s] EXCEPT !.prev = "revokes"]
  OBVIOUS
<1>3. /\ row \in SessionRows /\ row # None /\ row.gen = sess[s].gen /\ row.ws = sess[s].ws
      /\ row.over = sess[s].over /\ row.from = sess[s].from /\ row.prev = "revokes"
  BY <1>1, <1>2, NoneIsNoRow DEF SessionRows
<1>4. sess' = [sess EXCEPT ![s] = row]
  BY <1>2 DEF GraceEnds, Write
<1>5. SessOK
  BY <1>1, <1>3, <1>4 DEF SessOK, Grows, Fresh
<1> QED BY <1>1, <1>5, LinksUnchanged, OutsideKeeps

LEMMA ExpiresKeeps == ASSUME IInv, NEW s \in Sessions, Expires(s) PROVE IInv'
<1>1. /\ sess \in [Sessions -> SessionRows \cup {None}] /\ sess[s] # None /\ active \subseteq Users
      /\ UNCHANGED <<active, link, migrated, revokedSid, clients, req>>
  BY DEF IInv, TypeOK, Expires, Live, Write
<1>2. PICK row : row = [sess[s] EXCEPT !.over = TRUE]
  OBVIOUS
<1>3. /\ row \in SessionRows /\ row # None /\ row.over /\ row.from = sess[s].from
      /\ row.gen = sess[s].gen /\ row.ws = sess[s].ws /\ row.prev = sess[s].prev
  BY <1>1, <1>2, RevokedRow
<1>4. sess' = [sess EXCEPT ![s] = row]
  BY <1>2 DEF Expires, Write
<1>5. SessOK
  BY <1>1, <1>3, <1>4 DEF SessOK, Grows, Fresh
<1> QED BY <1>1, <1>5, LinksUnchanged, OutsideKeeps

LEMMA LinkExpiresKeeps == ASSUME IInv, NEW c \in Links, LinkExpires(c) PROVE IInv'
<1>1. LinkOK
  BY RedeemMoves DEF LinkExpires
<1>2. UNCHANGED <<sess, active, migrated, revokedSid, clients, req>> /\ active \subseteq Users
  BY DEF LinkExpires, IInv, TypeOK
<1> QED BY <1>1, <1>2, SessionsUnchanged, OutsideKeeps

LEMMA IssueLinkKeeps ==
    ASSUME IInv, NEW c \in Links, NEW u \in Users, IssueLink(c, u) PROVE IInv'
<1>1. /\ link \in [Links -> LinkRows \cup {None}] /\ link[c] = None /\ active \subseteq Users
      /\ UNCHANGED <<sess, active, migrated, revokedSid, clients, req>>
  BY DEF IInv, TypeOK, IssueLink
<1>2. ASSUME NEW d \in Links PROVE link'[d] \in LinkRows \cup {None} /\ Ages(d)
  <2>1. CASE d = c
    <3>1. link'[d] = [for |-> u, state |-> "active"]
      BY <2>1 DEF IssueLink
    <3> QED BY <1>1, <2>1, <3>1 DEF LinkRows, Ages
  <2>2. CASE d # c /\ link[d] # None /\ link[d].for = u /\ link[d].state = "active"
    <3>1. link'[d] = [link[d] EXCEPT !.state = "void"] /\ link[d] \in LinkRows
      BY <1>1, <2>2 DEF IssueLink
    <3>2. link'[d] \in LinkRows /\ link'[d].for = link[d].for
      BY <3>1 DEF LinkRows
    <3> QED BY <2>2, <3>2, NoneIsNoRow DEF Ages
  <2>3. CASE d # c /\ ~(link[d] # None /\ link[d].for = u /\ link[d].state = "active")
    <3>1. link'[d] = link[d]
      BY <2>3 DEF IssueLink
    <3> QED BY <1>1, <3>1 DEF Ages
  <2> QED BY <2>1, <2>2, <2>3
<1>3. LinkOK
  BY <1>2 DEF IssueLink, LinkOK
<1> QED BY <1>1, <1>3, SessionsUnchanged, OutsideKeeps

LEMMA OpenLinkKeeps ==
    ASSUME IInv, NEW b \in Browsers, NEW c \in Links, OpenLink(b, c) PROVE IInv'
BY LinksUnchanged, PendKeeps DEF OpenLink, server

LEMMA BeginPasskeyKeeps ==
    ASSUME IInv, NEW b \in Browsers, NEW c \in Links, BeginPasskey(b, c) PROVE IInv'
<1>1. PICK row : row = [for |-> None, state |-> "active"]
  OBVIOUS
<1>2. row \in LinkRows /\ row # None
  BY <1>1, NoneIsNoRow DEF LinkRows
<1>3. link' = [link EXCEPT ![c] = row] /\ link \in [Links -> LinkRows \cup {None}] /\ link[c] = None
  BY <1>1 DEF BeginPasskey, IInv, TypeOK
<1>4. LinkOK /\ link'[c] # None
  BY <1>2, <1>3 DEF LinkOK, Ages
<1> QED BY <1>4, PendKeeps DEF BeginPasskey

LEMMA LeaveAccountKeeps == ASSUME IInv, NEW u \in Users, LeaveAccount(u) PROVE IInv'
<1>1. SessionsOf(u) \in SUBSET Sessions /\ \A x \in SessionsOf(u) : sess[x] # None
  BY SessionsOfMade DEF Made
<1>2. SessOK
  BY <1>1, RevokeMoves DEF LeaveAccount
<1>3. active' \subseteq Users /\ UNCHANGED <<link, migrated, revokedSid, clients, req>>
  BY DEF LeaveAccount, IInv, TypeOK
<1> QED BY <1>2, <1>3, LinksUnchanged, OutsideKeeps

-----------------------------------------------------------------------------
(* The theorems *)

LEMMA NextInv == IInv /\ [Next]_vars => IInv'
<1> SUFFICES ASSUME IInv, [Next]_vars PROVE IInv'
  OBVIOUS
<1>1. ASSUME NEW r \in Requests, Signing(r) PROVE IInv'
  BY <1>1, ConsumeKeeps, FinishExchangeKeeps, FinishPasskeyKeeps, ReplaceSessionKeeps, BeginExchangeKeeps
     DEF Signing
<1>2. ASSUME NEW r \in Requests, Serve(r) PROVE IInv'
  BY <1>1, <1>2, ReadKeeps, RotateKeeps, SwitchKeeps, ConfirmKeeps, RevokeTokenKeeps, RevokeLegacyKeeps,
     EndSessionsKeeps, AnswerKeeps, FailKeeps DEF Serve
<1>3. CASE Outside
  BY <1>3, GraceEndsKeeps, ExpiresKeeps, LinkExpiresKeeps, IssueLinkKeeps, OpenLinkKeeps,
     BeginPasskeyKeeps, LeaveAccountKeeps DEF Outside
<1>4. CASE UNCHANGED vars
  <2>1. UNCHANGED <<sess, active, link, migrated, revokedSid, clients, req>> /\ active \subseteq Users
    BY <1>4 DEF vars, clients, IInv, TypeOK
  <2> QED BY <2>1, SessionsUnchanged, LinksUnchanged, OutsideKeeps
<1> QED BY <1>2, <1>3, <1>4, StartKeeps DEF Next

LEMMA InvHolds == Spec => []IInv
BY InitInv, NextInv, PTL DEF Spec

\* The tables, the cookies and the requests hold what they are declared to hold.
THEOREM TypeCorrect == Spec => []TypeOK
BY InvHolds, PTL DEF IInv

\* One login link, one passkey challenge and one old cookie make one session at most, however
\* many requests present them (consume_auth_login_challenge, finishPasskeyAuthentication,
\* exchangeLegacyOwnerSession).
THEOREM CredentialsMakeOneSession == Spec => []OneSessionPerCredential
BY InvHolds, PTL DEF IInv

\* Whatever overtakes it, no token reads a session in another workspace than its own
\* (rotateAuthSession, change_auth_session_workspace, readAuthSession).
THEOREM TokensStayInTheirWorkspace == Spec => []TokensKeepTheirWorkspace
<1>1. IInv => TokensKeepTheirWorkspace
  <2> SUFFICES ASSUME IInv, NEW t \in Abroad \ {None}, Reads(t) PROVE sess[t.id].ws = t.ws
    BY DEF TokensKeepTheirWorkspace
  <2>1. TokOK(t)
    BY DEF Abroad, IInv, BrowserOK, ReqOK
  <2> QED BY <2>1 DEF TokOK, Reads
<1> QED BY <1>1, InvHolds, PTL

\* A browser that was told that it is signed out stays out, whatever was under way with its
\* cookies (revokeAuthSessionForLogout, revokeLegacyOwnerSessionForLogout).
THEOREM LogoutIsFinal == Spec => []SignedOutStaysOut
<1>1. IInv => SignedOutStaysOut
  <2> SUFFICES ASSUME IInv, NEW b \in Browsers, gone[b] # None
               PROVE  /\ gone[b].tok # None => sess[gone[b].tok.id].over \/ Overtaken(gone[b].tok)
                      /\ gone[b].legacy # None =>
                            /\ gone[b].legacy \in revokedSid
                            /\ \A s \in FromLegacy(gone[b].legacy) : sess[s].over
    BY DEF SignedOutStaysOut
  <2>1. Out(gone[b].tok) /\ (gone[b].legacy # None => gone[b].legacy \in revokedSid)
    BY DEF IInv, BrowserOK
  <2>2. \A s \in Sessions : sess[s] # None /\ sess[s].from \in revokedSid => sess[s].over
    BY DEF IInv, Spent
  <2> QED BY <2>1, <2>2 DEF Out, FromLegacy, Made
<1> QED BY <1>1, InvHolds, PTL

-----------------------------------------------------------------------------
(* The cookies keep up with the sessions *)

\* Tokens of two sessions; tokens of which the second is newer, if they are of one session.
Apart(t, u) == t # None /\ u # None => t.id # u.id
Older(t, u) == t # None /\ u # None /\ t.id = u.id => t.gen < u.gen

\* What a request holds it holds for a browser, and what it hands out is its session's current token.
HandsOut(r) ==
    /\ req[r] = Idle \/ req[r].by \in Browsers
    /\ req[r].out # None => req[r].at \in {"replace", "answer"} /\ Current(req[r].out)

\* Two browsers share no session, wherever their tokens are, and the token that is handed out
\* is newer than all others of its session.
CookiesApart == \A b, c \in Browsers : b # c => Apart(cookie[b], cookie[c])
CookieApart(b, r) ==
    /\ req[r].by # b => Apart(cookie[b], req[r].tok) /\ Apart(cookie[b], req[r].out)
    /\ Older(cookie[b], req[r].out)
RequestsApart(r, q) ==
    /\ req[r].by # req[q].by => Apart(req[r].tok, req[q].tok) /\ Apart(req[r].tok, req[q].out)
    /\ Older(req[r].tok, req[q].out)
    /\ r # q => Apart(req[r].out, req[q].out)

UpToDate(b) ==
    cookie[b] # None /\ ~sess[cookie[b].id].over =>
        \/ Current(cookie[b])
        \/ /\ Previous(cookie[b])
           /\ \E r \in Requests : req[r].by = b /\ req[r].out # None /\ req[r].out.id = cookie[b].id
        \/ cookie[b].id \in lost

KInv ==
    /\ \A r \in Requests : HandsOut(r)
    /\ CookiesApart
    /\ \A b \in Browsers, r \in Requests : CookieApart(b, r)
    /\ \A r, q \in Requests : RequestsApart(r, q)
    /\ \A b \in Browsers : UpToDate(b)

LEMMA InitKeeps == Init => KInv
BY DEF Init, Idle, KInv, HandsOut, CookiesApart, CookieApart, RequestsApart, UpToDate, Apart, Older

\* A session whose token stays what it is, and who is over stays over.
SameToken(s) ==
    sess[s] # None => sess'[s] # None /\ sess'[s].gen = sess[s].gen /\ (sess[s].over => sess'[s].over)

\* The request forgets what it holds, or keeps some of it.
Forgets(r) ==
    \/ req'[r].tok = None /\ req'[r].out = None /\ req[r].out = None /\ HandsOut(r)'
    \/ /\ req'[r].by = req[r].by /\ req'[r].tok \in {req[r].tok, None} /\ req'[r].out = req[r].out
       /\ req[r] # Idle
       /\ req[r].out # None => req'[r].at \in {"replace", "answer"}

\* All that the browsers and the requests hold is of sessions that were made.
LEMMA HeldIsMade ==
    ASSUME IInv
    PROVE  /\ \A b \in Browsers : cookie[b] # None =>
                 /\ cookie[b] \in Tokens /\ cookie[b].id \in Sessions /\ sess[cookie[b].id] # None
                 /\ cookie[b].gen \in Nat /\ cookie[b].gen <= sess[cookie[b].id].gen
           /\ \A r \in Requests : req[r].tok # None =>
                 /\ req[r].tok \in Tokens /\ req[r].tok.id \in Sessions /\ sess[req[r].tok.id] # None
                 /\ req[r].tok.gen \in Nat /\ req[r].tok.gen <= sess[req[r].tok.id].gen
           /\ \A r \in Requests : req[r].out # None =>
                 /\ req[r].out \in Tokens /\ req[r].out.id \in Sessions /\ sess[req[r].out.id] # None
                 /\ req[r].out.gen \in Nat /\ req[r].out.gen <= sess[req[r].out.id].gen
           /\ \A s \in Sessions : sess[s] # None => sess[s].gen \in Nat
<1>1. \A t \in Tokens : t.id \in Sessions /\ t.gen \in Nat
  BY DEF Tokens
<1>2. \A b \in Browsers : cookie[b] \in Tokens \cup {None} /\ TokOK(cookie[b])
  BY DEF IInv, TypeOK, BrowserOK
<1>3. \A r \in Requests : /\ req[r].tok \in Tokens \cup {None} /\ req[r].out \in Tokens \cup {None}
                          /\ TokOK(req[r].tok) /\ TokOK(req[r].out)
  BY DEF IInv, TypeOK, RequestRows, ReqOK
<1>4. \A s \in Sessions : sess[s] # None => sess[s].gen \in Nat
  BY DEF IInv, TypeOK, SessionRows
<1> QED BY <1>1, <1>2, <1>3, <1>4 DEF TokOK

\* A step that hands out no token and gives none to a browser.
LEMMA QuietKeeps ==
    ASSUME IInv, KInv, \A s \in Sessions : SameToken(s), UNCHANGED <<cookie, lost>>,
           \A q \in Requests : req'[q] = req[q] \/ Forgets(q)
    PROVE  KInv'
<1> USE DEF KInv
<1>1. ASSUME NEW q \in Requests PROVE HandsOut(q)'
  <2>1. HandsOut(q) /\ (req[q].out # None => SameToken(req[q].out.id) /\ sess[req[q].out.id] # None)
    BY HeldIsMade
  <2>2. CASE req'[q] = req[q]
    BY <2>1, <2>2 DEF HandsOut, SameToken, Current
  <2>3. CASE req'[q] # req[q]
    BY <2>1, <2>3 DEF HandsOut, SameToken, Current, Forgets
  <2> QED BY <2>2, <2>3
<1>2. CookiesApart'
  BY DEF CookiesApart, Apart
<1>3. \A b \in Browsers, q \in Requests : CookieApart(b, q)'
  BY DEF CookieApart, Apart, Older, Forgets
<1>4. \A q, p \in Requests : RequestsApart(q, p)'
  BY DEF RequestsApart, Apart, Older, Forgets
<1>5. ASSUME NEW b \in Browsers PROVE UpToDate(b)'
  <2>1. UpToDate(b) /\ (cookie[b] # None => SameToken(cookie[b].id) /\ sess[cookie[b].id] # None)
    BY HeldIsMade
  <2>2. \A q \in Requests : req[q].out # None => req'[q].out = req[q].out /\ req'[q].by = req[q].by
    BY DEF Forgets
  <2> QED BY <2>1, <2>2 DEF UpToDate, SameToken, Current, Previous
<1> QED BY <1>1, <1>2, <1>3, <1>4, <1>5

\* A request hands out the next token of the session that it holds the current one of.
LEMMA NextTokenKeeps ==
    ASSUME IInv, KInv, NEW r \in Requests, NEW s \in Sessions,
           req[r].tok # None, req[r].tok.id = s, Current(req[r].tok), req[r].out = None, req[r] # Idle,
           sess'[s] # None, sess'[s].gen = sess[s].gen + 1, sess[s].over => sess'[s].over,
           \A x \in Sessions \ {s} : SameToken(x), UNCHANGED <<cookie, lost>>,
           \A q \in Requests \ {r} : req'[q] = req[q],
           req'[r].by = req[r].by, req'[r].tok = None, req'[r].at = "answer",
           req'[r].out # None, req'[r].out.id = s, req'[r].out.gen = sess'[s].gen
    PROVE  KInv'
<1> USE DEF KInv
<1>1. \A q \in Requests : req[q].out # None => req[q].out.id # s
  <2> SUFFICES ASSUME NEW q \in Requests, req[q].out # None, req[q].out.id = s PROVE FALSE
    OBVIOUS
  <2>1. RequestsApart(r, q) /\ HandsOut(q)
    OBVIOUS
  <2> QED BY <2>1, HeldIsMade DEF RequestsApart, Older, HandsOut, Current
<1>2. \A q \in Requests : req[q].tok # None /\ req[q].tok.id = s =>
         req[q].by = req[r].by /\ req[q].tok.gen < sess'[s].gen
  BY HeldIsMade DEF RequestsApart, Apart
<1>3. \A b \in Browsers : cookie[b] # None /\ cookie[b].id = s =>
         b = req[r].by /\ cookie[b].gen < sess'[s].gen
  BY HeldIsMade DEF CookieApart, Apart
<1>4. ASSUME NEW q \in Requests PROVE HandsOut(q)'
  <2>1. HandsOut(q) /\ (req[q].out # None => SameToken(req[q].out.id) /\ sess[req[q].out.id] # None)
    BY <1>1, HeldIsMade
  <2>2. CASE q = r
    BY <2>1, <2>2 DEF HandsOut, Current
  <2>3. CASE q # r
    BY <2>1, <2>3 DEF HandsOut, SameToken, Current
  <2> QED BY <2>2, <2>3
<1>5. CookiesApart'
  BY DEF CookiesApart, Apart
<1>6. \A b \in Browsers, q \in Requests : CookieApart(b, q)'
  BY <1>3 DEF CookieApart, Apart, Older
<1>7. \A q, p \in Requests : RequestsApart(q, p)'
  BY <1>1, <1>2 DEF RequestsApart, Apart, Older
<1>8. ASSUME NEW b \in Browsers PROVE UpToDate(b)'
  <2>1. UpToDate(b) /\ (cookie[b] # None => cookie[b].id \in Sessions /\ sess[cookie[b].id] # None)
    BY HeldIsMade
  <2>2. CASE cookie[b] # None /\ cookie[b].id = s
    <3>1. Current(cookie[b]) => Previous(cookie[b])'
      BY <2>2 DEF Current, Previous
    <3>2. req'[r].by = b /\ req'[r].out # None /\ req'[r].out.id = cookie[b].id
      BY <1>3, <2>2
    <3> QED BY <1>1, <2>1, <2>2, <3>1, <3>2 DEF UpToDate
  <2>3. CASE cookie[b] # None /\ cookie[b].id # s
    <3>1. SameToken(cookie[b].id)
      BY <2>1, <2>3
    <3> QED BY <2>1, <2>3, <3>1 DEF UpToDate, SameToken, Current, Previous
  <2> QED BY <2>2, <2>3 DEF UpToDate
<1> QED BY <1>4, <1>5, <1>6, <1>7, <1>8

\* A request hands out the first token of a new session, or keeps it to hand out.
LEMMA FirstTokenKeeps ==
    ASSUME IInv, KInv, NEW r \in Requests, NEW s \in Sessions, sess[s] = None,
           req[r].out = None, req[r] # Idle,
           sess'[s] # None, sess'[s].gen = 0,
           \A x \in Sessions \ {s} : SameToken(x), UNCHANGED <<cookie, lost>>,
           \A q \in Requests \ {r} : req'[q] = req[q],
           req'[r].by = req[r].by, req'[r].tok \in {req[r].tok, None}, req'[r].at \in {"replace", "answer"},
           req'[r].out # None, req'[r].out.id = s, req'[r].out.gen = 0
    PROVE  KInv'
<1> USE DEF KInv
<1>1. \A q \in Requests : /\ req[q].out # None => req[q].out.id # s
                          /\ req[q].tok # None => req[q].tok.id # s
  BY HeldIsMade
<1>2. \A b \in Browsers : cookie[b] # None => cookie[b].id # s
  BY HeldIsMade
<1>3. ASSUME NEW q \in Requests PROVE HandsOut(q)'
  <2>1. HandsOut(q) /\ (req[q].out # None => SameToken(req[q].out.id) /\ sess[req[q].out.id] # None)
    BY <1>1, HeldIsMade
  <2>2. CASE q = r
    BY <2>1, <2>2 DEF HandsOut, Current
  <2>3. CASE q # r
    BY <2>1, <2>3 DEF HandsOut, SameToken, Current
  <2> QED BY <2>2, <2>3
<1>4. CookiesApart'
  BY DEF CookiesApart, Apart
<1>5. \A b \in Browsers, q \in Requests : CookieApart(b, q)'
  BY <1>2 DEF CookieApart, Apart, Older
<1>6. \A q, p \in Requests : RequestsApart(q, p)'
  BY <1>1 DEF RequestsApart, Apart, Older
<1>7. ASSUME NEW b \in Browsers PROVE UpToDate(b)'
  <2>1. UpToDate(b) /\ (cookie[b] # None => SameToken(cookie[b].id) /\ sess[cookie[b].id] # None)
    BY <1>2, HeldIsMade
  <2>2. \A q \in Requests : req[q].out # None => req'[q].out = req[q].out /\ req'[q].by = req[q].by
    OBVIOUS
  <2> QED BY <2>1, <2>2 DEF UpToDate, SameToken, Current, Previous
<1> QED BY <1>3, <1>4, <1>5, <1>6, <1>7

LEMMA StartKeepsUp ==
    ASSUME IInv, KInv, NEW r \in Requests, NEW b \in Browsers, NEW kind \in Kinds, Start(r, b, kind)
    PROVE  KInv'
<1> USE DEF KInv
<1>1. /\ req'[r].tok = cookie[b] /\ req'[r].out = None /\ req'[r].by = b
      /\ \A q \in Requests \ {r} : req'[q] = req[q]
  BY DEF Start, Sent, IInv, TypeOK
<1>2. sess' = sess /\ cookie' = cookie /\ lost' = lost /\ req[r].out = None
  BY DEF Start, server, clients, Idle
<1>3. \A q \in Requests : HandsOut(q)'
  BY <1>1, <1>2 DEF HandsOut, Current
<1>4. CookiesApart'
  BY <1>2 DEF CookiesApart, Apart
<1>5. \A c \in Browsers, q \in Requests : CookieApart(c, q)'
  BY <1>1, <1>2 DEF CookieApart, CookiesApart, Apart, Older
<1>6. \A q, p \in Requests : RequestsApart(q, p)'
  BY <1>1, <1>2 DEF RequestsApart, CookieApart, Apart, Older
<1>7. \A c \in Browsers : UpToDate(c)'
  BY <1>1, <1>2 DEF UpToDate, Current, Previous
<1> QED BY <1>3, <1>4, <1>5, <1>6, <1>7

LEMMA EndFields ==
    ASSUME IInv, NEW r \in Requests, Ends(r)
    PROVE  /\ req'[r] = Idle /\ req'[r].tok = None /\ req'[r].out = None
           /\ \A q \in Requests \ {r} : req'[q] = req[q]
BY EndMoves DEF Idle

\* The browser takes the token that is handed out, or drops the one it has.
LEMMA AnswerKeepsUp ==
    ASSUME IInv, KInv, NEW r \in Requests, Answer(r) PROVE KInv'
<1> USE DEF KInv
<1> DEFINE b == req[r].by
<1>1. /\ sess' = sess /\ lost' = lost /\ req[r].at = "answer"
      /\ cookie \in [Browsers -> Tokens \cup {None}]
  BY DEF Answer, server, IInv, TypeOK
<1>2. /\ req'[r] = Idle /\ req'[r].tok = None /\ req'[r].out = None
      /\ \A q \in Requests \ {r} : req'[q] = req[q]
  BY EndFields DEF Answer
<1>3. b \in Browsers /\ req[r] # Idle
  BY <1>1 DEF HandsOut, Idle
<1>4. /\ \A c \in Browsers \ {b} : cookie'[c] = cookie[c]
      /\ req[r].out # None => cookie'[b] = req[r].out
      /\ req[r].out = None => cookie'[b] \in {cookie[b], None}
  <2>1. PICK t : t = CASE req[r].out # None -> req[r].out
                       [] req[r].out = None /\ "session" \in req[r].clears -> None
                       [] OTHER -> cookie[b]
    OBVIOUS
  <2>2. cookie' = [cookie EXCEPT ![b] = t]
    BY <2>1 DEF Answer
  <2>3. (req[r].out # None => t = req[r].out) /\ (req[r].out = None => t \in {cookie[b], None})
    <3>1. CASE req[r].out # None
      BY <2>1, <3>1
    <3>2. CASE req[r].out = None /\ "session" \in req[r].clears
      BY <2>1, <3>2
    <3>3. CASE req[r].out = None /\ "session" \notin req[r].clears
      BY <2>1, <3>3
    <3> QED BY <3>1, <3>2, <3>3
  <2> QED BY <1>1, <1>3, <2>2, <2>3
<1>5. \A q \in Requests : HandsOut(q)'
  BY <1>1, <1>2 DEF HandsOut, Current
<1>6. CookiesApart'
  BY <1>4 DEF CookiesApart, CookieApart, Apart
<1>7. ASSUME NEW c \in Browsers, NEW q \in Requests PROVE CookieApart(c, q)'
  <2>1. CASE q = r
    BY <1>2, <2>1 DEF CookieApart, Apart, Older
  <2>2. CASE q # r /\ c # b
    BY <1>2, <1>4, <2>2 DEF CookieApart, Apart, Older
  <2>3. CASE q # r /\ c = b
    <3>1. CookieApart(c, q) /\ RequestsApart(r, q) /\ RequestsApart(q, r)
      OBVIOUS
    <3> QED BY <1>2, <1>4, <2>3, <3>1 DEF CookieApart, RequestsApart, Apart, Older
  <2> QED BY <2>1, <2>2, <2>3
<1>8. \A q, p \in Requests : RequestsApart(q, p)'
  BY <1>2 DEF RequestsApart, Apart, Older
<1>9. ASSUME NEW c \in Browsers PROVE UpToDate(c)'
  <2>1. UpToDate(c) /\ HandsOut(r)
    OBVIOUS
  <2>2. CASE req[r].out # None /\ c = b
    BY <1>1, <1>4, <2>1, <2>2 DEF UpToDate, HandsOut, Current
  <2>3. CASE req[r].out = None \/ c # b
    BY <1>1, <1>2, <1>4, <2>1, <2>3 DEF UpToDate, Current, Previous
  <2> QED BY <2>2, <2>3
<1> QED BY <1>5, <1>6, <1>7, <1>8, <1>9

\* What was handed out and is lost is remembered.
LEMMA FailKeepsUp ==
    ASSUME IInv, KInv, NEW r \in Requests, Fail(r) PROVE KInv'
<1> USE DEF KInv
<1>1. /\ sess' = sess /\ cookie' = cookie /\ req[r] # Idle
      /\ lost' = lost \cup {s \in Sessions : /\ Live(s) /\ Holds(req[r].by, s)
                                             /\ req[r].out # None /\ req[r].out.id = s}
  BY DEF Fail, server
<1>2. /\ req'[r] = Idle /\ req'[r].tok = None /\ req'[r].out = None
      /\ \A q \in Requests \ {r} : req'[q] = req[q]
  BY EndFields DEF Fail
<1>3. \A q \in Requests : HandsOut(q)'
  BY <1>1, <1>2 DEF HandsOut, Current
<1>4. CookiesApart'
  BY <1>1 DEF CookiesApart, Apart
<1>5. \A c \in Browsers, q \in Requests : CookieApart(c, q)'
  BY <1>1, <1>2 DEF CookieApart, Apart, Older
<1>6. \A q, p \in Requests : RequestsApart(q, p)'
  BY <1>2 DEF RequestsApart, Apart, Older
<1>7. ASSUME NEW c \in Browsers PROVE UpToDate(c)'
  <2>1. UpToDate(c) /\ (cookie[c] # None => cookie[c].id \in Sessions /\ sess[cookie[c].id] # None)
    BY HeldIsMade
  <2> QED BY <1>1, <1>2, <2>1 DEF UpToDate, Current, Previous, Live, Holds
<1> QED BY <1>3, <1>4, <1>5, <1>6, <1>7

-----------------------------------------------------------------------------
(* Which step is of which kind *)

LEMMA AnswerFields ==
    ASSUME IInv, NEW r \in Requests, NEW t, NEW names, Answers(r, t, names)
    PROVE  /\ req'[r].by = req[r].by /\ req'[r].out = t /\ req'[r].at = "answer"
           /\ req'[r].tok \in {req[r].tok, None}
           /\ req[r].kind # "logout" => req'[r].tok = None
           /\ \A q \in Requests \ {r} : req'[q] = req[q]
<1>1. req[r] \in RequestRows /\ req \in [Requests -> RequestRows]
  BY DEF IInv, TypeOK
<1> DEFINE whole == [req[r] EXCEPT !.at = "answer", !.out = t, !.clears = names]
           quiet == [Idle EXCEPT !.at = "answer", !.by = req[r].by, !.out = t, !.clears = names]
<1>2. /\ whole.kind = req[r].kind /\ whole.by = req[r].by /\ whole.out = t /\ whole.at = "answer"
      /\ whole.tok = req[r].tok
  BY <1>1 DEF RequestRows
<1>3. quiet.by = req[r].by /\ quiet.out = t /\ quiet.at = "answer" /\ quiet.tok = None
  BY DEF Idle
<1>4. req' = [req EXCEPT ![r] = IF req[r].kind = "logout" THEN whole ELSE quiet]
  BY <1>2, <1>3 DEF Answers
<1> HIDE DEF whole, quiet
<1> QED BY <1>1, <1>2, <1>3, <1>4

LEMMA EndForgets ==
    ASSUME IInv, KInv, NEW r \in Requests, req[r].at \notin {"replace", "answer"}, Ends(r)
    PROVE  \A q \in Requests : req'[q] = req[q] \/ Forgets(q)
BY EndFields DEF KInv, HandsOut, Forgets, Idle, Current

LEMMA AnswerForgets ==
    ASSUME IInv, KInv, NEW r \in Requests, req[r].at # "idle", NEW names, Answers(r, req[r].out, names)
    PROVE  \A q \in Requests : req'[q] = req[q] \/ Forgets(q)
BY AnswerFields DEF Forgets, Idle

LEMMA GoForgets ==
    ASSUME IInv, KInv, NEW r \in Requests, NEW at \in Steps,
           req[r].at \notin {"idle", "replace", "answer"}, Goes(r, at)
    PROVE  \A q \in Requests : req'[q] = req[q] \/ Forgets(q)
<1>1. /\ req[r] \in RequestRows /\ req'[r] = [req[r] EXCEPT !.at = at]
      /\ \A q \in Requests \ {r} : req'[q] = req[q]
  BY GoMoves DEF IInv, TypeOK
<1>2. req'[r].by = req[r].by /\ req'[r].tok = req[r].tok /\ req'[r].out = req[r].out
  BY <1>1 DEF RequestRows
<1>3. req[r].out = None /\ req[r] # Idle
  BY DEF KInv, HandsOut, Idle
<1>4. Forgets(r)
  BY <1>2, <1>3 DEF Forgets
<1> QED BY <1>1, <1>4

\* A revocation and what time does leave the tokens as they are.
LEMMA RevokeSame ==
    ASSUME IInv, NEW S \in SUBSET Sessions, \A s \in S : sess[s] # None,
           NEW x \in Sessions, sess'[x] = Revoke(S)[x]
    PROVE  SameToken(x)
<1>1. CASE x \in S
  <2>1. PICK row : row = [sess[x] EXCEPT !.over = TRUE]
    OBVIOUS
  <2>2. sess'[x] = row
    BY <1>1, <2>1 DEF Revoke
  <2> QED BY <1>1, <2>1, <2>2, RevokedRow DEF SameToken
<1>2. CASE x \notin S
  BY <1>2 DEF Revoke, SameToken
<1> QED BY <1>1, <1>2

LEMMA SameSame == ASSUME sess' = sess PROVE \A s \in Sessions : SameToken(s)
BY DEF SameToken

\* The next token of s is handed out by the request that holds the current one.
LEMMA ChangeKeepsUp ==
    ASSUME IInv, KInv, NEW r \in Requests, req[r].tok # None, req[r].at \notin {"idle", "replace", "answer"},
           req[r].kind # "logout", Current(req[r].tok),
           NEW prev \in {"none", "authorizes", "revokes"}, NEW w \in Workspaces,
           sess'[req[r].tok.id] = NextToken(req[r].tok.id, prev, w),
           \A x \in Sessions \ {req[r].tok.id} : SameToken(x),
           Answers(r, [id |-> req[r].tok.id, gen |-> NextToken(req[r].tok.id, prev, w).gen,
                       ws |-> NextToken(req[r].tok.id, prev, w).ws], {}),
           UNCHANGED clients
    PROVE  KInv'
<1>1. PICK s : s = req[r].tok.id
  OBVIOUS
<1>2. s \in Sessions /\ sess[s] # None /\ sess[s] \in SessionRows
  BY <1>1, HeldIsMade, NoneIsNoRow DEF IInv, TypeOK
<1>3. PICK row : row = NextToken(s, prev, w)
  OBVIOUS
<1>4. row.gen = sess[s].gen + 1 /\ row.over = sess[s].over /\ row # None
  BY <1>2, <1>3, NextRow
<1>5. PICK t : t = [id |-> s, gen |-> row.gen, ws |-> row.ws]
  OBVIOUS
<1>6. Answers(r, t, {}) /\ sess'[s] = row /\ t.id = s /\ t.gen = row.gen
  BY <1>1, <1>3, <1>5
<1>7. t # None
  <2>1. t \in Tokens
    BY <1>2, <1>3, <1>5, NextRow DEF Tokens, SessionRows
  <2> QED BY <2>1, NoneIsNoRow
<1>8. req[r].out = None /\ req[r] # Idle
  BY DEF KInv, HandsOut, Idle
<1> QED BY <1>1, <1>2, <1>4, <1>6, <1>7, <1>8, AnswerFields, NextTokenKeeps DEF clients

\* Nothing is asked of the requests by what happens outside of them.
LEMMA OutsideKeepsUp ==
    ASSUME IInv, KInv, \A s \in Sessions : SameToken(s), UNCHANGED <<cookie, lost, req>>
    PROVE  KInv'
BY QuietKeeps

LEMMA RevokeKeepsUp ==
    ASSUME IInv, KInv, NEW S \in SUBSET Sessions, \A s \in S : sess[s] # None, sess' = Revoke(S),
           UNCHANGED clients, \A q \in Requests : req'[q] = req[q] \/ Forgets(q)
    PROVE  KInv'
<1>1. \A s \in Sessions : SameToken(s)
  BY RevokeSame
<1> QED BY <1>1, QuietKeeps DEF clients

LEMMA SameKeepsUp ==
    ASSUME IInv, KInv, UNCHANGED <<sess, clients>>, \A q \in Requests : req'[q] = req[q] \/ Forgets(q)
    PROVE  KInv'
BY SameSame, QuietKeeps DEF clients

LEMMA ReadKeepsUp == ASSUME IInv, KInv, NEW r \in Requests, ReadSession(r) PROVE KInv'
<1>1. req[r] \in RequestRows /\ req \in [Requests -> RequestRows]
  BY DEF IInv, TypeOK
<1>2. UNCHANGED <<sess, clients>> /\ req[r].at = "read" /\ req[r].out = None /\ req[r] # Idle
  BY DEF ReadSession, KInv, HandsOut, Idle
<1>3. CASE Ends(r)
  BY <1>2, <1>3, EndForgets, SameKeepsUp
<1>4. CASE \E at \in Steps : Goes(r, at)
  BY <1>2, <1>4, GoForgets, SameKeepsUp
<1>5. CASE \E at, s : req' = [req EXCEPT ![r].at = at, ![r].sid = s]
  <2>1. PICK at, s : req' = [req EXCEPT ![r].at = at, ![r].sid = s]
    BY <1>5
  <2>2. /\ req'[r].by = req[r].by /\ req'[r].tok = req[r].tok /\ req'[r].out = req[r].out
        /\ \A q \in Requests \ {r} : req'[q] = req[q]
    BY <1>1, <2>1 DEF RequestRows
  <2>3. Forgets(r)
    BY <1>2, <2>2 DEF Forgets
  <2> QED BY <1>2, <2>2, <2>3, SameKeepsUp
<1> QED BY <1>3, <1>4, <1>5 DEF ReadSession, Steps

LEMMA RotateKeepsUp == ASSUME IInv, KInv, NEW r \in Requests, Rotate(r) PROVE KInv'
<1>1. req[r] \in RequestRows /\ ReqOK(r) /\ sess \in [Sessions -> SessionRows \cup {None}]
  BY DEF IInv, TypeOK
<1>2. req[r].tok # None /\ req[r].kind # "logout" /\ req[r].at = "rotate" /\ UNCHANGED clients
  BY <1>1 DEF ReqOK, Rotate
<1>3. CASE NamedByCurrent(req[r].tok)
  <2>1. req[r].tok.id \in Sessions /\ sess[req[r].tok.id] \in SessionRows
    BY <1>1, <1>2 DEF RequestRows, Tokens, ReqOK, TokOK
  <2>2. sess[req[r].tok.id].ws \in Workspaces
    BY <2>1 DEF SessionRows
  <2>3. PICK w \in Workspaces : w = sess[req[r].tok.id].ws
    BY <2>2
  <2>4. /\ sess' = [sess EXCEPT ![req[r].tok.id] = NextToken(req[r].tok.id, "authorizes", w)]
        /\ Answers(r, [id |-> req[r].tok.id, gen |-> NextToken(req[r].tok.id, "authorizes", w).gen,
                       ws |-> NextToken(req[r].tok.id, "authorizes", w).ws], {})
    BY <1>3, <2>3 DEF Rotate, AfterRotation
  <2>5. /\ sess'[req[r].tok.id] = NextToken(req[r].tok.id, "authorizes", w)
        /\ \A x \in Sessions \ {req[r].tok.id} : SameToken(x)
    BY <1>1, <2>1, <2>4 DEF SameToken
  <2> QED BY <1>2, <1>3, <2>4, <2>5, ChangeKeepsUp DEF NamedByCurrent
<1>4. CASE Ends(r) /\ UNCHANGED sess
  BY <1>2, <1>4, EndForgets, SameKeepsUp
<1> QED BY <1>3, <1>4 DEF Rotate

LEMMA SwitchKeepsUp ==
    ASSUME IInv, KInv, NEW r \in Requests, NEW w \in Workspaces, SwitchWorkspace(r, w) PROVE KInv'
<1>1. req[r] \in RequestRows /\ ReqOK(r) /\ sess \in [Sessions -> SessionRows \cup {None}]
  BY DEF IInv, TypeOK
<1>2. req[r].tok # None /\ req[r].kind # "logout" /\ req[r].at = "switch" /\ UNCHANGED clients
  BY <1>1 DEF ReqOK, SwitchWorkspace
<1>3. CASE NamedByCurrent(req[r].tok) /\ w # sess[req[r].tok.id].ws
  <2>1. req[r].tok.id \in Sessions
    BY <1>1, <1>2 DEF RequestRows, Tokens
  <2>2. /\ sess' = [sess EXCEPT ![req[r].tok.id] = NextToken(req[r].tok.id, "revokes", w)]
        /\ Answers(r, [id |-> req[r].tok.id, gen |-> NextToken(req[r].tok.id, "revokes", w).gen,
                       ws |-> NextToken(req[r].tok.id, "revokes", w).ws], {})
    BY <1>3 DEF SwitchWorkspace, AfterSwitch
  <2>3. /\ sess'[req[r].tok.id] = NextToken(req[r].tok.id, "revokes", w)
        /\ \A x \in Sessions \ {req[r].tok.id} : SameToken(x)
    BY <1>1, <2>1, <2>2 DEF SameToken
  <2> QED BY <1>2, <1>3, <2>2, <2>3, ChangeKeepsUp DEF NamedByCurrent
<1>4. CASE Ends(r) /\ UNCHANGED sess
  BY <1>2, <1>4, EndForgets, SameKeepsUp
<1> QED BY <1>3, <1>4 DEF SwitchWorkspace

LEMMA ConfirmKeepsUp ==
    ASSUME IInv, KInv, NEW r \in Requests, NEW u \in Users, ConfirmEmail(r, u) PROVE KInv'
<1>1. /\ req[r] \in RequestRows /\ ReqOK(r) /\ sess \in [Sessions -> SessionRows \cup {None}]
  BY DEF IInv, TypeOK
<1>2. UNCHANGED clients /\ req[r].at = "email" /\ req[r].kind # "logout"
  BY <1>1 DEF ConfirmEmail, ReqOK
<1> DEFINE s == req[r].sid
           own == s # None /\ sess[s].user = u
<1>3. CASE Ends(r) /\ UNCHANGED sess
  BY <1>2, <1>3, EndForgets, SameKeepsUp
<1>4. CASE /\ own /\ Current(req[r].tok)
           /\ sess' = [Revoke(SessionsOf(u) \ {s}) EXCEPT ![s] = NextToken(s, "none", sess[s].ws)]
           /\ Answers(r, [id |-> s, gen |-> NextToken(s, "none", sess[s].ws).gen,
                          ws |-> NextToken(s, "none", sess[s].ws).ws], {})
  <2>1. s \in Sessions /\ sess[s] \in SessionRows /\ sess[s] # None /\ req[r].tok # None /\ s = req[r].tok.id
    BY <1>1, <1>4, NoneIsNoRow DEF RequestRows, Tokens, ReqOK, TokOK
  <2>2. PICK w \in Workspaces : w = sess[s].ws
    BY <2>1 DEF SessionRows
  <2>3. PICK S \in SUBSET Sessions : S = SessionsOf(u) \ {s}
    BY SessionsOfMade
  <2>4. \A x \in S : sess[x] # None
    BY <2>3, SessionsOfMade DEF Made
  <2>5. Revoke(S) \in [Sessions -> SessionRows \cup {None}]
    BY <2>4, RevokedRows
  <2>6. /\ sess'[s] = NextToken(s, "none", w)
        /\ \A x \in Sessions \ {s} : sess'[x] = Revoke(S)[x]
    BY <1>4, <2>1, <2>2, <2>3, <2>5
  <2>7. \A x \in Sessions \ {s} : SameToken(x)
    BY <2>4, <2>6, RevokeSame
  <2>8. Answers(r, [id |-> s, gen |-> NextToken(s, "none", w).gen, ws |-> NextToken(s, "none", w).ws], {})
    BY <1>4, <2>2
  <2> HIDE DEF s
  <2> QED BY <1>2, <1>4, <2>1, <2>6, <2>7, <2>8, ChangeKeepsUp
<1>5. CASE sess' = Revoke(SessionsOf(u)) /\ Ends(r)
  <2>1. SessionsOf(u) \in SUBSET Sessions /\ \A x \in SessionsOf(u) : sess[x] # None
    BY SessionsOfMade DEF Made
  <2> QED BY <1>2, <1>5, <2>1, EndForgets, RevokeKeepsUp
<1> QED BY <1>3, <1>4, <1>5 DEF ConfirmEmail

\* The session of a token that names it is revoked, or none is.
LEMMA PresentedKeepsUp ==
    ASSUME IInv, KInv, NEW r \in Requests, UNCHANGED clients,
           sess' = IF req[r].tok # None /\ Names(req[r].tok) THEN Revoke({req[r].tok.id}) ELSE sess,
           \A q \in Requests : req'[q] = req[q] \/ Forgets(q)
    PROVE  KInv'
<1>1. CASE req[r].tok # None /\ Names(req[r].tok)
  BY <1>1, HeldIsMade, RevokeKeepsUp
<1>2. CASE ~(req[r].tok # None /\ Names(req[r].tok))
  BY <1>2, SameKeepsUp
<1> QED BY <1>1, <1>2

LEMMA RevokeTokenKeepsUp == ASSUME IInv, KInv, NEW r \in Requests, RevokeToken(r) PROVE KInv'
BY GoForgets, PresentedKeepsUp DEF RevokeToken, Steps

LEMMA ReplaceSessionKeepsUp == ASSUME IInv, KInv, NEW r \in Requests, ReplaceSession(r) PROVE KInv'
BY AnswerForgets, PresentedKeepsUp DEF ReplaceSession

LEMMA RevokeLegacyKeepsUp == ASSUME IInv, KInv, NEW r \in Requests, RevokeLegacy(r) PROVE KInv'
<1>1. UNCHANGED clients /\ req[r].at = "revokeLegacy" /\ req[r].out = None
      /\ Answers(r, None, {"session", "rr_sid"})
  BY DEF RevokeLegacy, KInv, HandsOut
<1>2. \A q \in Requests : req'[q] = req[q] \/ Forgets(q)
  BY <1>1, AnswerForgets
<1>3. CASE req[r].legacy = None
  BY <1>1, <1>2, <1>3, SameKeepsUp DEF RevokeLegacy
<1>4. CASE req[r].legacy # None
  <2>1. PICK S \in SUBSET Sessions : S = FromLegacy(req[r].legacy)
    BY DEF FromLegacy, Made
  <2>2. sess' = Revoke(S) /\ \A x \in S : sess[x] # None
    BY <1>4, <2>1 DEF RevokeLegacy, FromLegacy, Made
  <2> QED BY <1>1, <1>2, <2>2, RevokeKeepsUp
<1> QED BY <1>3, <1>4

LEMMA EndSessionsKeepsUp ==
    ASSUME IInv, KInv, NEW r \in Requests, NEW S \in SUBSET Sessions, EndSessions(r, S) PROVE KInv'
<1>1. UNCHANGED clients /\ req[r].at = "end" /\ req[r].out = None
  BY DEF EndSessions, KInv, HandsOut
<1>2. sess' = Revoke(S) /\ \A x \in S : sess[x] # None
  BY SessionsOfMade DEF EndSessions, Made
<1>3. \A q \in Requests : req'[q] = req[q] \/ Forgets(q)
  BY <1>1, EndForgets, AnswerForgets DEF EndSessions
<1> QED BY <1>1, <1>2, <1>3, RevokeKeepsUp

\* A link or a challenge makes a session and the old one is revoked with it, or it is refused.
LEMMA NewRow ==
    ASSUME NEW u \in Users, NEW c \in Links \cup Users, NEW s \in Sessions, NEW t, t = FirstToken(s, u)
    PROVE  /\ NewSession(u, c) # None /\ NewSession(u, c).gen = 0
           /\ t # None /\ t.id = s /\ t.gen = 0
<1>1. NewSession(u, c) \in SessionRows /\ NewSession(u, c).gen = 0
  BY DEF NewSession, SessionRows, Workspaces
<1>2. t \in Tokens /\ t.id = s /\ t.gen = 0
  BY DEF FirstToken, Tokens, Workspaces
<1> QED BY <1>1, <1>2, NoneIsNoRow

LEMMA ConsumeKeepsUp ==
    ASSUME IInv, KInv, NEW r \in Requests, NEW s \in Sessions, Consume(r, s) PROVE KInv'
<1>1. /\ req[r] \in RequestRows /\ req \in [Requests -> RequestRows] /\ ReqOK(r)
      /\ sess \in [Sessions -> SessionRows \cup {None}] /\ active \subseteq Users
  BY DEF IInv, TypeOK
<1>2. UNCHANGED clients /\ req[r].at = "consume" /\ req[r].kind = "login" /\ req[r].out = None /\ req[r] # Idle
  BY <1>1 DEF Consume, ReqOK, KInv, HandsOut, Idle
<1>3. PICK c : c = req[r].link
  OBVIOUS
<1>4. PICK u : u = link[c].for
  OBVIOUS
<1>5. CASE Redeemable(c) /\ u \in active
  <2>1. c \in Links /\ u \in Users
    BY <1>1, <1>2, <1>3, <1>5 DEF RequestRows, ReqOK
  <2>2. PICK t : t = FirstToken(s, u)
    OBVIOUS
  <2>3. /\ sess[s] = None /\ sess' = [sess EXCEPT ![s] = NewSession(u, c)]
        /\ req' = [req EXCEPT ![r].at = "replace", ![r].out = t, ![r].clears = {"link", "rr_sid"}]
    BY <1>3, <1>4, <1>5, <2>2 DEF Consume
  <2>4. /\ sess'[s] = NewSession(u, c) /\ \A x \in Sessions \ {s} : SameToken(x)
    BY <1>1, <2>3 DEF SameToken
  <2>5. /\ req'[r].by = req[r].by /\ req'[r].tok = req[r].tok /\ req'[r].at = "replace" /\ req'[r].out = t
        /\ \A q \in Requests \ {r} : req'[q] = req[q]
    BY <1>1, <2>3 DEF RequestRows
  <2>6. sess'[s] # None /\ sess'[s].gen = 0 /\ t # None /\ t.id = s /\ t.gen = 0
    BY <2>1, <2>2, <2>4, NewRow
  <2>7. UNCHANGED <<cookie, lost>> /\ req'[r].tok \in {req[r].tok, None} /\ req'[r].at \in {"replace", "answer"}
    BY <1>2, <2>5 DEF clients
  <2> QED BY <1>2, <2>3, <2>4, <2>5, <2>6, <2>7, FirstTokenKeeps
<1>6. CASE ~(Redeemable(c) /\ u \in active)
  <2>1. Answers(r, None, {"link"}) /\ UNCHANGED sess
    BY <1>3, <1>4, <1>6 DEF Consume
  <2> QED BY <1>2, <2>1, AnswerForgets, SameKeepsUp
<1> QED BY <1>5, <1>6

LEMMA FinishPasskeyKeepsUp ==
    ASSUME IInv, KInv, NEW r \in Requests, NEW s \in Sessions, NEW u \in Users, FinishPasskey(r, s, u)
    PROVE  KInv'
<1>1. req[r] \in RequestRows /\ ReqOK(r)
  BY DEF IInv, TypeOK
<1>2. UNCHANGED clients /\ req[r].at = "passkey" /\ req[r].kind = "passkey" /\ req[r].out = None /\ req[r] # Idle
  BY <1>1 DEF FinishPasskey, ReqOK, KInv, HandsOut, Idle
<1>3. PICK c : c = req[r].link
  OBVIOUS
<1>4. PICK S : S = IF req[r].sid = None THEN {} ELSE {req[r].sid}
  OBVIOUS
<1>5. S \in SUBSET Sessions /\ \A x \in S : sess[x] # None
  BY <1>1, <1>4 DEF RequestRows, ReqOK, TokOK
<1>6. CASE Redeemable(c) /\ u \in active
  <2>1. c \in Links
    BY <1>1, <1>2, <1>3 DEF RequestRows, ReqOK
  <2>2. PICK t : t = FirstToken(s, u)
    OBVIOUS
  <2>3. /\ sess[s] = None /\ sess' = [Revoke(S) EXCEPT ![s] = NewSession(u, c)]
        /\ Answers(r, t, {"link", "rr_sid"})
    BY <1>3, <1>4, <1>6, <2>2 DEF FinishPasskey
  <2>4. Revoke(S) \in [Sessions -> SessionRows \cup {None}]
    BY <1>5, RevokedRows
  <2>5. sess'[s] = NewSession(u, c) /\ \A x \in Sessions \ {s} : sess'[x] = Revoke(S)[x]
    BY <2>3, <2>4
  <2>6. \A x \in Sessions \ {s} : SameToken(x)
    BY <1>5, <2>5, RevokeSame
  <2> QED BY <1>2, <2>1, <2>2, <2>3, <2>5, <2>6, NewRow, AnswerFields, FirstTokenKeeps DEF clients
<1>7. CASE ~(Redeemable(c) /\ u \in active)
  <2>1. Ends(r) /\ UNCHANGED sess
    BY <1>3, <1>7 DEF FinishPasskey
  <2> QED BY <1>2, <2>1, EndForgets, SameKeepsUp
<1> QED BY <1>6, <1>7

LEMMA FinishExchangeKeepsUp ==
    ASSUME IInv, KInv, NEW r \in Requests, NEW s \in Sessions, FinishExchange(r, s) PROVE KInv'
<1>1. /\ req[r] \in RequestRows /\ ReqOK(r) /\ sess \in [Sessions -> SessionRows \cup {None}]
  BY DEF IInv, TypeOK
<1>2. /\ UNCHANGED clients /\ req[r].at = "exchanging" /\ req[r].kind # "logout"
      /\ req[r].out = None /\ req[r] # Idle
  BY <1>1 DEF FinishExchange, ReqOK, KInv, HandsOut, Idle
<1>3. PICK u \in Users : u = req[r].legacy
  BY <1>1, <1>2 DEF RequestRows, ReqOK
<1>4. CASE FromLegacy(u) = {} /\ u \in active
  <2>1. PICK t : t = FirstToken(s, u)
    OBVIOUS
  <2>2. /\ sess[s] = None /\ sess' = [sess EXCEPT ![s] = NewSession(u, u)]
        /\ Ends(r) \/ Answers(r, t, {"rr_sid"})
    BY <1>3, <1>4, <2>1 DEF FinishExchange
  <2>3. sess'[s] = NewSession(u, u) /\ \A x \in Sessions \ {s} : SameToken(x)
    BY <1>1, <2>2 DEF SameToken
  <2>4. CASE Ends(r)
    <3>1. \A x \in Sessions : SameToken(x)
      BY <2>2, <2>3 DEF SameToken
    <3> QED BY <1>2, <2>4, <3>1, EndForgets, QuietKeeps DEF clients
  <2>5. CASE Answers(r, t, {"rr_sid"})
    BY <1>2, <2>1, <2>2, <2>3, <2>5, NewRow, AnswerFields, FirstTokenKeeps DEF clients
  <2> QED BY <2>2, <2>4, <2>5
<1>5. CASE ~(FromLegacy(u) = {} /\ u \in active)
  <2>1. Ends(r) /\ UNCHANGED sess
    BY <1>3, <1>5 DEF FinishExchange
  <2> QED BY <1>2, <2>1, EndForgets, SameKeepsUp
<1> QED BY <1>4, <1>5

LEMMA BeginExchangeKeepsUp == ASSUME IInv, KInv, NEW r \in Requests, BeginExchange(r) PROVE KInv'
<1>1. UNCHANGED <<sess, clients>> /\ req[r].at = "exchange" /\ (Goes(r, "exchanging") \/ Ends(r))
  BY DEF BeginExchange, server
<1> QED BY <1>1, GoForgets, EndForgets, SameKeepsUp DEF Steps

LEMMA WriteKeepsUp ==
    ASSUME IInv, KInv, NEW s \in Sessions, NEW row, Write(s, row), sess[s] # None,
           row # None, row.gen = sess[s].gen, sess[s].over => row.over
    PROVE  KInv'
<1>1. \A x \in Sessions : SameToken(x)
  BY DEF Write, SameToken, IInv, TypeOK
<1> QED BY <1>1, OutsideKeepsUp DEF Write, clients

LEMMA OutsideStepKeepsUp == ASSUME IInv, KInv, Outside PROVE KInv'
<1>1. ASSUME NEW s \in Sessions, GraceEnds(s) PROVE KInv'
  <2>1. sess[s] # None /\ sess[s] \in SessionRows
    BY <1>1 DEF GraceEnds, Live, IInv, TypeOK
  <2>2. PICK row : row = [sess[s] EXCEPT !.prev = "revokes"]
    OBVIOUS
  <2>3. row \in SessionRows /\ row.gen = sess[s].gen /\ row.over = sess[s].over
    BY <2>1, <2>2 DEF SessionRows
  <2>4. Write(s, row) /\ row # None
    BY <1>1, <2>2, <2>3, NoneIsNoRow DEF GraceEnds
  <2> QED BY <2>1, <2>3, <2>4, WriteKeepsUp
<1>2. ASSUME NEW s \in Sessions, Expires(s) PROVE KInv'
  <2>1. sess[s] # None
    BY <1>2 DEF Expires, Live
  <2>2. PICK row : row = [sess[s] EXCEPT !.over = TRUE]
    OBVIOUS
  <2>3. Write(s, row) /\ row # None /\ row.gen = sess[s].gen /\ row.over
    BY <1>2, <2>1, <2>2, RevokedRow DEF Expires
  <2> QED BY <2>1, <2>3, WriteKeepsUp
<1>3. ASSUME NEW u \in Users, LeaveAccount(u) PROVE KInv'
  <2>1. SessionsOf(u) \in SUBSET Sessions /\ \A x \in SessionsOf(u) : sess[x] # None
    BY SessionsOfMade DEF Made
  <2> QED BY <1>3, <2>1, RevokeKeepsUp DEF LeaveAccount
<1>4. CASE UNCHANGED <<sess, cookie, lost, req>>
  BY <1>4, SameSame, OutsideKeepsUp
<1> QED BY <1>1, <1>2, <1>3, <1>4
   DEF Outside, LinkExpires, IssueLink, OpenLink, BeginPasskey, clients, server

LEMMA NextKeepsUp == IInv /\ KInv /\ [Next]_vars => KInv'
<1> SUFFICES ASSUME IInv, KInv, [Next]_vars PROVE KInv'
  OBVIOUS
<1>1. ASSUME NEW r \in Requests, Signing(r) PROVE KInv'
  BY <1>1, ConsumeKeepsUp, FinishExchangeKeepsUp, FinishPasskeyKeepsUp, ReplaceSessionKeepsUp,
     BeginExchangeKeepsUp DEF Signing
<1>2. ASSUME NEW r \in Requests, Serve(r) PROVE KInv'
  BY <1>1, <1>2, ReadKeepsUp, RotateKeepsUp, SwitchKeepsUp, ConfirmKeepsUp, RevokeTokenKeepsUp,
     RevokeLegacyKeepsUp, EndSessionsKeepsUp, AnswerKeepsUp, FailKeepsUp DEF Serve
<1>3. CASE UNCHANGED vars
  BY <1>3, SameSame, OutsideKeepsUp DEF vars
<1> QED BY <1>2, <1>3, OutsideStepKeepsUp, StartKeepsUp DEF Next

\* A browser never falls behind its session for good: whatever changes a token answers the only
\* browser that has the last one, and only a lost answer leaves it with that
\* (rotateAuthSession, change_auth_session_workspace, confirmAccountEmailChange).
THEOREM CookiesKeepUp == Spec => []CookieKeepsUp
<1>1. IInv /\ KInv => CookieKeepsUp
  <2> SUFFICES ASSUME IInv, KInv, NEW b \in Browsers, cookie[b] # None, ~sess[cookie[b].id].over
               PROVE  \/ Current(cookie[b])
                      \/ /\ Previous(cookie[b])
                         /\ \E r \in Requests : req[r].by = b /\ req[r].out = Token(cookie[b].id)
                      \/ cookie[b].id \in lost
    BY DEF CookieKeepsUp
  <2>1. UpToDate(b)
    BY DEF KInv
  <2>2. ASSUME NEW r \in Requests, req[r].out # None PROVE req[r].out = Token(req[r].out.id)
    <3>1. PICK t : t = req[r].out
      OBVIOUS
    <3>2. t \in Tokens /\ TokOK(t) /\ Current(t)
      BY <2>2, <3>1, HeldIsMade DEF IInv, ReqOK, KInv, HandsOut
    <3>3. t = [id |-> t.id, gen |-> t.gen, ws |-> t.ws]
      BY <3>2 DEF Tokens
    <3>4. t.gen = sess[t.id].gen /\ t.ws = sess[t.id].ws
      BY <2>2, <3>1, <3>2 DEF TokOK, Current
    <3> QED BY <3>1, <3>3, <3>4 DEF Token
  <2> QED BY <2>1, <2>2 DEF UpToDate
<1> QED BY <1>1, InvHolds, InitKeeps, NextKeepsUp, PTL DEF Spec
=============================================================================
